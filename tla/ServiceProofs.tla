---------------------------- MODULE ServiceProofs ----------------------------
(***************************************************************************)
(* Machine-checked proofs about Pipeline, for every number of requests,    *)
(* records, replicas and results, and every bound on failures: the part    *)
(* that does not depend on the rows staying where they are (ServiceInv).   *)
(* The steps of the system are first brought into the form that all the    *)
(* proofs work with, once for all of them (StepCases).                     *)
(***************************************************************************)
EXTENDS Pipeline, TLAPS

-----------------------------------------------------------------------------
(* The steps of the system, by what they do *)

StreamsSame ==
    UNCHANGED <<login_events, trimmed, groupExists, lastDelivered, pel,
                normalized_events, acked, lost>>

OnlyRequest(r) ==
    /\ request' \in [Request -> RequestState]
    /\ \A q \in Request \ {r} : request'[q] = request[q]

OnlyWorker(w) ==
    /\ worker' \in [Worker -> WorkerState]
    /\ \A u \in Worker \ {w} : worker'[u] = worker[u]

\* A request is received or refused, a publish fails, the client is answered.
AnswerStep(r) ==
    /\ StreamsSame /\ UNCHANGED <<events, worker>> /\ OnlyRequest(r)
    /\ \/ /\ request[r].pc = "idle"
          /\ \/ request'[r].pc = "persist" /\ request'[r].reply = request[r].reply
             \/ request'[r].pc = "closed" /\ request'[r].reply = "422"
          /\ UNCHANGED spent
       \/ /\ request[r].pc = "publish" /\ request'[r].pc = "publish"
          /\ request'[r].next = request[r].next + 1
          /\ request'[r].size = request[r].size
          /\ request'[r].reply = request[r].reply
          /\ Fault
       \/ /\ request[r].pc = "publish" /\ request'[r].pc = "closed"
          /\ request[r].next > request[r].size
          /\ request'[r].size = request[r].size
          /\ request'[r].reply = "202"
          /\ UNCHANGED spent

\* The ingestion process dies.
DropStep ==
    /\ StreamsSame /\ UNCHANGED <<events, worker>> /\ Crash
    /\ request' \in [Request -> RequestState]
    /\ \A r \in Request :
          \/ request'[r] = request[r]
          \/ /\ request[r].pc \in InFlight /\ request'[r].pc = "closed"
             /\ request'[r].reply = "dropped"

\* The insert, whether the client is told of it or not.
InsertStep(r) ==
    /\ StreamsSame /\ UNCHANGED worker /\ OnlyRequest(r)
    /\ request[r].pc = "persist"
    /\ events' \in [EventId -> RowValue]
    /\ \A e \in EventId : e[1] # r => events'[e] = events[e]
    /\ \A e \in EventId : events'[e] # events[e] => events'[e] = RawRow
    /\ \/ /\ request'[r].pc = "publish" /\ request'[r].next = 1
          /\ request'[r].size = request[r].size
          /\ request'[r].reply = request[r].reply
          /\ \A i \in 1..request[r].size : events'[<<r, i>>] = RawRow
          /\ \A i \in 1..MaxBatch :
                events'[<<r, i>>] # events[<<r, i>>] => i <= request[r].size
          /\ InsertRows(r) /\ UNCHANGED spent
       \/ /\ request'[r].pc = "closed" /\ request'[r].reply = "500"
          /\ InsertRows(r) \/ UNCHANGED events
          /\ Fault

\* An XADD on login_events.
AppendStep(r) ==
    /\ UNCHANGED <<events, normalized_events, worker>>
    /\ UNCHANGED <<groupExists, lastDelivered, pel, acked>>
    /\ OnlyRequest(r)
    /\ request[r].pc = "publish" /\ request'[r].pc = "publish"
    /\ request'[r].reply = request[r].reply
    /\ request'[r].size = request[r].size
    /\ request[r].next \in 1..request[r].size
    /\ \/ request'[r].next = request[r].next + 1 /\ UNCHANGED spent
       \/ request'[r].next = request[r].next /\ Resend
    /\ <<r, request[r].next>> \in EventId
    /\ login_events' = Append(login_events, <<r, request[r].next>>)
    /\ trimmed' \in Nat /\ trimmed' >= trimmed
    /\ trimmed' <= Len(login_events) + 1
    /\ \/ trimmed' = trimmed
       \/ trimmed' + StreamMaxLen <= Len(login_events) + 1
    /\ lost' = lost \cup ((Frontier + 1)..trimmed')

\* A startup, with or without success.
GroupStep(w) ==
    /\ UNCHANGED <<events, login_events, trimmed, lastDelivered, pel>>
    /\ UNCHANGED <<normalized_events, acked, lost, request>>
    /\ groupExists' \in BOOLEAN /\ (groupExists => groupExists')
    /\ OnlyWorker(w)
    /\ worker[w].pc \notin Busy /\ worker'[w].pc \notin Busy
    /\ Fault \/ UNCHANGED spent

\* An XREADGROUP that delivers a batch, to the replica or to nobody.
DeliverStep(w, hi) ==
    /\ UNCHANGED <<events, login_events, trimmed, groupExists>>
    /\ UNCHANGED <<normalized_events, acked, lost, request>>
    /\ groupExists
    /\ hi \in Nat /\ Frontier < hi /\ hi <= Len(login_events)
    /\ lastDelivered' = hi
    /\ pel' = pel \cup ((Frontier + 1)..hi)
    /\ worker[w].pc \notin Busy
    /\ OnlyWorker(w)
    /\ \/ worker'[w].pc \notin Busy /\ Fault
       \/ /\ worker'[w].pc = "normalize"
          /\ worker'[w].cur = Frontier + 1
          /\ worker'[w].hi = hi
          /\ UNCHANGED spent

\* Where a busy replica goes from here: on to the next message, or to rest.
MovesOn(w) ==
    \/ worker'[w].pc \notin Busy
    \/ /\ worker[w].cur < worker[w].hi
       /\ worker'[w].pc = "normalize"
       /\ worker'[w].cur = worker[w].cur + 1
       /\ worker'[w].hi = worker[w].hi

\* The same message, the next stage of it.
GoesTo(w, where) ==
    /\ worker'[w].pc = where
    /\ worker'[w].cur = worker[w].cur
    /\ worker'[w].hi = worker[w].hi

\* A replica normalizes, fails before it has an effect, stops or waits.
LocalStep(w) ==
    /\ StreamsSame /\ UNCHANGED <<events, request>> /\ OnlyWorker(w)
    /\ \/ worker'[w] = worker[w] /\ UNCHANGED spent
       \/ worker'[w].pc \notin Busy /\ Crash
       \/ worker[w].pc \in Busy /\ MovesOn(w) /\ Fault
       \/ /\ worker[w].pc = "normalize" /\ GoesTo(w, "write")
          /\ worker'[w].value \in Result
          /\ UNCHANGED spent

\* The UPDATE, whether the replica gets its answer or not.
WriteStep(w) ==
    /\ StreamsSame /\ UNCHANGED request /\ OnlyWorker(w)
    /\ worker[w].pc = "write"
    /\ UpdateRow(w)
    /\ \/ /\ GoesTo(w, "publish")
          /\ worker'[w].value = worker[w].value
          /\ UNCHANGED spent
       \/ MovesOn(w) /\ Fault

\* An XADD on normalized_events, the same.
AnnounceStep(w) ==
    /\ UNCHANGED <<events, login_events, trimmed, groupExists>>
    /\ UNCHANGED <<lastDelivered, pel, acked, lost, request>>
    /\ OnlyWorker(w)
    /\ worker[w].pc = "publish"
    /\ XAddNormalized(Current(w), worker[w].value)
    /\ \/ /\ GoesTo(w, "ack")
          /\ worker'[w].value = worker[w].value
          /\ UNCHANGED spent
       \/ worker'[w] = worker[w] /\ Resend
       \/ MovesOn(w) /\ Fault

\* The acknowledgement.
AckStep(w) ==
    /\ UNCHANGED <<events, login_events, trimmed, groupExists, request>>
    /\ UNCHANGED <<lastDelivered, normalized_events, lost, spent>>
    /\ OnlyWorker(w)
    /\ worker[w].pc = "ack"
    /\ pel' = pel \ {worker[w].cur}
    /\ acked' = acked \cup ({worker[w].cur} \cap pel)
    /\ MovesOn(w)
    /\ worker'[w].pc \notin Busy => worker[w].cur >= worker[w].hi

\* Redis loses the stream.
LossStep ==
    /\ UNCHANGED <<events, login_events, normalized_events, acked>>
    /\ UNCHANGED <<request, worker>>
    /\ Loss
    /\ trimmed' = Len(login_events) /\ lastDelivered' = 0
    /\ groupExists' = FALSE
    /\ lost' = lost \cup pel \cup Waiting
    /\ pel' = {}

StillStep == StreamsSame /\ UNCHANGED <<events, request, worker, spent>>

ServiceStep ==
    \/ \E r \in Request : AnswerStep(r) \/ InsertStep(r) \/ AppendStep(r)
    \/ DropStep
    \/ \E w \in Worker :
          \/ GroupStep(w) \/ LocalStep(w) \/ WriteStep(w)
          \/ AnnounceStep(w) \/ AckStep(w)
          \/ \E hi \in Nat : DeliverStep(w, hi)
    \/ LossStep
    \/ StillStep

-----------------------------------------------------------------------------
(* Facts used for several steps *)

LEMMA FrontierType ==
    ASSUME TypeOK
    PROVE  /\ Frontier \in Nat
           /\ Frontier >= lastDelivered
           /\ Frontier >= trimmed
           /\ Frontier = lastDelivered \/ Frontier = trimmed
  BY DEF Frontier, TypeOK, StoreTypeOK

\* Using up a bound keeps its type and only raises the counts.
LEMMA SpentType ==
    ASSUME TypeOK, Fault \/ Crash \/ Loss \/ Resend \/ UNCHANGED spent
    PROVE  /\ spent' \in Bounds
           /\ spent'.faults >= spent.faults
           /\ spent'.crashes >= spent.crashes
           /\ spent'.losses >= spent.losses
           /\ spent'.resends >= spent.resends
           /\ Fault => spent'.faults > 0
           /\ Crash => spent'.crashes > 0
           /\ Loss => spent'.losses > 0
           /\ Resend => spent'.resends > 0 /\ MaxResends > 0
<1>1. spent \in [faults : Nat, crashes : Nat, losses : Nat, resends : Nat]
  BY DEF TypeOK, StoreTypeOK, Bounds
<1>2. CASE Fault
  BY <1>1, <1>2, StoreAssumption DEF Fault, Crash, Loss, Resend, Bounds
<1>3. CASE Crash
  BY <1>1, <1>3, StoreAssumption DEF Fault, Crash, Loss, Resend, Bounds
<1>4. CASE Loss
  BY <1>1, <1>4, StoreAssumption DEF Fault, Crash, Loss, Resend, Bounds
<1>5. CASE Resend
  BY <1>1, <1>5, StoreAssumption DEF Fault, Crash, Loss, Resend, Bounds
<1>6. CASE UNCHANGED spent
  BY <1>1, <1>6, StoreAssumption DEF Fault, Crash, Loss, Resend, Bounds
<1> QED
  BY <1>1, <1>2, <1>3, <1>4, <1>5, <1>6

\* The message a busy replica processes is on the stream.
LEMMA CurrentOK ==
    ASSUME ServiceInv, NEW w \in Worker, worker[w].pc \in Busy
    PROVE  /\ worker[w].cur \in DOMAIN login_events
           /\ worker[w].cur \in Nat /\ worker[w].hi \in Nat
           /\ Current(w) \in EventId
<1>1. /\ worker[w].cur \in DOMAIN login_events
      /\ worker[w].cur \in Nat /\ worker[w].hi \in Nat
  BY FrontierType DEF ServiceInv, EntriesAccounted, WorkerInv, WorkerOK,
     WorkerState, TypeOK, StoreTypeOK, ConsumerTypeOK
<1> QED
  BY <1>1 DEF ServiceInv, Current, TypeOK, StoreTypeOK

-----------------------------------------------------------------------------
(* Every step has one of the forms above *)

LEMMA AnswerForm ==
    ASSUME ServiceInv, NEW r \in Request, UNCHANGED consumerVars,
           Receive(r) \/ Reject(r) \/ PublishFails(r) \/ Accept(r)
    PROVE  AnswerStep(r)
<1>0. StreamsSame /\ UNCHANGED <<events, worker>>
  BY DEF Receive, Reject, PublishFails, Accept, storeVars, pgVars,
         streamVars, histVars, consumerVars, StreamsSame
<1>1. request \in [Request -> RequestState]
  BY DEF ServiceInv, TypeOK, IngestTypeOK
<1>2. OnlyRequest(r)
  BY <1>1, StoreAssumption
     DEF Receive, Reject, PublishFails, Accept, Close, RequestState, InFlight,
         OnlyRequest
<1>3. CASE Receive(r) \/ Reject(r)
  BY <1>0, <1>1, <1>2, <1>3
     DEF Receive, Reject, Close, RequestState, storeVars, AnswerStep
<1>4. CASE PublishFails(r) \/ Accept(r)
  BY <1>0, <1>1, <1>2, <1>4
     DEF PublishFails, Accept, Close, RequestState, storeVars, AnswerStep
<1> QED
  BY <1>3, <1>4

LEMMA DropForm ==
    ASSUME ServiceInv, IngestionCrash, UNCHANGED consumerVars
    PROVE  DropStep
<1>0. StreamsSame /\ UNCHANGED <<events, worker>> /\ Crash
  BY DEF IngestionCrash, storeVars, pgVars, streamVars, histVars,
         consumerVars, StreamsSame
<1>1. request \in [Request -> RequestState]
  BY DEF ServiceInv, TypeOK, IngestTypeOK
<1>2. request' \in [Request -> RequestState]
  BY <1>1 DEF IngestionCrash, RequestState
<1>3. \A r \in Request :
          \/ request'[r] = request[r]
          \/ /\ request[r].pc \in InFlight /\ request'[r].pc = "closed"
             /\ request'[r].reply = "dropped"
  BY <1>1 DEF IngestionCrash, RequestState
<1> QED
  BY <1>0, <1>2, <1>3 DEF DropStep

LEMMA InsertForm ==
    ASSUME ServiceInv, NEW r \in Request, Persist(r) \/ PersistFails(r),
           UNCHANGED consumerVars
    PROVE  InsertStep(r)
<1>0. /\ StreamsSame /\ UNCHANGED worker
      /\ request[r].pc = "persist"
      /\ InsertRows(r) \/ UNCHANGED events
  BY DEF Persist, PersistFails, streamVars, histVars, consumerVars, StreamsSame
<1>1. /\ request \in [Request -> RequestState]
      /\ events \in [EventId -> RowValue]
      /\ request[r].size \in 0..MaxBatch
  BY DEF ServiceInv, TypeOK, IngestTypeOK, StoreTypeOK, RequestState
<1>2. /\ OnlyRequest(r)
      /\ \/ /\ request'[r].pc = "publish" /\ request'[r].next = 1
            /\ request'[r].reply = request[r].reply
            /\ request'[r].size = request[r].size
            /\ InsertRows(r) /\ UNCHANGED spent
         \/ /\ request'[r].pc = "closed" /\ request'[r].reply = "500"
            /\ InsertRows(r) \/ UNCHANGED events
            /\ Fault
  BY <1>1 DEF Persist, PersistFails, Close, RequestState, InFlight, OnlyRequest
<1>3. \A e \in Records(r) : e[1] = r
  BY DEF Records, RecordId
<1>4. /\ events' \in [EventId -> RowValue]
      /\ \A e \in EventId : e[1] # r => events'[e] = events[e]
      /\ \A e \in EventId : events'[e] # events[e] => events'[e] = RawRow
  BY <1>0, <1>1, <1>3 DEF InsertRows, RowValue
<1>5. InsertRows(r) =>
        /\ \A i \in 1..request[r].size : events'[<<r, i>>] = RawRow
        /\ \A i \in 1..MaxBatch :
              events'[<<r, i>>] # events[<<r, i>>] => i <= request[r].size
  <2> SUFFICES ASSUME InsertRows(r)
               PROVE  /\ \A i \in 1..request[r].size : events'[<<r, i>>] = RawRow
                      /\ \A i \in 1..MaxBatch :
                            events'[<<r, i>>] # events[<<r, i>>] =>
                                i <= request[r].size
    OBVIOUS
  <2>1. \A i \in 1..MaxBatch : <<r, i>> \in EventId
    BY DEF EventId
  <2>2. \A i \in 1..MaxBatch : <<r, i>> \in Records(r) <=> i \in 1..request[r].size
    BY <1>1, StoreAssumption DEF Records, RecordId
  <2>3. \A i \in 1..request[r].size : i \in 1..MaxBatch
    BY <1>1, StoreAssumption
  <2> QED
    BY <2>1, <2>2, <2>3 DEF InsertRows
<1> QED
  BY <1>0, <1>2, <1>4, <1>5 DEF InsertStep

LEMMA AppendForm ==
    ASSUME ServiceInv, NEW r \in Request, PublishOne(r) \/ PublishResend(r),
           UNCHANGED consumerVars
    PROVE  AppendStep(r)
<1>0. /\ UNCHANGED <<events, normalized_events, worker>>
      /\ request[r].pc = "publish"
      /\ request[r].next <= request[r].size
      /\ XAddLogin(<<r, request[r].next>>)
      /\ \/ request' = [request EXCEPT ![r].next = @ + 1] /\ UNCHANGED spent
         \/ UNCHANGED request /\ Resend
  BY DEF PublishOne, PublishResend, consumerVars, RecordId
<1>1. /\ request \in [Request -> RequestState]
      /\ request[r] \in RequestState
      /\ login_events \in Seq(EventId)
      /\ trimmed \in Nat /\ Frontier \in Nat /\ trimmed <= Len(login_events)
  BY FrontierType
     DEF ServiceInv, TypeOK, IngestTypeOK, StoreTypeOK, EntriesAccounted
<1>2. /\ request[r].next \in 1..request[r].size
      /\ <<r, request[r].next>> \in EventId
  <2>1. /\ request[r].next \in Nat /\ request[r].next >= 1
        /\ request[r].size \in 0..MaxBatch
    BY <1>0, <1>1 DEF RequestState, ServiceInv, RequestInv
  <2> QED
    BY <2>1, <1>0, StoreAssumption DEF EventId
<1>3. /\ OnlyRequest(r)
      /\ request'[r].pc = "publish"
      /\ request'[r].reply = request[r].reply
      /\ request'[r].size = request[r].size
      /\ \/ request'[r].next = request[r].next + 1 /\ UNCHANGED spent
         \/ request'[r].next = request[r].next /\ Resend
  <2>1. CASE UNCHANGED request /\ Resend
    BY <2>1, <1>0, <1>1 DEF OnlyRequest
  <2>2. CASE request' = [request EXCEPT ![r].next = @ + 1] /\ UNCHANGED spent
    <3>1. request[r].next + 1 \in Nat
      BY <1>1 DEF RequestState
    <3>2. /\ request'[r] \in RequestState
          /\ request'[r].pc = request[r].pc
          /\ request'[r].reply = request[r].reply
          /\ request'[r].size = request[r].size
          /\ request'[r].next = request[r].next + 1
      BY <2>2, <3>1, <1>1 DEF RequestState
    <3>3. OnlyRequest(r)
      BY <2>2, <3>2, <1>1 DEF OnlyRequest
    <3> QED
      BY <2>2, <3>2, <3>3, <1>0
  <2> QED
    BY <2>1, <2>2, <1>0
<1>4. /\ login_events' = Append(login_events, <<r, request[r].next>>)
      /\ Len(login_events') = Len(login_events) + 1
      /\ lost' = lost \cup ((Frontier + 1)..trimmed')
      /\ UNCHANGED <<groupExists, lastDelivered, pel, acked>>
  BY <1>0, <1>1 DEF XAddLogin
<1>5. /\ trimmed' \in Nat /\ trimmed' >= trimmed
      /\ trimmed' <= Len(login_events) + 1
      /\ \/ trimmed' = trimmed
         \/ trimmed' + StreamMaxLen <= Len(login_events) + 1
  BY <1>0, <1>1, <1>4, StoreAssumption DEF XAddLogin
<1> QED
  BY <1>0, <1>2, <1>3, <1>4, <1>5 DEF AppendStep

LEMMA GroupForm ==
    ASSUME ServiceInv, NEW w \in Worker, Start(w) \/ StartFails(w),
           UNCHANGED ingestVars
    PROVE  GroupStep(w)
<1>0. /\ UNCHANGED <<events, login_events, normalized_events, request>>
      /\ UNCHANGED <<trimmed, pel, acked, lost>>
      /\ Fault \/ UNCHANGED spent
      /\ \/ EnsureConsumerGroup
         \/ UNCHANGED <<groupExists, lastDelivered>>
      /\ worker[w].pc = "down"
      /\ \/ worker' = [worker EXCEPT ![w].pc = "read"]
         \/ UNCHANGED worker
  BY DEF Start, StartFails, EnsureConsumerGroup, Goto, streamVars, histVars,
         ingestVars
<1>1. worker \in [Worker -> WorkerState] /\ groupExists \in BOOLEAN
  BY DEF ServiceInv, TypeOK, ConsumerTypeOK, StoreTypeOK
<1>2. OnlyWorker(w) /\ worker[w].pc \notin Busy /\ worker'[w].pc \notin Busy
  BY <1>0, <1>1 DEF WorkerState, Busy, OnlyWorker
<1>3. /\ lastDelivered' = lastDelivered
      /\ groupExists' \in BOOLEAN /\ (groupExists => groupExists')
  BY <1>0, <1>1 DEF EnsureConsumerGroup, ServiceInv, GroupInv
<1> QED
  BY <1>0, <1>2, <1>3 DEF GroupStep

LEMMA DeliverForm ==
    ASSUME ServiceInv, NEW w \in Worker, Read(w) \/ ReadReplyLost(w),
           UNCHANGED ingestVars
    PROVE  \E hi \in Nat : DeliverStep(w, hi)
<1>0. PICK hi \in Waiting :
        /\ XReadGroup(hi, ReadCount)
        /\ UNCHANGED <<events, normalized_events, request>>
        /\ worker[w].pc = "read"
        /\ \/ /\ worker' = [worker EXCEPT ![w] =
                             [pc |-> "normalize", cur |-> Frontier + 1,
                              hi |-> hi, value |-> RawRow]]
              /\ UNCHANGED spent
           \/ UNCHANGED worker /\ Fault
  BY DEF Read, ReadReplyLost, ingestVars
<1>1. /\ worker \in [Worker -> WorkerState]
      /\ Frontier \in Nat /\ Len(login_events) \in Nat
  BY FrontierType DEF ServiceInv, TypeOK, ConsumerTypeOK, StoreTypeOK
<1>2. /\ hi \in Nat /\ Frontier < hi /\ hi <= Len(login_events)
      /\ lastDelivered' = hi
      /\ pel' = pel \cup ((Frontier + 1)..hi)
      /\ UNCHANGED <<login_events, trimmed, groupExists, acked, lost>>
      /\ groupExists
  BY <1>0, <1>1 DEF XReadGroup, Waiting
<1>3. CASE UNCHANGED worker /\ Fault
  BY <1>0, <1>1, <1>2, <1>3 DEF Busy, OnlyWorker, DeliverStep
<1>4. CASE /\ worker' = [worker EXCEPT ![w] =
                           [pc |-> "normalize", cur |-> Frontier + 1,
                            hi |-> hi, value |-> RawRow]]
           /\ UNCHANGED spent
  <2>1. /\ OnlyWorker(w) /\ worker[w].pc \notin Busy
        /\ worker'[w].pc = "normalize"
        /\ worker'[w].cur = Frontier + 1
        /\ worker'[w].hi = hi
    BY <1>0, <1>1, <1>2, <1>4 DEF WorkerState, Busy, OnlyWorker
  <2> QED
    BY <2>1, <1>0, <1>2, <1>4 DEF DeliverStep
<1> QED
  BY <1>0, <1>3, <1>4

LEMMA AdvanceForm ==
    ASSUME ServiceInv, NEW w \in Worker, worker[w].pc \in Busy, Advance(w)
    PROVE  /\ OnlyWorker(w)
           /\ MovesOn(w)
           /\ worker'[w].pc \notin Busy => worker[w].cur >= worker[w].hi
<1>1. /\ worker \in [Worker -> WorkerState]
      /\ worker[w].cur \in Nat /\ worker[w].hi \in Nat
  BY DEF ServiceInv, TypeOK, ConsumerTypeOK, WorkerState
<1>2. CASE worker[w].cur < worker[w].hi
  <2>1. worker' = [worker EXCEPT ![w] =
                     [pc |-> "normalize", cur |-> worker[w].cur + 1,
                      hi |-> worker[w].hi, value |-> RawRow]]
    BY <1>2 DEF Advance
  <2> QED
    BY <2>1, <1>1, <1>2 DEF WorkerState, Busy, OnlyWorker, MovesOn
<1>3. CASE ~(worker[w].cur < worker[w].hi)
  <2>1. worker' = [worker EXCEPT ![w] = Idle("read")]
    BY <1>3 DEF Advance
  <2> QED
    BY <2>1, <1>1, <1>3 DEF Idle, WorkerState, Busy, OnlyWorker, MovesOn
<1> QED
  BY <1>2, <1>3

LEMMA LocalForm ==
    ASSUME ServiceInv, NEW w \in Worker, ReadNothing(w) \/ Normalize(w) \/ Stop(w),
           UNCHANGED ingestVars
    PROVE  LocalStep(w)
<1>0. StreamsSame /\ UNCHANGED <<events, request>>
  BY DEF ReadNothing, Normalize, Stop, storeVars, pgVars, streamVars,
         histVars, ingestVars, StreamsSame
<1>1. worker \in [Worker -> WorkerState]
  BY DEF ServiceInv, TypeOK, ConsumerTypeOK
<1>2. CASE ReadNothing(w)
  BY <1>0, <1>1, <1>2 DEF ReadNothing, storeVars, OnlyWorker, LocalStep
<1>3. CASE Normalize(w)
  <2>1. PICK v \in Result :
          worker' = [worker EXCEPT ![w].pc = "write", ![w].value = v]
    BY <1>3 DEF Normalize
  <2>2. /\ OnlyWorker(w) /\ GoesTo(w, "write") /\ worker'[w].value \in Result
        /\ worker[w].pc = "normalize" /\ UNCHANGED spent
    BY <2>1, <1>1, <1>3
       DEF Normalize, storeVars, WorkerState, Busy, OnlyWorker, GoesTo
  <2> QED
    BY <2>2, <1>0 DEF LocalStep
<1>4. CASE Stop(w)
  BY <1>0, <1>1, <1>4 DEF Stop, Idle, WorkerState, Busy, OnlyWorker, LocalStep
<1> QED
  BY <1>2, <1>3, <1>4

LEMMA GotoForm ==
    ASSUME ServiceInv, NEW w \in Worker, NEW where \in Busy, Goto(w, where)
    PROVE  OnlyWorker(w) /\ GoesTo(w, where) /\ worker'[w].value = worker[w].value
<1>1. worker \in [Worker -> WorkerState]
  BY DEF ServiceInv, TypeOK, ConsumerTypeOK
<1> QED
  BY <1>1 DEF Goto, WorkerState, Busy, OnlyWorker, GoesTo

LEMMA WriteForm ==
    ASSUME ServiceInv, NEW w \in Worker, Write(w), UNCHANGED ingestVars
    PROVE  WriteStep(w)
<1>0. /\ StreamsSame /\ UNCHANGED <<request, spent>>
      /\ worker[w].pc = "write"
      /\ UpdateRow(w)
      /\ Goto(w, "publish")
  BY DEF Write, streamVars, histVars, ingestVars, StreamsSame
<1> QED
  BY <1>0, GotoForm DEF WriteStep, Busy

LEMMA AnnounceForm ==
    ASSUME ServiceInv, NEW w \in Worker, Publish(w) \/ NormalizedResend(w),
           UNCHANGED ingestVars
    PROVE  AnnounceStep(w)
<1>0. /\ UNCHANGED <<events, login_events, trimmed, groupExists>>
      /\ UNCHANGED <<lastDelivered, pel, acked, lost, request>>
      /\ worker[w].pc = "publish"
      /\ XAddNormalized(Current(w), worker[w].value)
      /\ \/ Goto(w, "ack") /\ UNCHANGED spent
         \/ UNCHANGED worker /\ Resend
  BY DEF Publish, NormalizedResend, streamVars, histVars, ingestVars
<1>1. worker \in [Worker -> WorkerState]
  BY DEF ServiceInv, TypeOK, ConsumerTypeOK
<1>2. CASE Goto(w, "ack") /\ UNCHANGED spent
  BY <1>0, <1>2, GotoForm DEF AnnounceStep, Busy
<1>3. CASE UNCHANGED worker /\ Resend
  BY <1>0, <1>1, <1>3 DEF AnnounceStep, OnlyWorker
<1> QED
  BY <1>0, <1>2, <1>3

LEMMA AckForm ==
    ASSUME ServiceInv, NEW w \in Worker, Ack(w), UNCHANGED ingestVars
    PROVE  AckStep(w)
<1>0. /\ UNCHANGED <<events, login_events, trimmed, groupExists, request>>
      /\ UNCHANGED <<lastDelivered, normalized_events, lost, spent>>
      /\ worker[w].pc = "ack" /\ worker[w].pc \in Busy
      /\ pel' = pel \ {worker[w].cur}
      /\ acked' = acked \cup ({worker[w].cur} \cap pel)
      /\ Advance(w)
  BY DEF Ack, XAck, ingestVars, Busy
<1> QED
  BY <1>0, AdvanceForm DEF AckStep

LEMMA FailForm ==
    ASSUME ServiceInv, NEW w \in Worker, ProcessingFails(w), UNCHANGED ingestVars
    PROVE  LocalStep(w) \/ WriteStep(w) \/ AnnounceStep(w)
<1>0. /\ UNCHANGED <<login_events, trimmed, groupExists, request>>
      /\ UNCHANGED <<lastDelivered, pel, acked, lost>>
      /\ Fault
      /\ worker[w].pc \in Busy
      /\ OnlyWorker(w) /\ MovesOn(w)
  BY AdvanceForm DEF ProcessingFails, streamVars, histVars, ingestVars
<1>1. CASE UNCHANGED <<events, normalized_events>>
  BY <1>0, <1>1 DEF LocalStep, StreamsSame
<1>2. CASE worker[w].pc = "write" /\ UpdateRow(w) /\ UNCHANGED normalized_events
  BY <1>0, <1>2 DEF WriteStep, StreamsSame
<1>3. CASE worker[w].pc = "publish"
             /\ XAddNormalized(Current(w), worker[w].value)
             /\ UNCHANGED events
  BY <1>0, <1>3 DEF AnnounceStep
<1> QED
  BY <1>1, <1>2, <1>3 DEF ProcessingFails

LEMMA LossForm ==
    ASSUME RedisLosesStream, UNCHANGED <<ingestVars, consumerVars>>
    PROVE  LossStep
  BY DEF RedisLosesStream, ingestVars, consumerVars, LossStep

\* The case split of every proof that follows.
LEMMA StepCases ==
    ASSUME ServiceInv, [Next]_vars
    PROVE  ServiceStep
<1>1. CASE IngestNext /\ UNCHANGED consumerVars
  BY <1>1, AnswerForm, DropForm, InsertForm, AppendForm
     DEF IngestNext, Handle, ServiceStep
<1>2. CASE ConsumerNext /\ UNCHANGED ingestVars
  <2>1. PICK w \in Worker :
          \/ Start(w) \/ StartFails(w)
          \/ Run(w) \/ ReadReplyLost(w) \/ ReadNothing(w)
          \/ NormalizedResend(w) \/ ProcessingFails(w) \/ Stop(w)
    BY <1>2 DEF ConsumerNext
  <2>2. \/ GroupStep(w) \/ LocalStep(w) \/ WriteStep(w)
        \/ AnnounceStep(w) \/ AckStep(w)
        \/ \E hi \in Nat : DeliverStep(w, hi)
    BY <1>2, <2>1, GroupForm, DeliverForm, LocalForm, WriteForm, AnnounceForm,
       AckForm, FailForm DEF Run
  <2> QED
    BY <2>2 DEF ServiceStep
<1>3. CASE RedisLosesStream /\ UNCHANGED <<ingestVars, consumerVars>>
  BY <1>3, LossForm DEF ServiceStep
<1>4. CASE UNCHANGED vars
  BY <1>4 DEF vars, storeVars, pgVars, streamVars, histVars, ingestVars,
     consumerVars, StreamsSame, StillStep, ServiceStep
<1> QED
  BY <1>1, <1>2, <1>3, <1>4 DEF Next

-----------------------------------------------------------------------------
(* ServiceInv is inductive *)

\* The streams are appended to, and the frontier of the group advances.
StreamsGrow ==
    /\ \/ login_events' = login_events
       \/ \E e \in EventId : login_events' = Append(login_events, e)
    /\ \/ normalized_events' = normalized_events
       \/ \E m \in NormalizedMessage :
             normalized_events' = Append(normalized_events, m)
    /\ Frontier' \in Nat
    /\ Frontier' >= Frontier

\* Appending keeps what is there.
LEMMA LogKept ==
    ASSUME TypeOK, StreamsGrow, NEW k \in DOMAIN login_events
    PROVE  /\ k \in DOMAIN login_events'
           /\ login_events'[k] = login_events[k]
           /\ login_events[k] \in EventId
  BY DEF TypeOK, StoreTypeOK, StreamsGrow

LEMMA NormalizedKept ==
    ASSUME TypeOK, StreamsGrow, NEW i \in DOMAIN normalized_events
    PROVE  /\ i \in DOMAIN normalized_events'
           /\ normalized_events'[i] = normalized_events[i]
           /\ normalized_events[i] \in NormalizedMessage
  BY DEF TypeOK, StoreTypeOK, StreamsGrow

LEMMA AnnouncedKept ==
    ASSUME TypeOK, StreamsGrow, NEW e, Announced(e)
    PROVE  \E i \in DOMAIN normalized_events' : normalized_events'[i].event = e
<1>1. PICK i \in DOMAIN normalized_events : normalized_events[i].event = e
  BY DEF Announced
<1> QED
  BY <1>1, NormalizedKept

LEMMA InStreamKept ==
    ASSUME TypeOK, StreamsGrow, NEW e, InStream(e)
    PROVE  \E k \in DOMAIN login_events' : login_events'[k] = e
<1>1. PICK k \in DOMAIN login_events : login_events[k] = e
  BY DEF InStream
<1> QED
  BY <1>1, LogKept

\* What a replica knows stays true while it does nothing itself.
LEMMA WorkerKept ==
    ASSUME ServiceInv, StreamsGrow, NEW w \in Worker, worker'[w] = worker[w]
    PROVE  /\ WorkerOK(w)'
           /\ Held(w)' = Held(w)
           /\ worker[w].pc \in Busy => Current(w)' = Current(w)
<1>1. WorkerOK(w) /\ TypeOK /\ worker[w] \in WorkerState
  BY DEF ServiceInv, WorkerInv, TypeOK, ConsumerTypeOK
<1>2. worker[w].pc \in Busy => Current(w)' = Current(w)
  BY <1>1, LogKept, CurrentOK DEF Current
<1>3. worker[w].pc \in Busy => worker[w].hi <= Frontier'
  BY <1>1, FrontierType DEF WorkerOK, WorkerState, StreamsGrow
<1>4. worker[w].pc = "ack" => Announced(Current(w))'
  BY <1>1, <1>2, AnnouncedKept DEF WorkerOK, Busy, Announced
<1> QED
  BY <1>1, <1>2, <1>3, <1>4 DEF WorkerOK, Held

\* A replica that holds no more than before takes nothing from another.
LEMMA WorkersKept ==
    ASSUME ServiceInv, StreamsGrow, NEW w \in Worker, OnlyWorker(w),
           WorkerOK(w)', Held(w)' \subseteq Held(w)
    PROVE  WorkerInv' /\ OneOwner'
<1>1. \A u \in Worker \ {w} : WorkerOK(u)' /\ Held(u)' = Held(u)
  BY WorkerKept DEF OnlyWorker
<1> QED
  BY <1>1 DEF ServiceInv, OneOwner, WorkerInv

\* The replicas, in a step of somebody else.
LEMMA WorkersSame ==
    ASSUME ServiceInv, StreamsGrow, UNCHANGED worker
    PROVE  WorkerInv' /\ OneOwner'
<1>1. \A u \in Worker : WorkerOK(u)' /\ Held(u)' = Held(u)
  BY WorkerKept
<1> QED
  BY <1>1 DEF ServiceInv, OneOwner, WorkerInv

LEMMA RestOK ==
    ASSUME NEW w \in Worker, worker'[w].pc \notin Busy
    PROVE  WorkerOK(w)' /\ Held(w)' = {}
  BY DEF WorkerOK, Held, Busy

\* Moving on to the next message of the batch gives nothing new to hold.
LEMMA MovesOnOK ==
    ASSUME ServiceInv, StreamsGrow, NEW w \in Worker, worker[w].pc \in Busy,
           MovesOn(w)
    PROVE  /\ WorkerOK(w)'
           /\ Held(w)' \subseteq Held(w)
           /\ \A k \in Held(w)' : k > worker[w].cur /\ k >= worker'[w].cur
<1>1. /\ WorkerOK(w) /\ Frontier \in Nat
      /\ worker[w].cur \in Nat /\ worker[w].hi \in Nat
  BY FrontierType, CurrentOK DEF ServiceInv, WorkerInv
<1>2. CASE worker'[w].pc \notin Busy
  BY <1>2, RestOK
<1>3. CASE /\ worker[w].cur < worker[w].hi
           /\ worker'[w].pc = "normalize"
           /\ worker'[w].cur = worker[w].cur + 1
           /\ worker'[w].hi = worker[w].hi
  BY <1>1, <1>3 DEF WorkerOK, Held, Busy, StreamsGrow
<1> QED
  BY <1>2, <1>3 DEF MovesOn

LEMMA GoesToOK ==
    ASSUME ServiceInv, StreamsGrow, NEW w \in Worker, worker[w].pc \in Busy,
           NEW where \in Busy \ {"normalize"}, GoesTo(w, where),
           worker'[w].value \in Result
    PROVE  /\ Current(w)' = Current(w)
           /\ Held(w)' = Held(w)
           /\ where # "ack" => WorkerOK(w)'
           /\ Announced(Current(w))' => WorkerOK(w)'
<1>1. /\ WorkerOK(w) /\ Frontier \in Nat
      /\ worker[w].cur \in Nat /\ worker[w].hi \in Nat
  BY FrontierType, CurrentOK DEF ServiceInv, WorkerInv
<1>2. Current(w)' = Current(w)
  BY CurrentOK, LogKept DEF Current, GoesTo, ServiceInv
<1>3. Held(w)' = Held(w)
  BY DEF Held, GoesTo
<1>4. /\ 1 <= worker'[w].cur
      /\ worker'[w].cur <= worker'[w].hi
      /\ worker'[w].hi <= Frontier'
  BY <1>1 DEF WorkerOK, GoesTo, StreamsGrow
<1>5. where # "ack" => WorkerOK(w)'
  BY <1>4 DEF WorkerOK, GoesTo, Busy
<1>6. Announced(Current(w))' => WorkerOK(w)'
  BY <1>4 DEF WorkerOK, GoesTo, Busy
<1> QED
  BY <1>2, <1>3, <1>5, <1>6

\* Nothing moves on the streams.
LEMMA SameGrows ==
    ASSUME ServiceInv, UNCHANGED <<login_events, normalized_events>>,
           UNCHANGED <<trimmed, lastDelivered>>
    PROVE  StreamsGrow /\ Frontier' = Frontier
<1>1. Frontier' = Frontier /\ Frontier \in Nat
  BY FrontierType DEF ServiceInv, Frontier
<1> QED
  BY <1>1 DEF StreamsGrow

LEMMA SameStreams ==
    ASSUME ServiceInv, StreamsSame
    PROVE  StreamsGrow /\ GroupInv' /\ EntriesAccounted'
<1>1. StreamsGrow /\ Frontier' = Frontier
  BY SameGrows DEF StreamsSame
<1> QED
  BY <1>1 DEF ServiceInv, StreamsSame, GroupInv, EntriesAccounted

\* Requests are not concerned while no row appears.
LEMMA RequestsSame ==
    ASSUME ServiceInv, UNCHANGED request,
           \A e \in EventId : events'[e] # NoRow => events[e] # NoRow
    PROVE  RequestInv'
<1>1. \A r \in Request : \A i \in 1..MaxBatch : <<r, i>> \in EventId
  BY DEF EventId
<1> QED
  BY <1>1 DEF ServiceInv, RequestInv

LEMMA PublishersSame ==
    ASSUME ServiceInv, UNCHANGED <<request, login_events>>
    PROVE  PublisherInv'
  BY DEF ServiceInv, PublisherInv

LEMMA AnswerInv ==
    ASSUME ServiceInv, NEW r \in Request, AnswerStep(r)
    PROVE  StreamsGrow /\ ServiceInv'
<1>0. StreamsGrow /\ GroupInv' /\ EntriesAccounted'
  BY SameStreams DEF AnswerStep
<1>1. WorkerInv' /\ OneOwner'
  BY <1>0, WorkersSame DEF AnswerStep
<1>2. TypeOK'
  BY SpentType
     DEF ServiceInv, AnswerStep, OnlyRequest, StreamsSame,
         TypeOK, StoreTypeOK, IngestTypeOK, ConsumerTypeOK
<1>3. RequestInv'
  <2>1. \A q \in Request \ {r} : request'[q] = request[q]
    BY DEF AnswerStep, OnlyRequest
  <2>2. request[r].next \in Nat /\ UNCHANGED events
    BY DEF ServiceInv, TypeOK, IngestTypeOK, RequestState, AnswerStep
  <2> QED
    BY <2>1, <2>2 DEF ServiceInv, RequestInv, AnswerStep
<1>4. PublisherInv'
  <2> SUFFICES ASSUME NEW k \in DOMAIN login_events
               PROVE  PublisherInv!(k)'
    BY DEF PublisherInv, AnswerStep, StreamsSame
  <2>1. login_events'[k] = login_events[k] /\ login_events[k][1] \in Request
    BY DEF ServiceInv, TypeOK, StoreTypeOK, EventId, AnswerStep, StreamsSame
  <2>2. PublisherInv!(k)
    BY DEF ServiceInv, PublisherInv
  <2> QED
    BY <2>1, <2>2 DEF ServiceInv, RequestInv, AnswerStep, OnlyRequest
<1> QED
  BY <1>0, <1>1, <1>2, <1>3, <1>4 DEF ServiceInv

LEMMA DropInv ==
    ASSUME ServiceInv, DropStep
    PROVE  StreamsGrow /\ ServiceInv'
<1>0. StreamsGrow /\ GroupInv' /\ EntriesAccounted'
  BY SameStreams DEF DropStep
<1>1. WorkerInv' /\ OneOwner'
  BY <1>0, WorkersSame DEF DropStep
<1>2. TypeOK'
  BY SpentType
     DEF ServiceInv, DropStep, StreamsSame, TypeOK, StoreTypeOK, IngestTypeOK,
         ConsumerTypeOK
<1>3. RequestInv'
  BY DEF ServiceInv, RequestInv, DropStep
<1>4. PublisherInv'
  <2>1. \A k \in DOMAIN login_events : login_events[k][1] \in Request
    BY DEF ServiceInv, TypeOK, StoreTypeOK, EventId
  <2> QED
    BY <2>1 DEF ServiceInv, PublisherInv, DropStep, StreamsSame
<1> QED
  BY <1>0, <1>1, <1>2, <1>3, <1>4 DEF ServiceInv

LEMMA InsertInv ==
    ASSUME ServiceInv, NEW r \in Request, InsertStep(r)
    PROVE  StreamsGrow /\ ServiceInv'
<1>0. StreamsGrow /\ GroupInv' /\ EntriesAccounted'
  BY SameStreams DEF InsertStep
<1>1. WorkerInv' /\ OneOwner'
  BY <1>0, WorkersSame DEF InsertStep
<1>2. TypeOK'
  BY SpentType
     DEF ServiceInv, InsertStep, OnlyRequest, StreamsSame,
         TypeOK, StoreTypeOK, IngestTypeOK, ConsumerTypeOK
<1>3. RequestInv'
  <2> SUFFICES ASSUME NEW q \in Request
               PROVE  RequestInv!(q)'
    BY DEF RequestInv
  <2>1. CASE q # r
    <3>1. request'[q] = request[q]
      BY <2>1 DEF InsertStep, OnlyRequest
    <3>2. \A i \in 1..MaxBatch : events'[<<q, i>>] = events[<<q, i>>]
      BY <2>1 DEF EventId, InsertStep
    <3> QED
      BY <3>1, <3>2 DEF ServiceInv, RequestInv
  <2>2. CASE q = r
    BY <2>2 DEF ServiceInv, RequestInv, InsertStep
  <2> QED
    BY <2>1, <2>2
<1>4. PublisherInv'
  <2>1. \A k \in DOMAIN login_events : login_events[k][1] \in Request
    BY DEF ServiceInv, TypeOK, StoreTypeOK, EventId
  <2> QED
    BY <2>1 DEF ServiceInv, PublisherInv, InsertStep, OnlyRequest, StreamsSame
<1> QED
  BY <1>0, <1>1, <1>2, <1>3, <1>4 DEF ServiceInv

\* XADD: what the cap evicts unread is lost, and the frontier follows it.
LEMMA AppendFrontier ==
    ASSUME ServiceInv, NEW r \in Request, AppendStep(r)
    PROVE  /\ StreamsGrow
           /\ Len(login_events') = Len(login_events) + 1
           /\ login_events'[Len(login_events) + 1] = <<r, request[r].next>>
           /\ DOMAIN login_events' =
                 DOMAIN login_events \cup {Len(login_events) + 1}
           /\ Frontier' <= Len(login_events')
           /\ trimmed' <= Frontier => Frontier' = Frontier
           /\ trimmed' > Frontier => Frontier' = trimmed'
<1>1. /\ login_events \in Seq(EventId) /\ <<r, request[r].next>> \in EventId
      /\ trimmed \in Nat /\ lastDelivered \in Nat /\ Frontier \in Nat
      /\ Frontier <= Len(login_events)
  BY FrontierType
     DEF ServiceInv, TypeOK, StoreTypeOK, EntriesAccounted, AppendStep
<1>2. /\ login_events' = Append(login_events, <<r, request[r].next>>)
      /\ Len(login_events') = Len(login_events) + 1
      /\ login_events'[Len(login_events) + 1] = <<r, request[r].next>>
      /\ DOMAIN login_events' =
            DOMAIN login_events \cup {Len(login_events) + 1}
  BY <1>1 DEF AppendStep
<1>3. /\ Frontier' \in Nat /\ Frontier' >= Frontier
      /\ Frontier' <= Len(login_events')
      /\ trimmed' <= Frontier => Frontier' = Frontier
      /\ trimmed' > Frontier => Frontier' = trimmed'
  BY <1>1, <1>2 DEF AppendStep, Frontier
<1> QED
  BY <1>1, <1>2, <1>3 DEF StreamsGrow, AppendStep

LEMMA AppendInv ==
    ASSUME ServiceInv, NEW r \in Request, AppendStep(r)
    PROVE  StreamsGrow /\ ServiceInv'
<1>0. /\ StreamsGrow /\ Frontier \in Nat
      /\ trimmed \in Nat /\ login_events \in Seq(EventId)
      /\ TypeOK
  BY AppendFrontier, FrontierType DEF ServiceInv, TypeOK, StoreTypeOK
<1>1. WorkerInv' /\ OneOwner'
  BY <1>0, WorkersSame DEF AppendStep
<1>2. TypeOK'
  <2>1. lost' \in SUBSET Nat
    <3>1. trimmed' \in Nat /\ lost' = lost \cup ((Frontier + 1)..trimmed')
      BY DEF AppendStep
    <3>2. lost \subseteq Nat /\ ((Frontier + 1)..trimmed') \subseteq Nat
      BY <3>1, <1>0 DEF TypeOK, StoreTypeOK
    <3> QED
      BY <3>1, <3>2
  <2>2. login_events' \in Seq(EventId)
    BY <1>0 DEF AppendStep
  <2> QED
    BY <2>1, <2>2, <1>0, SpentType
       DEF AppendStep, OnlyRequest,
           TypeOK, StoreTypeOK, IngestTypeOK, ConsumerTypeOK
<1>3. RequestInv'
  <2>1. \A q \in Request : request[q].next \in Nat
    BY <1>0 DEF TypeOK, IngestTypeOK, RequestState
  <2> QED
    BY <2>1 DEF ServiceInv, RequestInv, AppendStep, OnlyRequest
<1>4. PublisherInv'
  <2> SUFFICES ASSUME NEW k \in DOMAIN login_events'
               PROVE  PublisherInv!(k)'
    BY DEF PublisherInv
  <2>1. CASE k \in DOMAIN login_events
    <3>1. login_events'[k] = login_events[k] /\ login_events[k][1] \in Request
      BY <2>1, <1>0, LogKept DEF EventId
    <3> QED
      BY <2>1, <3>1 DEF ServiceInv, PublisherInv, AppendStep, OnlyRequest
  <2>2. CASE k = Len(login_events) + 1
    <3>1. login_events'[k] = <<r, request[r].next>>
      BY <2>2, AppendFrontier
    <3>2. request[r].reply = "none"
      BY DEF ServiceInv, RequestInv, AppendStep
    <3> QED
      BY <3>1, <3>2 DEF AppendStep
  <2> QED
    BY <2>1, <2>2, AppendFrontier
<1>5. EntriesAccounted'
  <2>1. /\ trimmed' \in Nat /\ lost' = lost \cup ((Frontier + 1)..trimmed')
        /\ UNCHANGED <<pel, acked>>
    BY DEF AppendStep
  <2>2. /\ Frontier' \in Nat /\ Frontier' >= Frontier
        /\ Frontier' <= Len(login_events')
        /\ trimmed' <= Frontier => Frontier' = Frontier
        /\ trimmed' > Frontier => Frontier' = trimmed'
    BY AppendFrontier DEF StreamsGrow
  <2> QED
    BY <2>1, <2>2, <1>0 DEF ServiceInv, EntriesAccounted, TypeOK, StoreTypeOK
<1>6. GroupInv'
  BY DEF ServiceInv, GroupInv, AppendStep
<1> QED
  BY <1>0, <1>1, <1>2, <1>3, <1>4, <1>5, <1>6 DEF ServiceInv

LEMMA GroupInvStep ==
    ASSUME ServiceInv, NEW w \in Worker, GroupStep(w)
    PROVE  StreamsGrow /\ ServiceInv'
<1>0. StreamsGrow /\ Frontier' = Frontier
  BY SameGrows DEF GroupStep
<1>1. WorkerInv' /\ OneOwner'
  BY <1>0, RestOK, WorkersKept DEF GroupStep
<1>2. TypeOK'
  BY SpentType
     DEF ServiceInv, GroupStep, OnlyWorker, TypeOK, StoreTypeOK, IngestTypeOK,
         ConsumerTypeOK
<1>3. GroupInv' /\ EntriesAccounted'
  BY <1>0 DEF ServiceInv, GroupInv, EntriesAccounted, GroupStep
<1>4. RequestInv' /\ PublisherInv'
  BY RequestsSame, PublishersSame DEF GroupStep
<1> QED
  BY <1>0, <1>1, <1>2, <1>3, <1>4 DEF ServiceInv

\* XREADGROUP: the batch is above the frontier, out of everyone's hands.
LEMMA DeliverInv ==
    ASSUME ServiceInv, NEW w \in Worker, NEW hi \in Nat, DeliverStep(w, hi)
    PROVE  StreamsGrow /\ ServiceInv' /\ Frontier' = hi
<1>0. /\ TypeOK /\ Frontier \in Nat /\ Frontier >= trimmed
      /\ trimmed \in Nat /\ lastDelivered \in Nat
      /\ Frontier < hi
  BY FrontierType DEF ServiceInv, TypeOK, StoreTypeOK, DeliverStep
<1>1. Frontier' = hi /\ StreamsGrow
  BY <1>0 DEF Frontier, DeliverStep, StreamsGrow
<1>2. TypeOK'
  BY <1>0, SpentType
     DEF DeliverStep, OnlyWorker, TypeOK, StoreTypeOK, IngestTypeOK,
         ConsumerTypeOK
<1>3. WorkerInv'
  <2>1. WorkerOK(w)'
    BY <1>0, <1>1 DEF WorkerOK, Busy, DeliverStep
  <2> QED
    BY <2>1, <1>1, WorkerKept DEF WorkerInv, DeliverStep, OnlyWorker
<1>4. OneOwner'
  <2>1. \A u \in Worker \ {w} : Held(u)' = Held(u)
    BY DEF Held, DeliverStep, OnlyWorker
  <2>2. \A u \in Worker : \A k \in Held(u) : k <= Frontier
    BY <1>0 DEF ServiceInv, WorkerInv, WorkerOK, Held, WorkerState, TypeOK,
                ConsumerTypeOK
  <2>3. \A k \in Held(w)' : k > Frontier
    BY <1>0 DEF Held, DeliverStep
  <2>4. \A u \in Worker \ {w} : Held(u)' \cap Held(w)' = {}
    <3> SUFFICES ASSUME NEW u \in Worker \ {w}, NEW k \in Held(u)',
                        k \in Held(w)'
                 PROVE  FALSE
      OBVIOUS
    <3>1. k \in Nat
      BY <1>2 DEF Held, WorkerState, TypeOK, ConsumerTypeOK
    <3> QED
      BY <3>1, <2>1, <2>2, <2>3, <1>0
  <2> QED
    BY <2>1, <2>4 DEF ServiceInv, OneOwner
<1>5. EntriesAccounted'
  BY <1>0, <1>1 DEF ServiceInv, EntriesAccounted, TypeOK, StoreTypeOK, DeliverStep
<1>6. GroupInv'
  BY DEF GroupInv, DeliverStep
<1>7. RequestInv' /\ PublisherInv'
  BY RequestsSame, PublishersSame DEF DeliverStep
<1> QED
  BY <1>1, <1>2, <1>3, <1>4, <1>5, <1>6, <1>7 DEF ServiceInv

LEMMA LocalInv ==
    ASSUME ServiceInv, NEW w \in Worker, LocalStep(w)
    PROVE  StreamsGrow /\ ServiceInv' /\ Held(w)' \subseteq Held(w)
<1>0. StreamsGrow /\ GroupInv' /\ EntriesAccounted'
  BY SameStreams DEF LocalStep
<1>1. WorkerOK(w)' /\ Held(w)' \subseteq Held(w)
  <2>1. CASE worker'[w] = worker[w]
    BY <2>1, <1>0, WorkerKept
  <2>2. CASE worker'[w].pc \notin Busy
    BY <2>2, RestOK
  <2>3. CASE worker[w].pc \in Busy /\ MovesOn(w)
    BY <2>3, <1>0, MovesOnOK
  <2>4. CASE worker[w].pc = "normalize" /\ GoesTo(w, "write")
             /\ worker'[w].value \in Result
    BY <2>4, <1>0, GoesToOK DEF Busy
  <2> QED
    BY <2>1, <2>2, <2>3, <2>4 DEF LocalStep
<1>2. WorkerInv' /\ OneOwner'
  BY <1>0, <1>1, WorkersKept DEF LocalStep
<1>3. TypeOK'
  BY SpentType
     DEF ServiceInv, LocalStep, OnlyWorker, StreamsSame,
         TypeOK, StoreTypeOK, IngestTypeOK, ConsumerTypeOK
<1>4. RequestInv' /\ PublisherInv'
  BY RequestsSame, PublishersSame DEF LocalStep, StreamsSame
<1> QED
  BY <1>0, <1>1, <1>2, <1>3, <1>4 DEF ServiceInv

\* The UPDATE touches one row, if it is there.
LEMMA UpdateOK ==
    ASSUME ServiceInv, NEW w \in Worker, WriteStep(w)
    PROVE  /\ Current(w) \in EventId /\ worker[w].value \in Result
           /\ events' \in [EventId -> RowValue]
           /\ \A e \in EventId : events'[e] # NoRow <=> events[e] # NoRow
           /\ \A e \in EventId \ {Current(w)} : events'[e] = events[e]
           /\ events[Current(w)] # NoRow =>
                 events'[Current(w)] = worker[w].value
<1>1. /\ Current(w) \in EventId
      /\ worker[w].value \in Result
      /\ events \in [EventId -> RowValue]
  BY CurrentOK
     DEF ServiceInv, TypeOK, StoreTypeOK, WorkerInv, WorkerOK, Busy, WriteStep
<1> QED
  BY <1>1, StoreAssumption DEF UpdateRow, RowValue, WriteStep

LEMMA WriteInv ==
    ASSUME ServiceInv, NEW w \in Worker, WriteStep(w)
    PROVE  StreamsGrow /\ ServiceInv' /\ Held(w)' \subseteq Held(w)
<1>0. StreamsGrow /\ GroupInv' /\ EntriesAccounted'
  BY SameStreams DEF WriteStep
<1>1. WorkerOK(w)' /\ Held(w)' \subseteq Held(w)
  <2>1. worker[w].pc \in Busy
    BY DEF WriteStep, Busy
  <2>2. CASE GoesTo(w, "publish") /\ worker'[w].value = worker[w].value
    BY <2>1, <2>2, <1>0, UpdateOK, GoesToOK DEF Busy
  <2>3. CASE MovesOn(w)
    BY <2>1, <2>3, <1>0, MovesOnOK
  <2> QED
    BY <2>2, <2>3 DEF WriteStep
<1>2. WorkerInv' /\ OneOwner'
  BY <1>0, <1>1, WorkersKept DEF WriteStep
<1>3. TypeOK'
  <2>1. Fault \/ UNCHANGED spent
    BY DEF WriteStep
  <2> QED
    BY <2>1, SpentType, UpdateOK
       DEF ServiceInv, WriteStep, OnlyWorker, StreamsSame,
           TypeOK, StoreTypeOK, IngestTypeOK, ConsumerTypeOK
<1>4. RequestInv' /\ PublisherInv'
  BY RequestsSame, PublishersSame, UpdateOK DEF WriteStep, StreamsSame
<1> QED
  BY <1>0, <1>1, <1>2, <1>3, <1>4 DEF ServiceInv

\* The XADD on normalized_events: one more message.
LEMMA AnnounceOK ==
    ASSUME ServiceInv, NEW w \in Worker, AnnounceStep(w)
    PROVE  LET m == [event |-> Current(w), value |-> worker[w].value]
               n == Len(normalized_events) + 1
           IN  /\ m \in NormalizedMessage
               /\ Current(w) \in EventId
               /\ normalized_events' = Append(normalized_events, m)
               /\ normalized_events' \in Seq(NormalizedMessage)
               /\ DOMAIN normalized_events' = DOMAIN normalized_events \cup {n}
               /\ normalized_events'[n] = m
               /\ m.event = Current(w) /\ m.value = worker[w].value
               /\ StreamsGrow
               /\ Current(w)' = Current(w) => Announced(Current(w))'
<1> DEFINE m == [event |-> Current(w), value |-> worker[w].value]
<1> DEFINE n == Len(normalized_events) + 1
<1>1. /\ Current(w) \in EventId /\ worker[w].value \in Result
      /\ normalized_events \in Seq(NormalizedMessage)
  BY CurrentOK
     DEF ServiceInv, TypeOK, StoreTypeOK, WorkerInv, WorkerOK, Busy, AnnounceStep
<1>2. /\ m \in NormalizedMessage /\ m.event = Current(w)
      /\ m.value = worker[w].value
      /\ normalized_events' = Append(normalized_events, m)
  BY <1>1 DEF NormalizedMessage, XAddNormalized, AnnounceStep
<1> HIDE DEF m
<1>3. /\ normalized_events' \in Seq(NormalizedMessage)
      /\ normalized_events'[n] = m
      /\ DOMAIN normalized_events' = DOMAIN normalized_events \cup {n}
  BY <1>1, <1>2
<1>4. Frontier' = Frontier /\ Frontier \in Nat
  BY FrontierType DEF ServiceInv, Frontier, AnnounceStep
<1>5. StreamsGrow
  BY <1>2, <1>4 DEF StreamsGrow, AnnounceStep
<1>6. Current(w)' = Current(w) => Announced(Current(w))'
  BY <1>2, <1>3 DEF Announced
<1> QED
  BY <1>1, <1>2, <1>3, <1>5, <1>6 DEF m

LEMMA AnnounceInv ==
    ASSUME ServiceInv, NEW w \in Worker, AnnounceStep(w)
    PROVE  StreamsGrow /\ ServiceInv' /\ Held(w)' \subseteq Held(w)
<1>0. /\ StreamsGrow /\ worker[w].pc \in Busy /\ worker[w].value \in Result
      /\ Frontier' = Frontier
  BY AnnounceOK
     DEF AnnounceStep, Busy, ServiceInv, WorkerInv, WorkerOK, Frontier
<1>1. WorkerOK(w)' /\ Held(w)' \subseteq Held(w)
  <2>1. CASE GoesTo(w, "ack") /\ worker'[w].value = worker[w].value
    BY <2>1, <1>0, AnnounceOK, GoesToOK DEF Busy
  <2>2. CASE worker'[w] = worker[w]
    BY <2>2, <1>0, WorkerKept
  <2>3. CASE MovesOn(w)
    BY <2>3, <1>0, MovesOnOK
  <2> QED
    BY <2>1, <2>2, <2>3 DEF AnnounceStep
<1>2. WorkerInv' /\ OneOwner'
  BY <1>0, <1>1, WorkersKept DEF AnnounceStep
<1>3. TypeOK'
  <2>1. Fault \/ Resend \/ UNCHANGED spent
    BY DEF AnnounceStep
  <2> QED
    BY <2>1, SpentType, AnnounceOK
       DEF ServiceInv, AnnounceStep, OnlyWorker,
           TypeOK, StoreTypeOK, IngestTypeOK, ConsumerTypeOK
<1>4. RequestInv' /\ PublisherInv'
  BY RequestsSame, PublishersSame DEF AnnounceStep
<1>5. GroupInv' /\ EntriesAccounted'
  BY <1>0 DEF ServiceInv, GroupInv, EntriesAccounted, AnnounceStep
<1> QED
  BY <1>0, <1>1, <1>2, <1>3, <1>4, <1>5 DEF ServiceInv

LEMMA AckInv ==
    ASSUME ServiceInv, NEW w \in Worker, AckStep(w)
    PROVE  StreamsGrow /\ ServiceInv' /\ Held(w)' \subseteq Held(w)
<1>0. StreamsGrow /\ Frontier' = Frontier
  BY SameGrows DEF AckStep
<1>1. WorkerOK(w)' /\ Held(w)' \subseteq Held(w)
  BY <1>0, MovesOnOK DEF AckStep, Busy
<1>2. WorkerInv' /\ OneOwner'
  BY <1>0, <1>1, WorkersKept DEF AckStep
<1>3. TypeOK'
  BY DEF ServiceInv, AckStep, OnlyWorker,
         TypeOK, StoreTypeOK, IngestTypeOK, ConsumerTypeOK
<1>4. RequestInv' /\ PublisherInv'
  BY RequestsSame, PublishersSame DEF AckStep
<1>5. GroupInv' /\ EntriesAccounted'
  BY <1>0 DEF ServiceInv, GroupInv, EntriesAccounted, AckStep
<1> QED
  BY <1>0, <1>1, <1>2, <1>3, <1>4, <1>5 DEF ServiceInv

LEMMA LossInv ==
    ASSUME ServiceInv, LossStep
    PROVE  StreamsGrow /\ ServiceInv'
<1>1. /\ TypeOK /\ Frontier \in Nat /\ Len(login_events) \in Nat
      /\ Frontier <= Len(login_events)
  BY FrontierType DEF ServiceInv, EntriesAccounted, TypeOK, StoreTypeOK
<1>2. Frontier' = Len(login_events)
  BY <1>1 DEF Frontier, LossStep
<1>3. StreamsGrow
  BY <1>1, <1>2 DEF StreamsGrow, LossStep
<1>4. TypeOK'
  <2>1. lost' \in SUBSET Nat
    <3>1. pel \subseteq Nat /\ lost \subseteq Nat
      BY <1>1 DEF TypeOK, StoreTypeOK
    <3>2. Waiting \subseteq Nat
      BY <1>1 DEF Waiting
    <3> QED
      BY <3>1, <3>2 DEF LossStep
  <2>2. groupExists' = FALSE
    BY DEF LossStep
  <2> QED
    BY <2>1, <2>2, <1>1, SpentType
       DEF LossStep, TypeOK, StoreTypeOK, IngestTypeOK, ConsumerTypeOK
<1>5. EntriesAccounted'
  <2>1. 1..Len(login_events) = (1..Frontier) \cup Waiting
    BY <1>1 DEF Waiting
  <2>2. (1..Frontier) \cap Waiting = {}
    BY <1>1 DEF Waiting
  <2>3. pel \cup acked \cup lost = 1..Frontier
          /\ pel \cap acked = {} /\ acked \cap lost = {}
    BY DEF ServiceInv, EntriesAccounted
  <2>4. pel' \cup acked' \cup lost' = 1..Len(login_events)
    <3>1. pel' = {} /\ acked' = acked /\ lost' = lost \cup pel \cup Waiting
      BY DEF LossStep
    <3>2. pel' \cup acked' \cup lost' = (pel \cup acked \cup lost) \cup Waiting
      BY <3>1
    <3> QED
      BY <3>2, <2>1, <2>3
  <2>5. acked' \cap lost' = {}
    BY <2>2, <2>3 DEF LossStep
  <2> QED
    BY <2>4, <2>5, <1>1, <1>2 DEF EntriesAccounted, LossStep
<1>6. GroupInv'
  BY DEF GroupInv, LossStep
<1>7. RequestInv' /\ PublisherInv'
  BY RequestsSame, PublishersSame DEF LossStep
<1>8. WorkerInv' /\ OneOwner'
  BY <1>3, WorkersSame DEF LossStep
<1> QED
  BY <1>3, <1>4, <1>5, <1>6, <1>7, <1>8 DEF ServiceInv

LEMMA StillInv ==
    ASSUME ServiceInv, StillStep
    PROVE  StreamsGrow /\ ServiceInv'
<1>0. StreamsGrow /\ GroupInv' /\ EntriesAccounted'
  BY SameStreams DEF StillStep
<1>1. WorkerInv' /\ OneOwner'
  BY <1>0, WorkersSame DEF StillStep
<1>2. TypeOK'
  BY DEF ServiceInv, StillStep, StreamsSame, TypeOK, StoreTypeOK,
         IngestTypeOK, ConsumerTypeOK
<1>3. RequestInv' /\ PublisherInv'
  BY RequestsSame, PublishersSame DEF StillStep, StreamsSame
<1> QED
  BY <1>0, <1>1, <1>2, <1>3 DEF ServiceInv

LEMMA StepInv ==
    ASSUME ServiceInv, ServiceStep
    PROVE  StreamsGrow /\ ServiceInv'
  BY AnswerInv, DropInv, InsertInv, AppendInv, GroupInvStep, DeliverInv,
     LocalInv, WriteInv, AnnounceInv, AckInv, LossInv, StillInv DEF ServiceStep

LEMMA InitServiceInv == Init => ServiceInv
<1> SUFFICES ASSUME Init PROVE ServiceInv
  OBVIOUS
<1> USE StoreAssumption DEF Init, StoreInit, IngestInit, ConsumerInit
<1>1. StoreTypeOK
  <2>1. events \in [EventId -> RowValue] /\ spent \in Bounds
    BY DEF RowValue, Bounds
  <2>2. login_events \in Seq(EventId)
    OBVIOUS
  <2>3. normalized_events \in Seq(NormalizedMessage)
    OBVIOUS
  <2> QED
    BY <2>1, <2>2, <2>3 DEF StoreTypeOK
<1>2. IngestTypeOK
  BY DEF IngestTypeOK, RequestState
<1>3. ConsumerTypeOK
  BY DEF ConsumerTypeOK, WorkerState, Idle
<1>4. GroupInv /\ RequestInv /\ PublisherInv
  BY DEF GroupInv, RequestInv, PublisherInv, EventId
<1>5. EntriesAccounted
  BY DEF EntriesAccounted, Frontier
<1>6. WorkerInv /\ OneOwner
  BY DEF WorkerInv, WorkerOK, OneOwner, Held, Idle, Busy
<1> QED
  BY <1>1, <1>2, <1>3, <1>4, <1>5, <1>6 DEF ServiceInv, TypeOK

LEMMA NextServiceInv == ServiceInv /\ [Next]_vars => ServiceInv'
  BY StepCases, StepInv

LEMMA SpecServiceInv == Spec => []ServiceInv
  BY InitServiceInv, NextServiceInv, PTL DEF Spec

-----------------------------------------------------------------------------
(* The Pending Entries List and the lost messages *)

\* Nobody drops a message of his batch but by failing or finishing it.
LEMMA PendingStep ==
    ASSUME ServiceInv, PendingIsHeldUnlessFailed, ServiceStep
    PROVE  PendingIsHeldUnlessFailed'
<1> SUFFICES ASSUME (spent.faults = 0 /\ spent.crashes = 0)', NEW k \in pel'
             PROVE  \E w \in Worker : k \in Held(w)'
  BY DEF PendingIsHeldUnlessFailed
<1> DEFINE Clean == ~Fault /\ ~Crash
<1>0. ServiceInv' /\ StreamsGrow
  BY StepInv
<1>1. TypeOK /\ TypeOK' /\ k \in Nat /\ spent \in Bounds /\ spent' \in Bounds
  BY <1>0 DEF ServiceInv, TypeOK, StoreTypeOK
<1>2. Clean
  BY <1>1, SpentType
<1>3. spent.faults = 0 /\ spent.crashes = 0
  <2>1. Loss \/ Resend \/ UNCHANGED spent
    BY <1>2 DEF ServiceStep, AnswerStep, DropStep, InsertStep, AppendStep, GroupStep,
       LocalStep, WriteStep, AnnounceStep, AckStep, DeliverStep, LossStep,
       StillStep
  <2> QED
    BY <2>1, <1>1, SpentType DEF Bounds
<1>4. \A j \in pel : \E w \in Worker : j \in Held(w)
  BY <1>3 DEF PendingIsHeldUnlessFailed
<1>5. ASSUME UNCHANGED pel,
             \A w \in Worker : Held(w) \subseteq Held(w)'
      PROVE  \E w \in Worker : k \in Held(w)'
  BY <1>4, <1>5
<1>6. ASSUME NEW w \in Worker, OnlyWorker(w)
      PROVE  \A u \in Worker \ {w} : Held(u)' = Held(u)
  BY <1>6 DEF OnlyWorker, Held
<1>7. CASE UNCHANGED <<pel, worker>>
  <2>1. \A w \in Worker : Held(w)' = Held(w)
    BY <1>7 DEF Held
  <2> QED
    BY <2>1, <1>5, <1>7
<1>8. ASSUME NEW w \in Worker, LocalStep(w) \/ WriteStep(w) \/ AnnounceStep(w)
                                 \/ GroupStep(w)
      PROVE  \E u \in Worker : k \in Held(u)'
  <2>1. UNCHANGED pel /\ OnlyWorker(w)
    BY <1>8 DEF LocalStep, WriteStep, AnnounceStep, GroupStep, StreamsSame
  <2>2. \/ worker'[w] = worker[w]
        \/ worker[w].pc \notin Busy
        \/ /\ worker[w].pc \in Busy
           /\ \E where \in Busy : GoesTo(w, where)
    BY <1>2, <1>8 DEF LocalStep, WriteStep, AnnounceStep, GroupStep, Busy
  <2>3. Held(w) \subseteq Held(w)'
    BY <2>2 DEF Held, GoesTo
  <2> QED
    BY <2>1, <2>3, <1>5, <1>6
<1>9. ASSUME NEW w \in Worker, AckStep(w)
      PROVE  \E u \in Worker : k \in Held(u)'
  <2>1. /\ k \in pel /\ k # worker[w].cur /\ OnlyWorker(w)
        /\ worker[w].pc \in Busy
    BY <1>9 DEF AckStep, Busy
  <2>2. PICK u \in Worker : k \in Held(u)
    BY <2>1, <1>4
  <2>3. CASE u # w
    BY <2>1, <2>2, <2>3, <1>6
  <2>4. CASE u = w
    <3>1. worker[w].cur \in Nat /\ worker[w].hi \in Nat
      BY <2>1, CurrentOK
    <3>2. worker[w].cur < k /\ k <= worker[w].hi
      BY <2>1, <2>2, <2>4, <3>1, <1>1 DEF Held
    <3>3. worker'[w].pc = "normalize" /\ worker'[w].cur = worker[w].cur + 1
            /\ worker'[w].hi = worker[w].hi
      BY <3>1, <3>2, <1>1, <1>9 DEF AckStep, MovesOn
    <3>4. k \in Held(w)'
      BY <3>1, <3>2, <3>3, <1>1 DEF Held, Busy
    <3> QED
      BY <3>4
  <2> QED
    BY <2>3, <2>4
<1>10. ASSUME NEW w \in Worker, NEW hi \in Nat, DeliverStep(w, hi)
       PROVE  \E u \in Worker : k \in Held(u)'
  <2>1. Held(w)' = (Frontier + 1)..hi
    BY <1>2, <1>10 DEF DeliverStep, Held, Busy
  <2>2. CASE k \in (Frontier + 1)..hi
    BY <2>1, <2>2
  <2>3. CASE k \in pel
    <3>1. PICK u \in Worker : k \in Held(u)
      BY <2>3, <1>4
    <3>2. u # w
      BY <3>1, <1>10 DEF DeliverStep, Held
    <3> QED
      BY <3>1, <3>2, <1>6, <1>10 DEF DeliverStep
  <2> QED
    BY <2>2, <2>3, <1>10 DEF DeliverStep
<1>11. CASE LossStep
  BY <1>11 DEF LossStep
<1> QED
  BY <1>7, <1>8, <1>9, <1>10, <1>11
     DEF ServiceStep, AnswerStep, DropStep, InsertStep, AppendStep, StillStep,
         StreamsSame

\* A message that a step leaves untouched was so before.
LEMMA AttemptStep ==
    ASSUME ServiceInv, ServiceStep, NEW k \in DOMAIN login_events, Untouched(k)'
    PROVE  Untouched(k)
<1>0. ServiceInv' /\ StreamsGrow /\ k \in Nat /\ Frontier \in Nat
  BY StepInv, FrontierType DEF ServiceInv, TypeOK, StoreTypeOK
<1>1. CASE (k > Frontier)'
  BY <1>0, <1>1 DEF StreamsGrow, Untouched
<1>2. ASSUME NEW w \in Worker, k \in Held(w)',
             (k = worker[w].cur => worker[w].pc \in {"normalize", "write"})'
      PROVE  Untouched(k)
  <2>1. CASE worker'[w] = worker[w]
    BY <1>2, <2>1 DEF Held, Untouched
  <2>2. CASE worker[w].pc \in Busy /\ MovesOn(w)
    <3>1. k \in Held(w) /\ k > worker[w].cur /\ worker[w].cur \in Nat
      BY <1>0, <1>2, <2>2, MovesOnOK, CurrentOK
    <3> QED
      BY <3>1, <1>0 DEF Untouched
  <2>3. CASE worker[w].pc \in Busy /\ \E where \in {"publish", "ack"} : GoesTo(w, where)
    <3>1. k \in Held(w) /\ k # worker[w].cur
      BY <1>2, <2>3 DEF Held, GoesTo, Busy
    <3> QED
      BY <3>1 DEF Untouched
  <2>4. CASE worker[w].pc = "normalize" /\ GoesTo(w, "write")
    <3>1. k \in Held(w)
      BY <1>2, <2>4 DEF Held, GoesTo, Busy
    <3> QED
      BY <3>1, <2>4 DEF Untouched
  <2>5. ASSUME NEW hi \in Nat, DeliverStep(w, hi)
        PROVE  Untouched(k)
    <3>1. Held(w)' = (Frontier + 1)..hi
      BY <1>2, <2>5 DEF DeliverStep, Held, Busy
    <3> QED
      BY <3>1, <1>0, <1>2 DEF Untouched
  <2>6. worker'[w].pc \in Busy
    BY <1>2 DEF Held
  <2>7. ASSUME NEW u \in Worker, OnlyWorker(u), u # w
        PROVE  worker'[w] = worker[w]
    BY <2>7 DEF OnlyWorker
  <2>8. CASE UNCHANGED worker
    BY <2>1, <2>8
  <2>9. ASSUME NEW u \in Worker,
               \/ GroupStep(u) \/ LocalStep(u) \/ WriteStep(u)
               \/ AnnounceStep(u) \/ AckStep(u)
        PROVE  Untouched(k)
    <3>1. OnlyWorker(u)
      BY <2>9 DEF GroupStep, LocalStep, WriteStep, AnnounceStep, AckStep
    <3>2. CASE u # w
      BY <3>1, <3>2, <2>1, <2>7
    <3>3. CASE u = w
      BY <3>3, <2>1, <2>2, <2>3, <2>4, <2>6, <2>9
         DEF GroupStep, LocalStep, WriteStep, AnnounceStep, AckStep, Busy
    <3> QED
      BY <3>2, <3>3
  <2>10. ASSUME NEW u \in Worker, NEW hi \in Nat, DeliverStep(u, hi)
         PROVE  Untouched(k)
    <3>1. CASE u # w
      BY <3>1, <2>1, <2>7, <2>10 DEF DeliverStep
    <3>2. CASE u = w
      BY <3>2, <2>5, <2>10
    <3> QED
      BY <3>1, <3>2
  <2> QED
    BY <2>8, <2>9, <2>10
       DEF ServiceStep, AnswerStep, DropStep, InsertStep, AppendStep, LossStep,
           StillStep
<1> QED
  BY <1>1, <1>2 DEF Untouched

-----------------------------------------------------------------------------
(* Theorems *)

\* Every variable of the two services and their stores keeps its type: in
\* particular nothing but a result is ever written or announced, and only
\* ids of ingested events are on the stream.
THEOREM TypeCorrect == Spec => []TypeOK
<1>1. ServiceInv => TypeOK
  BY DEF ServiceInv
<1> QED
  BY <1>1, SpecServiceInv, PTL

\* The Pending Entries List, the acknowledged and the lost messages divide
\* what was delivered or evicted: run_consumer_loop loses track of nothing.
THEOREM NothingUnaccounted == Spec => []EntriesAccounted
<1>1. ServiceInv => EntriesAccounted
  BY DEF ServiceInv
<1> QED
  BY <1>1, SpecServiceInv, PTL

\* No message is processed by two replicas, even when the group is lost and
\* created again by ensure_consumer_group while replicas are at work.
THEOREM MessageHasOneOwner == Spec => []OneOwner
<1>1. ServiceInv => OneOwner
  BY DEF ServiceInv
<1> QED
  BY <1>1, SpecServiceInv, PTL

\* A publish failure is never reported to the client: who is refused has
\* nothing on the stream.
THEOREM RefusalMeansUnpublished == Spec => []RefusedNeverPublished
<1>1. ServiceInv => RefusedNeverPublished
  BY DEF ServiceInv, PublisherInv, RefusedNeverPublished
<1> QED
  BY <1>1, SpecServiceInv, PTL

\* run_consumer_loop never drops a message of its batch: what is pending is
\* in a replica's hands, unless a call failed or a process died.
THEOREM PendingIsBeingProcessed == Spec => []PendingIsHeldUnlessFailed
<1>1. Init => PendingIsHeldUnlessFailed
  BY DEF Init, StoreInit, PendingIsHeldUnlessFailed
<1>2. ServiceInv /\ PendingIsHeldUnlessFailed /\ [Next]_vars
        => PendingIsHeldUnlessFailed'
  BY StepCases, PendingStep
<1> QED
  BY <1>1, <1>2, SpecServiceInv, PTL DEF Spec

\* The loop reads with ">" only, and a step of _process_message that raises
\* moves on: whatever fails and however the group is lost and created again,
\* no message whose row was written or that was abandoned is begun a second
\* time, by any replica.
THEOREM OneAttemptPerMessage == Spec => AttemptedOnce
<1>1. ServiceInv /\ [Next]_vars =>
        [\A k \in DOMAIN login_events : Untouched(k)' => Untouched(k)]_vars
  BY StepCases, AttemptStep
<1> QED
  BY <1>1, SpecServiceInv, PTL DEF Spec, AttemptedOnce
=============================================================================
