--------------------------- MODULE PipelineProofs ---------------------------
(***************************************************************************)
(* Machine-checked proofs about Pipeline, for every number of requests,    *)
(* records, replicas and results, and every bound on failures: what the    *)
(* rows of the table say about the streams and the requests (IInv).        *)
(***************************************************************************)
EXTENDS ServiceProofs

-----------------------------------------------------------------------------
(* The rows *)

\* A row is not deleted, and not set back to NULL.
RowsKept ==
    /\ \A e \in EventId : events[e] # NoRow => events'[e] # NoRow
    /\ \A e \in EventId : events[e] \in Result => events'[e] \in Result

LEMMA StepRowsKept ==
    ASSUME ServiceInv, ServiceStep
    PROVE  /\ RowsKept
           /\ \/ \E r \in Request : InsertStep(r)
              \/ \A e \in EventId : events'[e] # NoRow <=> events[e] # NoRow
<1>1. ASSUME NEW r \in Request, InsertStep(r)
      PROVE  RowsKept
  <2>1. \A e \in EventId : e[1] = r => events[e] = NoRow
    BY <1>1 DEF ServiceInv, RequestInv, EventId, InsertStep
  <2> QED
    BY <2>1, <1>1, StoreAssumption DEF InsertStep, RowsKept
<1>2. ASSUME NEW w \in Worker, WriteStep(w)
      PROVE  /\ RowsKept
             /\ \A e \in EventId : events'[e] # NoRow <=> events[e] # NoRow
  BY <1>2, UpdateOK, StoreAssumption DEF RowsKept
<1>3. CASE UNCHANGED events
  BY <1>3 DEF RowsKept
<1> QED
  BY <1>1, <1>2, <1>3
     DEF ServiceStep, AnswerStep, DropStep, AppendStep, GroupStep, LocalStep,
         AnnounceStep, AckStep, DeliverStep, LossStep, StillStep

-----------------------------------------------------------------------------
(* IInv is inductive: one lemma for each conjunct *)

LEMMA StoredStep ==
    ASSUME IInv, ServiceStep
    PROVE  StoredInv'
<1> SUFFICES ASSUME NEW q \in Request, NEW i \in 1..request'[q].size,
                    request'[q].pc = "publish" \/ request'[q].reply = "202"
             PROVE  events'[<<q, i>>] # NoRow
  BY DEF StoredInv
<1>0. ServiceInv /\ ServiceInv' /\ RowsKept
  BY StepInv, StepRowsKept DEF IInv
<1>1. request'[q].size \in 0..MaxBatch
  BY <1>0 DEF ServiceInv, TypeOK, IngestTypeOK, RequestState
<1>2. <<q, i>> \in EventId
  BY <1>1, StoreAssumption DEF EventId
<1>3. ASSUME request'[q].size = request[q].size,
             request[q].pc = "publish" \/ request[q].reply = "202"
      PROVE  events'[<<q, i>>] # NoRow
  BY <1>0, <1>2, <1>3 DEF IInv, StoredInv, RowsKept
<1>4. CASE UNCHANGED request
  BY <1>3, <1>4
<1>5. ASSUME NEW r \in Request, AnswerStep(r) \/ AppendStep(r)
      PROVE  events'[<<q, i>>] # NoRow
  <2>1. CASE q # r
    BY <2>1, <1>3, <1>5 DEF AnswerStep, AppendStep, OnlyRequest
  <2>2. CASE q = r
    BY <2>2, <1>0, <1>3, <1>5
       DEF AnswerStep, AppendStep, ServiceInv, RequestInv
  <2> QED
    BY <2>1, <2>2
<1>6. ASSUME NEW r \in Request, InsertStep(r)
      PROVE  events'[<<q, i>>] # NoRow
  <2>1. CASE q # r
    BY <2>1, <1>3, <1>6 DEF InsertStep, OnlyRequest
  <2>2. CASE q = r
    BY <2>2, <1>6, StoreAssumption DEF InsertStep
  <2> QED
    BY <2>1, <2>2
<1>7. CASE DropStep
  BY <1>3, <1>7 DEF DropStep
<1> QED
  BY <1>4, <1>5, <1>6, <1>7
     DEF ServiceStep, GroupStep, LocalStep, WriteStep, AnnounceStep, AckStep,
         DeliverStep, LossStep, StillStep

LEMMA StreamEntryStep ==
    ASSUME IInv, ServiceStep
    PROVE  StreamEntryHasRow'
<1> SUFFICES ASSUME NEW k \in DOMAIN login_events'
             PROVE  events'[login_events'[k]] # NoRow
  BY DEF StreamEntryHasRow
<1>0. TypeOK /\ ServiceInv /\ StreamsGrow /\ RowsKept
  BY StepInv, StepRowsKept DEF IInv, ServiceInv
<1>1. CASE k \in DOMAIN login_events
  BY <1>0, <1>1, LogKept DEF IInv, StreamEntryHasRow, RowsKept
<1>2. ASSUME NEW r \in Request, AppendStep(r), k \notin DOMAIN login_events
      PROVE  events'[login_events'[k]] # NoRow
  <2>1. login_events'[k] = <<r, request[r].next>>
    <3>1. /\ DOMAIN login_events' = DOMAIN login_events \cup {Len(login_events) + 1}
          /\ login_events'[Len(login_events) + 1] = <<r, request[r].next>>
      BY <1>0, <1>2, AppendFrontier
    <3> QED
      BY <3>1, <1>2
  <2>2. events[<<r, request[r].next>>] # NoRow
    BY <1>2 DEF IInv, StoredInv, AppendStep
  <2> QED
    BY <2>1, <2>2, <1>2 DEF AppendStep
<1> QED
  BY <1>1, <1>2
     DEF ServiceStep, AnswerStep, DropStep, InsertStep, GroupStep, LocalStep,
         WriteStep, AnnounceStep, AckStep, DeliverStep, LossStep, StillStep,
         StreamsSame

\* What a replica has written stays written; the UPDATE finds its row.
LEMMA WrittenStep ==
    ASSUME IInv, ServiceStep
    PROVE  WrittenInv'
<1> SUFFICES ASSUME NEW u \in Worker, worker'[u].pc \in {"publish", "ack"}
             PROVE  events'[Current(u)'] \in Result
  BY DEF WrittenInv
<1>0. ServiceInv /\ StreamsGrow /\ RowsKept
  BY StepInv, StepRowsKept DEF IInv
<1>1. ASSUME worker[u].pc \in {"publish", "ack"}, Current(u)' = Current(u)
      PROVE  events'[Current(u)'] \in Result
  BY <1>0, <1>1, CurrentOK DEF IInv, WrittenInv, RowsKept, Busy
<1>2. CASE worker'[u] = worker[u]
  BY <1>0, <1>1, <1>2, WorkerKept DEF Busy
<1>3. ASSUME NEW w \in Worker, u # w, OnlyWorker(w)
      PROVE  events'[Current(u)'] \in Result
  BY <1>2, <1>3 DEF OnlyWorker
<1>4. CASE WriteStep(u)
  <2>1. GoesTo(u, "publish") /\ worker[u].pc = "write" /\ StreamsSame
    BY <1>4 DEF WriteStep, MovesOn, Busy
  <2>2. Current(u)' = Current(u) /\ events[Current(u)] # NoRow
    BY <2>1, <1>0, CurrentOK
       DEF GoesTo, Current, StreamsSame, IInv, StreamEntryHasRow, Busy
  <2> QED
    BY <2>2, <1>0, <1>4, UpdateOK
<1>5. CASE AnnounceStep(u) /\ worker'[u] # worker[u]
  <2>1. GoesTo(u, "ack") /\ worker[u].pc = "publish" /\ UNCHANGED login_events
    BY <1>5 DEF AnnounceStep, MovesOn, Busy
  <2> QED
    BY <2>1, <1>1 DEF GoesTo, Current
<1>6. CASE LocalStep(u) \/ AckStep(u) \/ GroupStep(u)
           \/ \E hi \in Nat : DeliverStep(u, hi)
  <2>1. worker'[u] = worker[u]
    BY <1>6 DEF LocalStep, AckStep, GroupStep, DeliverStep, MovesOn, GoesTo, Busy
  <2> QED
    BY <2>1, <1>2
<1> QED
  BY <1>2, <1>3, <1>4, <1>5, <1>6
     DEF ServiceStep, AnswerStep, DropStep, InsertStep, AppendStep, GroupStep,
         LocalStep, WriteStep, AnnounceStep, AckStep, DeliverStep, LossStep,
         StillStep

LEMMA AnnouncedStep ==
    ASSUME IInv, ServiceStep
    PROVE  AnnouncedIsNormalized'
<1> SUFFICES ASSUME NEW i \in DOMAIN normalized_events'
             PROVE  events'[normalized_events'[i].event] \in Result
  BY DEF AnnouncedIsNormalized
<1>0. TypeOK /\ ServiceInv /\ StreamsGrow /\ RowsKept
  BY StepInv, StepRowsKept DEF IInv, ServiceInv
<1>1. CASE i \in DOMAIN normalized_events
  <2>1. /\ normalized_events'[i] = normalized_events[i]
        /\ normalized_events[i].event \in EventId
    BY <1>0, <1>1, NormalizedKept DEF NormalizedMessage
  <2> QED
    BY <2>1, <1>0, <1>1 DEF IInv, AnnouncedIsNormalized, RowsKept
<1>2. ASSUME NEW w \in Worker, AnnounceStep(w), i \notin DOMAIN normalized_events
      PROVE  events'[normalized_events'[i].event] \in Result
  <2>1. normalized_events'[i].event = Current(w)
    BY <1>0, <1>2, AnnounceOK
  <2>2. events[Current(w)] \in Result
    BY <1>2 DEF IInv, WrittenInv, AnnounceStep
  <2> QED
    BY <2>1, <2>2, <1>2 DEF AnnounceStep
<1> QED
  BY <1>1, <1>2
     DEF ServiceStep, AnswerStep, DropStep, InsertStep, AppendStep, GroupStep,
         LocalStep, WriteStep, AckStep, DeliverStep, LossStep, StillStep,
         StreamsSame

LEMMA AckedStep ==
    ASSUME IInv, ServiceStep
    PROVE  AckedIsDone'
<1> SUFFICES ASSUME NEW k \in acked'
             PROVE  Done(login_events[k])'
  BY DEF AckedIsDone
<1>0. TypeOK /\ ServiceInv /\ StreamsGrow /\ RowsKept
  BY StepInv, StepRowsKept DEF IInv, ServiceInv
<1>1. ASSUME k \in DOMAIN login_events, Done(login_events[k])
      PROVE  Done(login_events[k])'
  BY <1>0, <1>1, LogKept, AnnouncedKept DEF Done, RowsKept, Announced
<1>2. CASE k \in acked
  <2>1. k \in DOMAIN login_events
    BY <1>0, <1>2, FrontierType
       DEF ServiceInv, EntriesAccounted, TypeOK, StoreTypeOK
  <2> QED
    BY <2>1, <1>1, <1>2 DEF IInv, AckedIsDone
<1>3. ASSUME NEW w \in Worker, AckStep(w), k = worker[w].cur
      PROVE  Done(login_events[k])'
  <2>1. k \in DOMAIN login_events
    BY <1>0, <1>3, CurrentOK DEF AckStep, Busy
  <2>2. Done(login_events[k])
    BY <1>3 DEF IInv, ServiceInv, WrittenInv, WorkerInv, WorkerOK, AckStep,
                Done, Current
  <2> QED
    BY <2>1, <2>2, <1>1
<1>4. \/ k \in acked
      \/ \E w \in Worker : AckStep(w) /\ k = worker[w].cur
  BY DEF ServiceStep, AnswerStep, DropStep, InsertStep, AppendStep, GroupStep,
         LocalStep, WriteStep, AnnounceStep, AckStep, DeliverStep, LossStep,
         StillStep, StreamsSame
<1> QED
  BY <1>2, <1>3, <1>4

LEMMA InitIInv == Init => IInv
<1> SUFFICES ASSUME Init PROVE IInv
  OBVIOUS
<1> USE DEF Init, StoreInit, IngestInit, ConsumerInit
<1>1. ServiceInv
  BY InitServiceInv
<1>2. StoredInv /\ StreamEntryHasRow
  BY DEF StoredInv, StreamEntryHasRow
<1>3. WrittenInv
  BY DEF WrittenInv, Idle
<1>4. AnnouncedIsNormalized /\ AckedIsDone
  BY DEF AnnouncedIsNormalized, AckedIsDone
<1> QED
  BY <1>1, <1>2, <1>3, <1>4 DEF IInv

LEMMA NextIInv == IInv /\ [Next]_vars => IInv'
<1> SUFFICES ASSUME IInv, [Next]_vars PROVE IInv'
  OBVIOUS
<1>1. ServiceStep /\ ServiceInv'
  BY StepCases, StepInv DEF IInv
<1> QED
  BY <1>1, StoredStep, StreamEntryStep, WrittenStep, AnnouncedStep, AckedStep
     DEF IInv

LEMMA SpecIInv == Spec => []IInv
  BY InitIInv, NextIInv, PTL DEF Spec

-----------------------------------------------------------------------------
(* Rows that were never published *)

\* Behind StrandedIsSignalled: as long as no call failed, what the publish
\* loop has passed is on the stream.
LEMMA PassedStep ==
    ASSUME ServiceInv, PassedIsPublished, ServiceStep
    PROVE  PassedIsPublished'
<1> SUFFICES ASSUME spent'.faults = 0,
                    NEW q \in Request, NEW i \in 1..MaxBatch,
                    events'[<<q, i>>] # NoRow
             PROVE  /\ request'[q].pc = "publish" =>
                          /\ i <= request'[q].size
                          /\ i < request'[q].next => InStream(<<q, i>>)'
                    /\ request'[q].pc = "closed" /\ request'[q].reply # "dropped"
                          => InStream(<<q, i>>)'
  BY DEF PassedIsPublished
<1>0. ServiceInv' /\ StreamsGrow
  BY StepInv
<1>1. /\ TypeOK /\ <<q, i>> \in EventId
      /\ spent \in Bounds /\ spent' \in Bounds
  BY <1>0 DEF ServiceInv, TypeOK, StoreTypeOK, EventId
<1>2. spent.faults = 0 /\ ~Fault
  <2>1. Fault \/ Crash \/ Loss \/ Resend \/ UNCHANGED spent
    BY DEF ServiceStep, AnswerStep, DropStep, InsertStep, AppendStep, GroupStep,
       LocalStep, WriteStep, AnnounceStep, AckStep, DeliverStep, LossStep,
       StillStep
  <2> QED
    BY <2>1, <1>1, SpentType DEF Bounds
<1>3. events[<<q, i>>] # NoRow =>
         /\ request[q].pc = "publish" =>
               /\ i <= request[q].size
               /\ i < request[q].next => InStream(<<q, i>>)
         /\ request[q].pc = "closed" /\ request[q].reply # "dropped"
               => InStream(<<q, i>>)
  BY <1>2 DEF PassedIsPublished
<1>4. InStream(<<q, i>>) => InStream(<<q, i>>)'
  BY <1>0, <1>1, InStreamKept DEF InStream
<1>5. ASSUME events[<<q, i>>] # NoRow, request'[q] = request[q]
      PROVE  PassedIsPublished!2!(q)!(i)'
  BY <1>3, <1>4, <1>5
<1>6. ASSUME NEW r \in Request, InsertStep(r)
      PROVE  PassedIsPublished!2!(q)!(i)'
  <2>1. CASE q # r
    BY <2>1, <1>1, <1>5, <1>6 DEF InsertStep, OnlyRequest
  <2>2. CASE q = r
    <3>1. events[<<q, i>>] = NoRow
      BY <2>2, <1>6 DEF ServiceInv, RequestInv, InsertStep
    <3> QED
      BY <3>1, <2>2, <1>2, <1>6 DEF InsertStep
  <2> QED
    BY <2>1, <2>2
<1>7. ASSUME \A r \in Request : ~InsertStep(r)
      PROVE  events[<<q, i>>] # NoRow
  BY <1>1, <1>7, StepRowsKept
<1>8. ASSUME NEW r \in Request, AnswerStep(r)
      PROVE  PassedIsPublished!2!(q)!(i)'
  <2>0. events[<<q, i>>] # NoRow
    BY <1>8 DEF AnswerStep
  <2>1. CASE q # r
    BY <2>0, <2>1, <1>5, <1>8 DEF AnswerStep, OnlyRequest
  <2>2. CASE q = r
    <3>1. request[r].pc = "publish" /\ request'[r].pc = "closed"
            /\ request[r].next > request[r].size
      BY <2>0, <2>2, <1>2, <1>8 DEF AnswerStep, ServiceInv, RequestInv
    <3>2. request[r].next \in Nat /\ request[r].size \in Nat
      BY StoreAssumption DEF ServiceInv, TypeOK, IngestTypeOK, RequestState
    <3> QED
      BY <3>1, <3>2, <2>0, <2>2, <1>3, <1>4
  <2> QED
    BY <2>1, <2>2
<1>9. ASSUME NEW r \in Request, AppendStep(r)
      PROVE  PassedIsPublished!2!(q)!(i)'
  <2>0. events[<<q, i>>] # NoRow
    BY <1>9 DEF AppendStep
  <2>1. CASE q # r
    BY <2>0, <2>1, <1>5, <1>9 DEF AppendStep, OnlyRequest
  <2>2. CASE q = r
    <3>1. /\ request[r].pc = "publish" /\ request'[r].pc = "publish"
          /\ request'[r].size = request[r].size
          /\ \/ request'[r].next = request[r].next + 1
             \/ request'[r].next = request[r].next
      BY <1>9 DEF AppendStep
    <3>2. /\ Len(login_events) + 1 \in DOMAIN login_events'
          /\ login_events'[Len(login_events) + 1] = <<r, request[r].next>>
      BY <1>9, AppendFrontier
    <3>3. request[r].next \in Nat
      BY DEF ServiceInv, TypeOK, IngestTypeOK, RequestState
    <3>4. i < request'[r].next => i < request[r].next \/ i = request[r].next
      BY <3>1, <3>3
    <3>5. i = request[r].next => InStream(<<q, i>>)'
      BY <3>2, <2>2 DEF InStream
    <3> QED
      BY <3>1, <3>4, <3>5, <2>0, <2>2, <1>3, <1>4
  <2> QED
    BY <2>1, <2>2
<1>10. CASE DropStep
  BY <1>5, <1>10 DEF DropStep
<1>11. CASE UNCHANGED request /\ \A r \in Request : ~InsertStep(r)
  BY <1>5, <1>7, <1>11
<1> QED
  BY <1>6, <1>8, <1>9, <1>10, <1>11
     DEF ServiceStep, GroupStep, LocalStep, WriteStep, AnnounceStep, AckStep,
         DeliverStep, LossStep, StillStep

-----------------------------------------------------------------------------
(* Theorems *)

\* Persist before publish (IngestionService): a message on login_events has
\* its row, for any interleaving of requests, crashes and repeated XADDs.
THEOREM RowBeforeStream == Spec => []StreamEntryHasRow
<1>1. IInv => StreamEntryHasRow
  BY DEF IInv
<1> QED
  BY <1>1, SpecIInv, PTL

\* _process_message acknowledges only what is written and published.
THEOREM AckAfterWriteAndPublish == Spec => []AckedIsDone
<1>1. IInv => AckedIsDone
  BY DEF IInv
<1> QED
  BY <1>1, SpecIInv, PTL

\* repository.write commits before publish_normalized, even when an event
\* is on login_events twice.
THEOREM RowBeforeAnnouncement == Spec => []AnnouncedIsNormalized
<1>1. IInv => AnnouncedIsNormalized
  BY DEF IInv
<1> QED
  BY <1>1, SpecIInv, PTL

\* 202 is only answered for rows that are committed.
THEOREM AcceptanceMeansStored == Spec => []AcceptedIsStored
<1>1. IInv => AcceptedIsStored
  BY DEF IInv, StoredInv, AcceptedIsStored, Records, RecordId
<1> QED
  BY <1>1, SpecIInv, PTL

\* As long as no call fails, ingest_many leaves a committed row unpublished
\* only behind a connection that broke.
THEOREM OnlyACrashStrands == Spec => []StrandedIsSignalled
<1>1. Init => PassedIsPublished
  BY DEF Init, StoreInit, PassedIsPublished, EventId
<1>2. ServiceInv /\ PassedIsPublished /\ [Next]_vars => PassedIsPublished'
  BY StepCases, PassedStep
<1>3. ServiceInv /\ PassedIsPublished => StrandedIsSignalled
  <2> SUFFICES ASSUME PassedIsPublished, spent.faults = 0,
                      NEW e \in EventId, events[e] # NoRow,
                      request[e[1]].pc = "closed", ~InStream(e)
               PROVE  request[e[1]].reply = "dropped"
    BY DEF StrandedIsSignalled
  <2>1. e[1] \in Request /\ e[2] \in 1..MaxBatch /\ e = <<e[1], e[2]>>
    BY DEF EventId
  <2> QED
    BY <2>1 DEF PassedIsPublished
<1> QED
  BY <1>1, <1>2, <1>3, SpecServiceInv, PTL DEF Spec
=============================================================================
