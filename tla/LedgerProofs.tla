---------------------------- MODULE LedgerProofs ----------------------------
(***************************************************************************)
(* Machine-checked proofs about Pipeline when the client library sends no  *)
(* XADD twice (MaxResends = 0): an event then goes through the pipeline    *)
(* once, and the two services implement EventLedger.                       *)
(***************************************************************************)
EXTENDS PipelineProofs

-----------------------------------------------------------------------------
(* Facts *)

LEMMA NoResend ==
    ASSUME ServiceInv, MaxResends = 0
    PROVE  ~Resend
  BY DEF Resend, ServiceInv, TypeOK, StoreTypeOK, Bounds

\* Two messages for one event are one message, in one replica's hands.
LEMMA CurrentsDiffer ==
    ASSUME ServiceInv, LogOnce, NEW u \in Worker, NEW w \in Worker, u # w,
           worker[u].pc \in Busy, worker[w].pc \in Busy
    PROVE  Current(u) # Current(w)
<1>1. /\ worker[u].cur \in DOMAIN login_events
      /\ worker[w].cur \in DOMAIN login_events
  BY CurrentOK
<1>2. worker[u].cur \in Held(u) /\ worker[w].cur \in Held(w)
  BY CurrentOK DEF Held, ServiceInv, WorkerInv, WorkerOK
<1>3. worker[u].cur # worker[w].cur
  BY <1>2 DEF ServiceInv, OneOwner
<1> QED
  BY <1>1, <1>3 DEF LogOnce, Current

\* A replica works on an untouched message until the write.
LEMMA CurrentUntouched ==
    ASSUME ServiceInv, NEW w \in Worker, worker[w].pc \in {"normalize", "write"}
    PROVE  Untouched(worker[w].cur)
<1>1. worker[w].cur \in Held(w)
  BY CurrentOK DEF Held, ServiceInv, WorkerInv, WorkerOK, Busy
<1> QED
  BY <1>1 DEF Untouched

\* Nothing gets untouched again.
LEMMA UntouchedBefore ==
    ASSUME ServiceInv, ServiceStep, NEW k \in DOMAIN login_events, Untouched(k)'
    PROVE  Untouched(k)
<1>0. /\ StreamsGrow /\ ServiceInv' /\ Frontier \in Nat /\ k \in Nat
      /\ k <= Len(login_events)
  <2>1. StreamsGrow /\ ServiceInv' /\ TypeOK
    BY StepInv DEF ServiceInv
  <2>2. Frontier \in Nat
    BY <2>1, FrontierType
  <2>3. login_events \in Seq(EventId)
    BY <2>1 DEF TypeOK, StoreTypeOK
  <2> QED
    BY <2>1, <2>2, <2>3
<1>1. CASE k > Frontier'
  BY <1>0, <1>1 DEF StreamsGrow, Untouched
<1>2. ASSUME NEW u \in Worker, k \in Held(u)',
             k = worker'[u].cur => worker'[u].pc \in {"normalize", "write"}
      PROVE  Untouched(k)
  <2>1. CASE worker'[u] = worker[u]
    <3>1. k \in Held(u) /\ (k = worker[u].cur => worker[u].pc \in {"normalize", "write"})
      BY <2>1, <1>2 DEF Held
    <3> QED
      BY <3>1 DEF Untouched
  <2>2. CASE worker[u].pc \in Busy /\ MovesOn(u)
    <3>1. k \in Held(u) /\ k > worker[u].cur /\ worker[u].cur \in Nat
      BY <2>2, <1>0, <1>2, MovesOnOK, CurrentOK
    <3> QED
      BY <3>1, <1>0 DEF Untouched
  <2>3. ASSUME NEW where \in {"write", "publish", "ack"}, GoesTo(u, where),
               worker[u].pc \in Busy,
               where = "write" => worker[u].pc = "normalize"
        PROVE  Untouched(k)
    <3>1. k \in Held(u) /\ (k = worker[u].cur => worker[u].pc = "normalize")
      BY <2>3, <1>2 DEF Held, GoesTo, Busy
    <3> QED
      BY <3>1 DEF Untouched
  <2>4. CASE \E hi \in Nat : DeliverStep(u, hi)
    <3>1. k > Frontier
      BY <2>4, <1>0, <1>2 DEF DeliverStep, Held, Busy
    <3> QED
      BY <3>1 DEF Untouched
  <2>5. worker'[u].pc \in Busy
    BY <1>2 DEF Held
  <2>6. ASSUME NEW w \in Worker, OnlyWorker(w), u # w
        PROVE  Untouched(k)
    BY <2>1, <2>6 DEF OnlyWorker
  <2>7. CASE LocalStep(u) \/ WriteStep(u) \/ AnnounceStep(u) \/ AckStep(u)
             \/ GroupStep(u)
    BY <2>1, <2>2, <2>3, <2>5, <2>7
       DEF LocalStep, WriteStep, AnnounceStep, AckStep, GroupStep, Busy
  <2> QED
    BY <2>1, <2>4, <2>6, <2>7
       DEF ServiceStep, AnswerStep, DropStep, InsertStep, AppendStep, GroupStep,
           LocalStep, WriteStep, AnnounceStep, AckStep, DeliverStep, LossStep,
           StillStep
<1> QED
  BY <1>1, <1>2 DEF Untouched

\* The write and the announcement touch the message.
LEMMA CurrentTouched ==
    ASSUME ServiceInv, MaxResends = 0, NEW w \in Worker,
           WriteStep(w) \/ AnnounceStep(w), NEW k \in {worker[w].cur}
    PROVE  ~Untouched(k)'
<1>0. /\ StreamsGrow /\ ServiceInv' /\ OnlyWorker(w) /\ worker[w].pc \in Busy
      /\ Held(w)' \subseteq Held(w)
      /\ UNCHANGED <<login_events, trimmed, lastDelivered>>
  BY WriteInv, AnnounceInv DEF WriteStep, AnnounceStep, StreamsSame, Busy
<1>1. /\ k \in Nat /\ worker[w].hi \in Nat /\ k \in Held(w)
      /\ Frontier' = Frontier /\ Frontier \in Nat
      /\ k <= Frontier
  BY <1>0, CurrentOK, FrontierType
     DEF Held, ServiceInv, WorkerInv, WorkerOK, Frontier
<1>2. \A u \in Worker \ {w} : k \notin Held(u)'
  BY <1>0, <1>1 DEF OnlyWorker, Held, ServiceInv, OneOwner
<1>3. k \in Held(w)' => worker'[w].cur = k /\ worker'[w].pc \in {"publish", "ack"}
  <2>1. CASE MovesOn(w)
    BY <2>1, <1>0, <1>1, MovesOnOK
  <2>2. CASE GoesTo(w, "publish") \/ GoesTo(w, "ack")
    BY <2>2 DEF GoesTo
  <2> QED
    BY <2>1, <2>2, NoResend DEF WriteStep, AnnounceStep
<1>4. ~(\E u \in Worker : /\ k \in Held(u)'
                          /\ k = worker'[u].cur =>
                                worker'[u].pc \in {"normalize", "write"})
  BY <1>2, <1>3
<1> QED
  BY <1>1, <1>4 DEF Untouched

-----------------------------------------------------------------------------
(* LedgerInv is inductive: one lemma for each conjunct *)

LEMMA LogOnceStep ==
    ASSUME ServiceInv, LogOnce, MaxResends = 0, ServiceStep
    PROVE  LogOnce'
<1>0. /\ StreamsGrow /\ TypeOK
      /\ \A k \in DOMAIN login_events :
            /\ login_events[k] \in EventId
            /\ login_events[k][1] \in Request
            /\ login_events[k][2] \in Nat
  <2>1. StreamsGrow /\ TypeOK
    BY StepInv DEF ServiceInv
  <2>2. login_events \in Seq(EventId)
    BY <2>1 DEF TypeOK, StoreTypeOK
  <2>3. \A k \in DOMAIN login_events : login_events[k] \in EventId
    BY <2>2
  <2>4. ASSUME NEW e \in EventId PROVE e[1] \in Request /\ e[2] \in Nat
    BY StoreAssumption DEF EventId
  <2> QED
    BY <2>1, <2>3, <2>4
<1>1. ASSUME UNCHANGED login_events,
             \A k \in DOMAIN login_events :
                LET r == login_events[k][1] IN
                request'[r].pc = "publish" =>
                    request[r].pc = "publish" /\ request'[r].next >= request[r].next
      PROVE  LogOnce'
  <2>1. \A r \in Request : request[r].next \in Nat /\ request'[r].next \in Nat
    BY StepInv DEF ServiceInv, TypeOK, IngestTypeOK, RequestState
  <2> QED
    BY <2>1, <1>0, <1>1 DEF LogOnce
<1>2. ASSUME NEW r \in Request, AnswerStep(r)
      PROVE  LogOnce'
  <2>1. \A q \in Request : request[q].next \in Nat
    BY DEF ServiceInv, TypeOK, IngestTypeOK, RequestState
  <2>2. \A q \in Request : request'[q].pc = "publish" =>
            request[q].pc = "publish" /\ request'[q].next >= request[q].next
    BY <2>1, <1>2 DEF AnswerStep, OnlyRequest
  <2> QED
    BY <2>2, <1>0, <1>1, <1>2 DEF AnswerStep, StreamsSame
<1>3. CASE DropStep
  <2>1. \A q \in Request : request[q].next \in Nat
    BY DEF ServiceInv, TypeOK, IngestTypeOK, RequestState
  <2>2. \A q \in Request : request'[q].pc = "publish" =>
            request[q].pc = "publish" /\ request'[q].next >= request[q].next
    BY <2>1, <1>3 DEF DropStep
  <2> QED
    BY <2>2, <1>0, <1>1, <1>3 DEF DropStep, StreamsSame
<1>4. ASSUME NEW r \in Request, InsertStep(r)
      PROVE  LogOnce'
  <2>1. \A q \in Request : request[q].next \in Nat
    BY DEF ServiceInv, TypeOK, IngestTypeOK, RequestState
  <2>2. \A k \in DOMAIN login_events : login_events[k][1] # r
    BY <1>4 DEF ServiceInv, PublisherInv, InsertStep
  <2>3. \A k \in DOMAIN login_events :
           request'[login_events[k][1]] = request[login_events[k][1]]
    BY <2>2, <1>0, <1>4 DEF InsertStep, OnlyRequest
  <2>4. UNCHANGED login_events
    BY <1>4 DEF InsertStep, StreamsSame
  <2> QED
    BY <2>1, <2>3, <2>4, <1>0, <1>1
<1>5. ASSUME NEW r \in Request, AppendStep(r)
      PROVE  LogOnce'
  <2> DEFINE n == Len(login_events) + 1
  <2>1. /\ DOMAIN login_events' = DOMAIN login_events \cup {n}
        /\ login_events'[n] = <<r, request[r].next>>
    BY <1>5, AppendFrontier
  <2>2. /\ \A q \in Request \ {r} : request'[q] = request[q]
        /\ request'[r].next = request[r].next + 1
        /\ request[r].next \in Nat
        /\ request[r].pc = "publish"
    BY <1>5, NoResend
       DEF AppendStep, OnlyRequest, ServiceInv, TypeOK, IngestTypeOK, RequestState
  <2>3. \A k \in DOMAIN login_events :
           /\ login_events'[k] = login_events[k]
           /\ login_events[k] # <<r, request[r].next>>
    <3>1. \A k \in DOMAIN login_events : login_events'[k] = login_events[k]
      BY <1>0, LogKept
    <3>2. \A k \in DOMAIN login_events :
             login_events[k][1] = r => login_events[k][2] # request[r].next
      BY <1>0, <2>2 DEF LogOnce
    <3> QED
      BY <3>1, <3>2
  <2> HIDE DEF n
  <2>4. \A k, l \in DOMAIN login_events' :
           login_events'[k] = login_events'[l] => k = l
    BY <2>1, <2>3 DEF LogOnce
  <2>5. ASSUME NEW k \in DOMAIN login_events',
               request'[login_events'[k][1]].pc = "publish"
        PROVE  login_events'[k][2] < request'[login_events'[k][1]].next
    <3>1. CASE k = n
      BY <3>1, <2>1, <2>2
    <3>2. CASE k \in DOMAIN login_events /\ login_events[k][1] = r
      <4>1. login_events[k][2] < request[r].next
        BY <3>2, <2>2 DEF LogOnce
      <4> QED
        BY <4>1, <3>2, <2>2, <2>3, <1>0
    <3>3. CASE k \in DOMAIN login_events /\ login_events[k][1] # r
      BY <3>3, <2>2, <2>3, <2>5, <1>0 DEF LogOnce
    <3> QED
      BY <3>1, <3>2, <3>3, <2>1
  <2> QED
    BY <2>4, <2>5 DEF LogOnce
<1>6. CASE UNCHANGED <<login_events, request>>
  BY <1>6 DEF LogOnce
<1> QED
  BY <1>2, <1>3, <1>4, <1>5, <1>6
     DEF ServiceStep, GroupStep, LocalStep, WriteStep, AnnounceStep, AckStep,
         DeliverStep, LossStep, StillStep, StreamsSame


\* Which events a step writes and announces: those of untouched messages,
\* and of messages that were written by the replica that announces them.
LEMMA WriteTouches ==
    ASSUME ServiceInv, LedgerInv, NEW w \in Worker, WriteStep(w)
    PROVE  /\ Current(w) \in EventId /\ InStream(Current(w))
           /\ events[Current(w)] \notin Result
           /\ ~Announced(Current(w))
           /\ events'[Current(w)] \in {NoRow, worker[w].value}
<1>1. /\ worker[w].cur \in DOMAIN login_events
      /\ Current(w) = login_events[worker[w].cur]
      /\ Untouched(worker[w].cur)
  BY CurrentOK, CurrentUntouched DEF Current, WriteStep, Busy
<1>2. /\ events[Current(w)] \notin Result
      /\ ~Announced(Current(w))
  BY <1>1 DEF LedgerInv
<1> QED
  BY <1>1, <1>2, UpdateOK DEF InStream

\* Announced afterwards: announced before, or announced now.
LEMMA AnnouncedAfter ==
    ASSUME ServiceInv, NEW e
    PROVE  /\ (\A w \in Worker : ~AnnounceStep(w)) /\ ServiceStep =>
                 (Announced(e)' <=> Announced(e))
           /\ \A w \in Worker : AnnounceStep(w) =>
                 (Announced(e)' <=> Announced(e) \/ e = Current(w))
<1>1. ASSUME UNCHANGED normalized_events
      PROVE  Announced(e)' <=> Announced(e)
  BY <1>1 DEF Announced
<1>2. ASSUME NEW w \in Worker, AnnounceStep(w)
      PROVE  Announced(e)' <=> Announced(e) \/ e = Current(w)
  <2> DEFINE n == Len(normalized_events) + 1
  <2>1. /\ StreamsGrow
        /\ DOMAIN normalized_events' = DOMAIN normalized_events \cup {n}
        /\ normalized_events'[n].event = Current(w)
    BY <1>2, AnnounceOK
  <2>2. \A i \in DOMAIN normalized_events :
           normalized_events'[i] = normalized_events[i]
    BY <2>1, NormalizedKept DEF ServiceInv
  <2> HIDE DEF n
  <2> QED
    BY <2>1, <2>2 DEF Announced
<1>3. (\A w \in Worker : ~AnnounceStep(w)) /\ ServiceStep => UNCHANGED normalized_events
  BY DEF ServiceStep, AnswerStep, DropStep, InsertStep, AppendStep, GroupStep,
         LocalStep, WriteStep, AckStep, DeliverStep, LossStep, StillStep,
         StreamsSame
<1> QED
  BY <1>1, <1>2, <1>3

\* Rows change by an insert, for an event that is not on the stream, or by
\* an UPDATE.
LEMMA RowAfter ==
    ASSUME ServiceInv, ServiceStep, NEW e \in EventId, events'[e] # events[e]
    PROVE  \/ /\ events[e] = NoRow /\ events'[e] = RawRow
              /\ ~InStream(e)
              /\ \E r \in Request : InsertStep(r)
           \/ \E w \in Worker : WriteStep(w) /\ e = Current(w)
<1>1. ASSUME NEW r \in Request, InsertStep(r)
      PROVE  /\ events[e] = NoRow /\ events'[e] = RawRow
             /\ ~InStream(e)
  <2>1. e[1] = r /\ events'[e] = RawRow
    BY <1>1 DEF InsertStep
  <2>2. events[e] = NoRow
    BY <2>1, <1>1 DEF ServiceInv, RequestInv, EventId, InsertStep
  <2>3. ~InStream(e)
    BY <2>1, <1>1 DEF InStream, ServiceInv, PublisherInv, InsertStep
  <2> QED
    BY <2>1, <2>2, <2>3
<1>2. ASSUME NEW w \in Worker, WriteStep(w)
      PROVE  e = Current(w)
  BY <1>2, UpdateOK
<1> QED
  BY <1>1, <1>2
     DEF ServiceStep, AnswerStep, DropStep, AppendStep, GroupStep, LocalStep,
         AnnounceStep, AckStep, DeliverStep, LossStep, StillStep

\* The second conjunct: an untouched message is not written or announced.
LEMMA UntouchedStep ==
    ASSUME ServiceInv, LedgerInv, MaxResends = 0, ServiceStep,
           NEW k \in DOMAIN login_events', Untouched(k)'
    PROVE  /\ events'[login_events'[k]] \notin Result
           /\ ~Announced(login_events[k])'
<1>0. StreamsGrow /\ TypeOK /\ ServiceInv' /\ LogOnce
  BY StepInv DEF ServiceInv, LedgerInv
<1>1. ASSUME k \in DOMAIN login_events
      PROVE  /\ events'[login_events'[k]] \notin Result
             /\ ~Announced(login_events[k])'
  <2>0. PICK e \in EventId : e = login_events[k]
    BY <1>0, <1>1, LogKept
  <2>1. login_events'[k] = e
    BY <2>0, <1>0, <1>1, LogKept
  <2>2. events[e] \notin Result /\ ~Announced(e)
    BY <2>0, <1>1, UntouchedBefore DEF LedgerInv
  <2>3. ASSUME NEW w \in Worker, WriteStep(w) \/ AnnounceStep(w)
        PROVE  e # Current(w)
    <3>1. k # worker[w].cur
      BY <2>3, CurrentTouched
    <3>2. worker[w].cur \in DOMAIN login_events
      BY <2>3, CurrentOK DEF WriteStep, AnnounceStep, Busy
    <3> QED
      BY <3>1, <3>2, <2>0, <1>0, <1>1 DEF LogOnce, Current
  <2>4. events'[e] \notin Result
    BY <2>1, <2>2, <2>3, RowAfter, StoreAssumption
  <2>5. ~Announced(e)'
    BY <2>2, <2>3, AnnouncedAfter
  <2> QED
    BY <2>1, <2>4, <2>5 DEF Announced
<1>2. ASSUME NEW r \in Request, AppendStep(r), k \notin DOMAIN login_events
      PROVE  /\ events'[login_events'[k]] \notin Result
             /\ ~Announced(login_events[k])'
  <2> DEFINE e == <<r, request[r].next>>
  <2>1. /\ login_events'[k] = e /\ e \in EventId
    <3>1. /\ DOMAIN login_events' = DOMAIN login_events \cup {Len(login_events) + 1}
          /\ login_events'[Len(login_events) + 1] = <<r, request[r].next>>
      BY <1>2, AppendFrontier
    <3> QED
      BY <3>1, <1>2 DEF AppendStep
  <2>2. ~InStream(e)
    <3>1. request[r].pc = "publish" /\ request[r].next \in Nat
      BY <1>2 DEF AppendStep, ServiceInv, TypeOK, IngestTypeOK, RequestState
    <3>2. \A j \in DOMAIN login_events : login_events[j] # e
      BY <3>1, <1>0 DEF LogOnce
    <3> QED
      BY <3>2 DEF InStream
  <2>3. UNCHANGED <<events, normalized_events>>
    BY <1>2 DEF AppendStep
  <2> HIDE DEF e
  <2>4. events[e] \notin Result /\ ~Announced(e)
    BY <2>1, <2>2 DEF LedgerInv
  <2> QED
    BY <2>1, <2>3, <2>4 DEF Announced
<1>3. k \in DOMAIN login_events \/ \E r \in Request : AppendStep(r)
  BY DEF ServiceStep, AnswerStep, DropStep, InsertStep, GroupStep, LocalStep,
         WriteStep, AnnounceStep, AckStep, DeliverStep, LossStep, StillStep,
         StreamsSame
<1> QED
  BY <1>1, <1>2, <1>3

\* The third conjunct: who is written or announced is on the stream.
LEMMA OnStreamStep ==
    ASSUME ServiceInv, LedgerInv, ServiceStep, NEW e \in EventId,
           events'[e] \in Result \/ Announced(e)'
    PROVE  InStream(e)'
<1>0. StreamsGrow /\ TypeOK
  BY StepInv DEF ServiceInv
<1>1. \/ events[e] \in Result \/ Announced(e)
      \/ \E w \in Worker : (WriteStep(w) \/ AnnounceStep(w)) /\ e = Current(w)
  BY AnnouncedAfter, RowAfter, StoreAssumption
<1>2. InStream(e)
  <2>1. ASSUME NEW w \in Worker, WriteStep(w) \/ AnnounceStep(w)
        PROVE  InStream(Current(w))
    BY <2>1, CurrentOK DEF WriteStep, AnnounceStep, Busy, InStream, Current
  <2> QED
    BY <2>1, <1>1 DEF LedgerInv
<1> QED
  BY <1>0, <1>2, InStreamKept DEF InStream

\* The fourth: the row of the message a replica is about to announce.
LEMMA AboutToAnnounceStep ==
    ASSUME ServiceInv, LedgerInv, MaxResends = 0, ServiceStep,
           NEW u \in Worker, worker'[u].pc = "publish"
    PROVE  /\ events'[Current(u)'] \in {NoRow, worker'[u].value}
           /\ ~Announced(Current(u))'
<1>0. StreamsGrow /\ TypeOK /\ ServiceInv' /\ LogOnce
  BY StepInv DEF ServiceInv, LedgerInv
<1>1. CASE worker'[u] = worker[u] /\ ~AnnounceStep(u)
  <2>0. PICK e \in EventId : e = Current(u)
    BY <1>1, CurrentOK DEF Busy
  <2>1. /\ worker[u].pc = "publish" /\ worker[u].pc \in Busy
        /\ Current(u)' = e /\ InStream(e)
    BY <2>0, <1>0, <1>1, WorkerKept, CurrentOK DEF Busy, InStream, Current
  <2>2. events[e] \in {NoRow, worker[u].value} /\ ~Announced(e)
    BY <2>0, <2>1 DEF LedgerInv
  <2>3. ASSUME NEW w \in Worker, WriteStep(w) \/ AnnounceStep(w)
        PROVE  e # Current(w)
    <3>1. w # u /\ worker[w].pc \in Busy
      BY <2>1, <2>3, <1>1 DEF WriteStep, AnnounceStep, Busy
    <3> QED
      BY <3>1, <2>0, <2>1, <1>0, CurrentsDiffer
  <2>4. events'[e] = events[e]
    BY <2>1, <2>3, RowAfter
  <2>5. ~Announced(e)'
    BY <2>2, <2>3, AnnouncedAfter
  <2> QED
    BY <2>1, <2>2, <2>4, <2>5, <1>1 DEF Announced
<1>2. CASE WriteStep(u)
  <2>1. /\ GoesTo(u, "publish") /\ worker'[u].value = worker[u].value
        /\ UNCHANGED <<login_events, normalized_events>>
    BY <1>2 DEF WriteStep, MovesOn, Busy, StreamsSame
  <2>2. Current(u)' = Current(u)
    BY <2>1 DEF GoesTo, Current
  <2> QED
    BY <2>1, <2>2, <1>2, WriteTouches DEF Announced
<1>3. ~AnnounceStep(u)
  BY NoResend DEF AnnounceStep, GoesTo, MovesOn, Busy
<1>4. worker'[u] = worker[u] \/ WriteStep(u)
  <2>1. ASSUME NEW w \in Worker, OnlyWorker(w), u # w
        PROVE  worker'[u] = worker[u]
    BY <2>1 DEF OnlyWorker
  <2>2. CASE LocalStep(u) \/ AckStep(u) \/ GroupStep(u)
             \/ \E hi \in Nat : DeliverStep(u, hi)
    BY <2>2 DEF LocalStep, AckStep, GroupStep, DeliverStep, MovesOn, GoesTo, Busy
  <2> QED
    BY <2>1, <2>2, <1>3
       DEF ServiceStep, AnswerStep, DropStep, InsertStep, AppendStep, GroupStep,
           LocalStep, WriteStep, AnnounceStep, AckStep, DeliverStep, LossStep,
           StillStep
<1> QED
  BY <1>1, <1>2, <1>3, <1>4

\* The fifth: the row of what is announced, if it is still there.
LEMMA AnnouncedRowStep ==
    ASSUME ServiceInv, LedgerInv, ServiceStep, NEW i \in DOMAIN normalized_events'
    PROVE  events'[normalized_events'[i].event] \in
               {NoRow, normalized_events'[i].value}
<1>0. StreamsGrow /\ TypeOK
  BY StepInv DEF ServiceInv
<1>1. CASE i \in DOMAIN normalized_events
  <2> DEFINE e == normalized_events[i].event
  <2>1. /\ normalized_events'[i] = normalized_events[i]
        /\ e \in EventId /\ Announced(e)
    BY <1>0, <1>1, NormalizedKept DEF NormalizedMessage, Announced
  <2>2. events[e] \in {NoRow, normalized_events[i].value} /\ InStream(e)
    BY <2>1, <1>1 DEF LedgerInv
  <2> HIDE DEF e
  <2>3. events'[e] = events[e]
    BY <2>1, <2>2, RowAfter, WriteTouches
  <2> QED
    BY <2>1, <2>2, <2>3 DEF e
<1>2. ASSUME NEW w \in Worker, AnnounceStep(w), i \notin DOMAIN normalized_events
      PROVE  events'[normalized_events'[i].event] \in
                 {NoRow, normalized_events'[i].value}
  <2> DEFINE n == Len(normalized_events) + 1
  <2>1. /\ normalized_events'[n].event = Current(w)
        /\ normalized_events'[n].value = worker[w].value
        /\ DOMAIN normalized_events' = DOMAIN normalized_events \cup {n}
    BY <1>2, AnnounceOK
  <2> HIDE DEF n
  <2>2. events[Current(w)] \in {NoRow, worker[w].value} /\ UNCHANGED events
    BY <1>2 DEF LedgerInv, AnnounceStep
  <2> QED
    BY <2>1, <2>2, <1>2
<1>3. i \in DOMAIN normalized_events \/ \E w \in Worker : AnnounceStep(w)
  BY DEF ServiceStep, AnswerStep, DropStep, InsertStep, AppendStep, GroupStep,
         LocalStep, WriteStep, AckStep, DeliverStep, LossStep, StillStep,
         StreamsSame
<1> QED
  BY <1>1, <1>2, <1>3

LEMMA LedgerStep ==
    ASSUME ServiceInv, LedgerInv, MaxResends = 0, ServiceStep
    PROVE  LedgerInv'
<1>1. LogOnce'
  BY LogOnceStep DEF LedgerInv
<1> QED
  BY <1>1, UntouchedStep, OnStreamStep, AboutToAnnounceStep, AnnouncedRowStep
     DEF LedgerInv

LEMMA InitLedgerInv == Init => LedgerInv
<1> SUFFICES ASSUME Init PROVE LedgerInv
  OBVIOUS
<1> USE StoreAssumption DEF Init, StoreInit, IngestInit, ConsumerInit
<1>1. LogOnce
  BY DEF LogOnce
<1>2. \A e \in EventId : events[e] \notin Result /\ ~Announced(e)
  BY DEF Announced
<1>3. \A w \in Worker : worker[w].pc # "publish"
  BY DEF Idle
<1> QED
  BY <1>1, <1>2, <1>3 DEF LedgerInv

LEMMA SpecLedgerInv ==
    ASSUME MaxResends = 0
    PROVE  Spec => []LedgerInv
<1>1. ServiceInv /\ LedgerInv /\ [Next]_vars => LedgerInv'
  BY StepCases, LedgerStep
<1> QED
  BY <1>1, InitLedgerInv, SpecServiceInv, PTL DEF Spec

-----------------------------------------------------------------------------
(* The order of announcements with one replica *)

LEMMA BehindStep ==
    ASSUME ServiceInv, LedgerInv, AnnouncedIsBehind, MaxResends = 0,
           \A u, v \in Worker : u = v, ServiceStep
    PROVE  AnnouncedIsBehind'
<1> SUFFICES ASSUME NEW u \in Worker, NEW k \in DOMAIN login_events',
                    Announced(login_events[k])'
             PROVE  /\ k <= Frontier'
                    /\ worker'[u].pc \in Busy => k <= worker'[u].cur
                    /\ worker'[u].pc \in Busy \ {"ack"} => k < worker'[u].cur
  BY DEF AnnouncedIsBehind
<1>0. /\ StreamsGrow /\ TypeOK /\ ServiceInv' /\ LogOnce
      /\ Frontier \in Nat /\ k \in Nat
  <2>1. StreamsGrow /\ ServiceInv' /\ TypeOK /\ TypeOK' /\ LogOnce
    BY StepInv DEF ServiceInv, LedgerInv
  <2>2. Frontier \in Nat
    BY <2>1, FrontierType
  <2>3. login_events' \in Seq(EventId)
    BY <2>1 DEF TypeOK, StoreTypeOK
  <2>4. k \in Nat
    BY <2>3
  <2> QED
    BY <2>1, <2>2, <2>4
<1>1. k \in DOMAIN login_events
  <2> SUFFICES ASSUME NEW r \in Request, AppendStep(r),
                      k \notin DOMAIN login_events
               PROVE  FALSE
    BY DEF ServiceStep, AnswerStep, DropStep, InsertStep, GroupStep, LocalStep,
           WriteStep, AnnounceStep, AckStep, DeliverStep, LossStep, StillStep,
           StreamsSame
  <2>1. login_events'[k] = <<r, request[r].next>>
    <3>1. /\ DOMAIN login_events' = DOMAIN login_events \cup {Len(login_events) + 1}
          /\ login_events'[Len(login_events) + 1] = <<r, request[r].next>>
      BY AppendFrontier
    <3> QED
      BY <3>1
  <2>2. PICK e \in EventId : e = <<r, request[r].next>>
    BY DEF AppendStep
  <2>3. Announced(e)
    BY <2>1, <2>2 DEF Announced, AppendStep
  <2>4. InStream(e)
    BY <2>3 DEF LedgerInv
  <2>5. request[r].pc = "publish" /\ request[r].next \in Nat
    BY DEF AppendStep, ServiceInv, TypeOK, IngestTypeOK, RequestState
  <2>6. \A j \in DOMAIN login_events : login_events[j] # e
    BY <2>2, <2>5, <1>0 DEF LogOnce
  <2> QED
    BY <2>4, <2>6 DEF InStream
<1>2. PICK e \in EventId : e = login_events[k] /\ login_events'[k] = e
  BY <1>0, <1>1, LogKept
<1>3. Announced(e)'
  BY <1>2 DEF Announced
<1>4. ASSUME Announced(e)
      PROVE  /\ k <= Frontier
             /\ \A v \in Worker :
                   /\ worker[v].pc \in Busy => k <= worker[v].cur
                   /\ worker[v].pc \in Busy \ {"ack"} => k < worker[v].cur
  BY <1>1, <1>2, <1>4 DEF AnnouncedIsBehind
<1>5. ASSUME NEW w \in Worker, AnnounceStep(w), ~Announced(e)
      PROVE  k = worker[w].cur
  <2>1. e = Current(w) /\ worker[w].cur \in DOMAIN login_events
    BY <1>3, <1>5, AnnouncedAfter, CurrentOK DEF AnnounceStep, Busy
  <2> QED
    BY <2>1, <1>0, <1>1, <1>2 DEF LogOnce, Current
<1>6. k <= Frontier'
  <2>1. k <= Frontier
    <3>1. CASE Announced(e)
      BY <3>1, <1>4
    <3>2. ASSUME NEW w \in Worker, AnnounceStep(w), ~Announced(e)
          PROVE  k <= Frontier
      BY <3>2, <1>5, <1>0, CurrentOK
         DEF ServiceInv, WorkerInv, WorkerOK, AnnounceStep, Busy
    <3> QED
      BY <3>1, <3>2, <1>3, AnnouncedAfter
  <2> QED
    BY <2>1, <1>0 DEF StreamsGrow
<1>7. /\ worker'[u].pc \in Busy => k <= worker'[u].cur
      /\ worker'[u].pc \in Busy \ {"ack"} => k < worker'[u].cur
  <2>0. Announced(e) \/ AnnounceStep(u)
    BY <1>3, AnnouncedAfter
  <2>1. CASE worker'[u] = worker[u] /\ ~AnnounceStep(u)
    BY <2>0, <2>1, <1>4
  <2>2. CASE AnnounceStep(u)
    <3>1. k <= worker[u].cur /\ worker[u].cur \in Nat
      BY <2>2, <1>0, <1>4, <1>5, CurrentOK DEF AnnounceStep, Busy
    <3> QED
      BY <3>1, <2>2, <1>0, NoResend DEF AnnounceStep, GoesTo, MovesOn, Busy
  <2>3. CASE LocalStep(u) \/ WriteStep(u) \/ AckStep(u) \/ GroupStep(u)
    <3>1. Announced(e) \/ AnnounceStep(u)
      BY <2>0
    <3>2. worker[u].pc \in Busy => worker[u].cur \in Nat
      BY CurrentOK
    <3>3. CASE AnnounceStep(u)
      BY <3>3, <2>2
    <3>4. CASE Announced(e)
      BY <3>2, <3>4, <2>3, <1>0, <1>4
         DEF LocalStep, WriteStep, AckStep, GroupStep, GoesTo, MovesOn, Busy
    <3> QED
      BY <3>1, <3>3, <3>4
  <2>4. ASSUME NEW hi \in Nat, DeliverStep(u, hi)
        PROVE  /\ worker'[u].pc \in Busy => k <= worker'[u].cur
               /\ worker'[u].pc \in Busy \ {"ack"} => k < worker'[u].cur
    <3>1. Announced(e)
      BY <2>0, <2>4 DEF DeliverStep, AnnounceStep, Busy
    <3> QED
      BY <3>1, <2>4, <1>0, <1>4 DEF DeliverStep, Busy
  <2> QED
    BY <2>1, <2>2, <2>3, <2>4
       DEF ServiceStep, AnswerStep, DropStep, InsertStep, AppendStep, LossStep,
           StillStep
<1> QED
  BY <1>6, <1>7

LEMMA OrderStep ==
    ASSUME ServiceInv, LedgerInv, AnnouncedIsBehind, AnnouncedInOrder,
           MaxResends = 0, \A u, v \in Worker : u = v, ServiceStep
    PROVE  AnnouncedInOrder'
<1> SUFFICES ASSUME NEW i \in DOMAIN normalized_events',
                    NEW j \in DOMAIN normalized_events',
                    NEW k \in DOMAIN login_events',
                    NEW l \in DOMAIN login_events',
                    i < j,
                    login_events'[k] = normalized_events'[i].event,
                    login_events'[l] = normalized_events'[j].event
             PROVE  k <= l
  BY DEF AnnouncedInOrder
<1>0. /\ StreamsGrow /\ TypeOK /\ ServiceInv' /\ LogOnce /\ LogOnce'
      /\ login_events' \in Seq(EventId)
      /\ normalized_events \in Seq(NormalizedMessage)
      /\ normalized_events' \in Seq(NormalizedMessage)
      /\ \A m \in DOMAIN normalized_events : normalized_events[m].event \in EventId
  <2>1. StreamsGrow /\ TypeOK /\ ServiceInv' /\ TypeOK' /\ LogOnce /\ LogOnce'
    BY StepInv, LogOnceStep DEF ServiceInv, LedgerInv
  <2>2. /\ login_events' \in Seq(EventId)
        /\ normalized_events \in Seq(NormalizedMessage)
        /\ normalized_events' \in Seq(NormalizedMessage)
    BY <2>1 DEF TypeOK, StoreTypeOK
  <2>3. \A m \in DOMAIN normalized_events : normalized_events[m] \in NormalizedMessage
    BY <2>2
  <2> QED
    BY <2>1, <2>2, <2>3 DEF NormalizedMessage
\* What is announced was on the stream before, under the same number.
<1>1. ASSUME NEW m \in DOMAIN normalized_events, NEW q \in DOMAIN login_events',
             login_events'[q] = normalized_events[m].event
      PROVE  q \in DOMAIN login_events /\ login_events[q] = normalized_events[m].event
  <2>1. InStream(normalized_events[m].event)
    BY <1>0, <1>1 DEF LedgerInv, Announced
  <2>2. PICK p \in DOMAIN login_events : login_events[p] = normalized_events[m].event
    BY <2>1 DEF InStream
  <2>3. p = q
    BY <2>2, <1>0, <1>1, LogKept DEF LogOnce
  <2> QED
    BY <2>2, <2>3
<1>2. CASE j \in DOMAIN normalized_events
  <2>1. i \in DOMAIN normalized_events
    BY <1>0, <1>2
  <2>2. /\ normalized_events'[i] = normalized_events[i]
        /\ normalized_events'[j] = normalized_events[j]
    BY <2>1, <1>0, <1>2, NormalizedKept
  <2> QED
    BY <2>1, <2>2, <1>1, <1>2 DEF AnnouncedInOrder
<1>3. ASSUME NEW w \in Worker, AnnounceStep(w), j \notin DOMAIN normalized_events
      PROVE  k <= l
  <2>1. /\ DOMAIN normalized_events' =
              DOMAIN normalized_events \cup {Len(normalized_events) + 1}
        /\ normalized_events'[Len(normalized_events) + 1].event = Current(w)
    BY <1>3, AnnounceOK
  <2>2. j = Len(normalized_events) + 1 /\ i \in DOMAIN normalized_events
    BY <2>1, <1>0, <1>3
  <2>3. worker[w].cur \in DOMAIN login_events /\ UNCHANGED login_events
    BY <1>3, CurrentOK DEF AnnounceStep, Busy
  <2>4. l = worker[w].cur
    BY <2>1, <2>2, <2>3, <1>0 DEF LogOnce, Current
  <2>5. Announced(login_events[k])
    BY <2>2, <2>3, <1>0, NormalizedKept DEF Announced
  <2>6. k < worker[w].cur
    BY <2>3, <2>5, <1>3 DEF AnnouncedIsBehind, AnnounceStep, Busy
  <2> QED
    BY <2>4, <2>6, <1>0
<1>4. j \in DOMAIN normalized_events \/ \E w \in Worker : AnnounceStep(w)
  BY DEF ServiceStep, AnswerStep, DropStep, InsertStep, AppendStep, GroupStep,
         LocalStep, WriteStep, AckStep, DeliverStep, LossStep, StillStep,
         StreamsSame
<1> QED
  BY <1>2, <1>3, <1>4

-----------------------------------------------------------------------------
(* What the cap evicts *)

\* Nobody gets hold of a message but by a delivery.
LEMMA HeldBefore ==
    ASSUME ServiceInv, ServiceStep, NEW w \in Worker, NEW k \in Held(w)'
    PROVE  k \in Held(w) \/ \E hi \in Nat : DeliverStep(w, hi)
<1>0. StreamsGrow /\ worker'[w].pc \in Busy
  BY StepInv DEF Held
<1>1. ASSUME worker'[w] = worker[w]
      PROVE  k \in Held(w)
  BY <1>1 DEF Held
<1>2. ASSUME worker[w].pc \in Busy, MovesOn(w)
      PROVE  k \in Held(w)
  BY <1>0, <1>2, MovesOnOK
<1>3. ASSUME worker[w].pc \in Busy, NEW where \in Busy, GoesTo(w, where)
      PROVE  k \in Held(w)
  BY <1>3 DEF Held, GoesTo
<1>4. ASSUME NEW u \in Worker,
             \/ GroupStep(u) \/ LocalStep(u) \/ WriteStep(u)
             \/ AnnounceStep(u) \/ AckStep(u)
      PROVE  k \in Held(w)
  <2>1. OnlyWorker(u)
    BY <1>4 DEF GroupStep, LocalStep, WriteStep, AnnounceStep, AckStep
  <2>2. CASE u # w
    BY <2>1, <2>2, <1>1 DEF OnlyWorker
  <2>3. CASE u = w
    BY <2>3, <1>0, <1>1, <1>2, <1>3, <1>4
       DEF GroupStep, LocalStep, WriteStep, AnnounceStep, AckStep, Busy
  <2> QED
    BY <2>2, <2>3
<1>5. ASSUME NEW u \in Worker, NEW hi \in Nat, DeliverStep(u, hi), u # w
      PROVE  worker'[w] = worker[w]
  BY <1>5 DEF DeliverStep, OnlyWorker
<1>6. CASE UNCHANGED worker
  BY <1>1, <1>6
<1> QED
  BY <1>1, <1>4, <1>5, <1>6
     DEF ServiceStep, AnswerStep, DropStep, InsertStep, AppendStep, LossStep,
         StillStep

\* No key was lost before a step that leaves the count of losses at 0.
LEMMA NoLossBefore ==
    ASSUME ServiceInv, ServiceStep, spent'.losses = 0
    PROVE  spent.losses = 0 /\ ~Loss
<1>1. TypeOK /\ spent \in Bounds
  BY DEF ServiceInv, TypeOK, StoreTypeOK
<1>2. Fault \/ Crash \/ Loss \/ Resend \/ UNCHANGED spent
  BY DEF ServiceStep, AnswerStep, DropStep, InsertStep, AppendStep, GroupStep,
     LocalStep, WriteStep, AnnounceStep, AckStep, DeliverStep, LossStep,
     StillStep
<1> QED
  BY <1>1, <1>2, SpentType DEF Bounds

LEMMA HeldStep ==
    ASSUME ServiceInv, HeldWasDelivered, ServiceStep
    PROVE  HeldWasDelivered'
<1> SUFFICES ASSUME spent'.losses = 0, NEW w \in Worker, NEW k \in Held(w)'
             PROVE  k \in pel' \cup acked'
  BY DEF HeldWasDelivered
<1>1. spent.losses = 0 /\ ~Loss
  BY NoLossBefore
<1>2. pel \cup acked \subseteq pel' \cup acked'
  BY <1>1 DEF ServiceStep, AnswerStep, DropStep, InsertStep, AppendStep,
     GroupStep, LocalStep, WriteStep, AnnounceStep, AckStep, DeliverStep,
     LossStep, StillStep, StreamsSame
<1>3. CASE k \in Held(w)
  BY <1>1, <1>2, <1>3 DEF HeldWasDelivered
<1>4. ASSUME NEW hi \in Nat, DeliverStep(w, hi)
      PROVE  k \in pel'
  BY <1>4 DEF DeliverStep, Held, Busy
<1> QED
  BY <1>3, <1>4, HeldBefore

EvictedIsRaw ==
    spent.losses = 0 =>
        \A k \in lost :
            /\ events[login_events[k]] = RawRow
            /\ ~Announced(login_events[k])

\* A message that was evicted is in nobody's hands, so its row is not written
\* and it is not announced.
LEMMA EvictedStep ==
    ASSUME IInv, LedgerInv, HeldWasDelivered, EvictedIsRaw, MaxResends = 0,
           ServiceStep
    PROVE  EvictedIsRaw'
<1> SUFFICES ASSUME spent'.losses = 0, NEW k \in lost'
             PROVE  /\ events'[login_events'[k]] = RawRow
                    /\ ~Announced(login_events[k])'
  BY DEF EvictedIsRaw
<1>0. /\ ServiceInv /\ TypeOK /\ StreamsGrow /\ LogOnce
      /\ spent.losses = 0 /\ ~Loss
      /\ Frontier \in Nat /\ Frontier <= Len(login_events)
      /\ login_events \in Seq(EventId)
      /\ events \in [EventId -> RowValue]
      /\ lost \subseteq 1..Frontier
  BY StepInv, NoLossBefore, FrontierType
     DEF IInv, ServiceInv, TypeOK, StoreTypeOK, LedgerInv, EntriesAccounted
<1>1. \/ k \in lost
      \/ \E r \in Request : AppendStep(r) /\ k \in (Frontier + 1)..trimmed'
  BY <1>0 DEF ServiceStep, AnswerStep, DropStep, InsertStep, AppendStep,
     GroupStep, LocalStep, WriteStep, AnnounceStep, AckStep, DeliverStep,
     LossStep, StillStep, StreamsSame
<1>2. ASSUME NEW r \in Request, AppendStep(r), k \in (Frontier + 1)..trimmed'
      PROVE  /\ events'[login_events'[k]] = RawRow
             /\ ~Announced(login_events[k])'
  <2>1. k \in DOMAIN login_events /\ k > Frontier
    BY <1>0, <1>2, StoreAssumption DEF AppendStep, Frontier, TypeOK, StoreTypeOK
  <2>2. Untouched(k)
    BY <2>1 DEF Untouched
  <2>3. /\ events[login_events[k]] \notin Result
        /\ ~Announced(login_events[k])
        /\ events[login_events[k]] # NoRow
        /\ login_events[k] \in EventId
    BY <2>1, <2>2, <1>0 DEF LedgerInv, IInv, StreamEntryHasRow
  <2>4. login_events'[k] = login_events[k]
    BY <2>1, <1>0, LogKept
  <2>5. UNCHANGED <<events, normalized_events>>
    BY <1>2 DEF AppendStep
  <2> QED
    BY <2>3, <2>4, <2>5, <1>0 DEF RowValue, Announced
<1>3. CASE k \in lost
  <2>1. /\ k \in DOMAIN login_events
        /\ events[login_events[k]] = RawRow
        /\ ~Announced(login_events[k])
    BY <1>0, <1>3 DEF EvictedIsRaw
  <2>2. PICK e \in EventId : e = login_events[k]
    BY <2>1, <1>0
  <2>3. login_events'[k] = e
    BY <2>1, <2>2, <1>0, LogKept
  <2>4. ASSUME NEW w \in Worker, worker[w].pc \in Busy
        PROVE  Current(w) # e
    <3>1. worker[w].cur \in Held(w) /\ worker[w].cur \in DOMAIN login_events
      BY <2>4, <1>0, CurrentOK DEF Held, ServiceInv, WorkerInv, WorkerOK
    <3>2. worker[w].cur \notin lost
      BY <3>1, <1>0 DEF HeldWasDelivered, ServiceInv, EntriesAccounted
    <3>3. worker[w].cur # k
      BY <3>2, <1>3
    <3> QED
      BY <3>1, <3>3, <2>1, <2>2, <1>0 DEF LogOnce, Current
  <2>5. events'[e] = RawRow
    <3>1. SUFFICES ASSUME events'[e] # events[e] PROVE FALSE
      BY <2>1, <2>2
    <3>2. events[e] # NoRow
      BY <2>1, <2>2, StoreAssumption
    <3> QED
      BY <3>1, <3>2, <2>2, <2>4, <1>0, RowAfter DEF WriteStep, Busy
  <2>6. ~Announced(e)'
    BY <2>1, <2>2, <2>4, <1>0, AnnouncedAfter DEF AnnounceStep, Busy
  <2> QED
    BY <2>3, <2>5, <2>6 DEF Announced
<1> QED
  BY <1>1, <1>2, <1>3

\* A raw row whose message does not wait and is in nobody's hands: it is not
\* pending and not acknowledged, so it was lost.
LEMMA RawIsExplained ==
    ASSUME IInv, PendingIsHeldUnlessFailed, EvictedIsRaw
    PROVE  OnlyEvictionLeavesRaw
<1>1. ASSUME spent.faults = 0, spent.crashes = 0,
             NEW k \in DOMAIN login_events,
             events[login_events[k]] = RawRow
      PROVE  k \in Waiting \cup lost \cup UNION {Held(w) : w \in Worker}
  <2>1. /\ Frontier \in Nat /\ login_events \in Seq(EventId)
        /\ pel \cup acked \cup lost = 1..Frontier
    BY FrontierType
       DEF IInv, ServiceInv, TypeOK, StoreTypeOK, EntriesAccounted
  <2>2. CASE k > Frontier
    BY <2>1, <2>2 DEF Waiting
  <2>3. CASE k \in pel
    BY <2>3, <1>1 DEF PendingIsHeldUnlessFailed
  <2>4. k \notin acked
    BY <1>1, StoreAssumption DEF IInv, AckedIsDone, Done
  <2> QED
    BY <2>1, <2>2, <2>3, <2>4
<1> QED
  BY <1>1 DEF OnlyEvictionLeavesRaw, EvictedIsRaw

-----------------------------------------------------------------------------
(* Theorems *)

\* What publish_normalized announces is what repository.write has written:
\* the message is a snapshot of the row, whoever fails in between.
THEOREM AnnouncementIsSnapshot ==
    ASSUME MaxResends = 0
    PROVE  Spec => []AnnouncedMatchesRow
<1>1. IInv /\ LedgerInv => AnnouncedMatchesRow
  BY StoreAssumption
     DEF IInv, LedgerInv, AnnouncedIsNormalized, AnnouncedMatchesRow
<1> QED
  BY <1>1, SpecIInv, SpecLedgerInv, PTL

\* A row is normalized once: no replica's UPDATE ever overwrites a result.
THEOREM NormalizedOnce ==
    ASSUME MaxResends = 0
    PROVE  Spec => NormalizedIsFinal
<1>1. ASSUME ServiceInv, LedgerInv, [Next]_vars
      PROVE  [\A e \in EventId : events[e] \in Result => events'[e] = events[e]]_vars
  <2>1. ServiceStep
    BY <1>1, StepCases
  <2>2. \A e \in EventId : events[e] \in Result => events'[e] = events[e]
    BY <1>1, <2>1, RowAfter, WriteTouches, StoreAssumption
  <2> QED
    BY <2>2
<1> QED
  BY <1>1, SpecServiceInv, SpecLedgerInv, PTL DEF Spec, NormalizedIsFinal

\* Whatever fails, a message that publish's MAXLEN ~ evicts unread leaves a
\* raw row nobody touches again; and when nothing failed, run_consumer_loop
\* has left no other row raw than those of evicted messages.
THEOREM EvictionIsTheOnlyGap ==
    ASSUME MaxResends = 0
    PROVE  Spec => []OnlyEvictionLeavesRaw
<1>1. Init => HeldWasDelivered /\ EvictedIsRaw
  BY DEF Init, StoreInit, ConsumerInit, Idle, Busy, Held, HeldWasDelivered,
         EvictedIsRaw
<1>2. IInv /\ LedgerInv /\ HeldWasDelivered /\ EvictedIsRaw /\ [Next]_vars
        => HeldWasDelivered' /\ EvictedIsRaw'
  BY StepCases, HeldStep, EvictedStep DEF IInv
<1>3. IInv /\ PendingIsHeldUnlessFailed /\ EvictedIsRaw => OnlyEvictionLeavesRaw
  BY RawIsExplained
<1> QED
  BY <1>1, <1>2, <1>3, SpecIInv, SpecLedgerInv, PendingIsBeingProcessed, PTL
     DEF Spec

\* With one replica, normalized_events keeps the order of login_events,
\* across crashes, restarts and the loss of the stream.
THEOREM OneReplicaKeepsOrder ==
    ASSUME MaxResends = 0, \A u, v \in Worker : u = v
    PROVE  Spec => []AnnouncedInOrder
<1>1. Init => AnnouncedIsBehind /\ AnnouncedInOrder
  BY DEF Init, StoreInit, AnnouncedIsBehind, AnnouncedInOrder
<1>2. ServiceInv /\ LedgerInv /\ AnnouncedIsBehind /\ AnnouncedInOrder /\ [Next]_vars
        => AnnouncedIsBehind' /\ AnnouncedInOrder'
  BY StepCases, BehindStep, OrderStep
<1> QED
  BY <1>1, <1>2, SpecServiceInv, SpecLedgerInv, PTL DEF Spec

-----------------------------------------------------------------------------
(* The refinement *)

\* Acknowledged messages are on the stream, and stay where they are.
LEMMA CompleteSame ==
    ASSUME ServiceInv, StreamsGrow, acked' = acked
    PROVE  {login_events'[k] : k \in acked'} = {login_events[k] : k \in acked}
<1>1. \A k \in acked : k \in DOMAIN login_events
  BY FrontierType DEF ServiceInv, EntriesAccounted, TypeOK, StoreTypeOK
<1>2. \A k \in acked : login_events'[k] = login_events[k]
  BY <1>1, LogKept DEF ServiceInv
<1> QED
  BY <1>2

\* Each step is a step of the ledger, or none.
LEMMA LedgerSimulation ==
    ASSUME IInv, LedgerInv, MaxResends = 0, ServiceStep
    PROVE  [Ledger!Next]_(Ledger!ledgerVars)
<1>0. ServiceInv /\ StreamsGrow /\ events \in [EventId -> RowValue]
  BY StepInv DEF IInv, ServiceInv, TypeOK, StoreTypeOK
<1>1. CASE UNCHANGED <<events, normalized_events, acked>>
  BY <1>0, <1>1, CompleteSame DEF Ledger!ledgerVars
<1>2. ASSUME NEW r \in Request, InsertStep(r)
      PROVE  Ledger!Store
  <2> DEFINE S == {e \in EventId : events'[e] # events[e]}
  <2>1. \A e \in S : events[e] = NoRow /\ events'[e] = RawRow
    <3>1. \A w \in Worker : ~WriteStep(w) \/ UNCHANGED events
      BY <1>2, <1>0, StepInv DEF InsertStep, WriteStep, OnlyRequest, RequestState,
         ServiceInv, TypeOK, IngestTypeOK
    <3> QED
      BY <3>1, <1>0, RowAfter
  <2>2. S \in SUBSET {e \in EventId : events[e] = NoRow}
    BY <2>1
  <2>3. events' = [e \in EventId |-> IF e \in S THEN RawRow ELSE events[e]]
    BY <2>1, <1>2 DEF InsertStep
  <2>4. UNCHANGED <<normalized_events, acked>>
    BY <1>2 DEF InsertStep, StreamsSame
  <2> HIDE DEF S
  <2> QED
    BY <2>2, <2>3, <2>4, <1>0, CompleteSame DEF Ledger!Store
<1>3. ASSUME NEW w \in Worker, WriteStep(w)
      PROVE  \E e \in EventId : Ledger!Normalize(e)
  <2>1. /\ Current(w) \in EventId
        /\ events[Current(w)] \notin Result
        /\ events[Current(w)] # NoRow
        /\ worker[w].value \in Result
    BY <1>0, <1>3, WriteTouches, CurrentOK, UpdateOK
       DEF IInv, StreamEntryHasRow, Current, WriteStep, Busy
  <2>2. events[Current(w)] = RawRow
    BY <2>1, <1>0 DEF RowValue
  <2>3. events' = [events EXCEPT ![Current(w)] = worker[w].value]
    BY <2>1, <1>3 DEF WriteStep, UpdateRow
  <2>4. UNCHANGED <<normalized_events, acked>>
    BY <1>3 DEF WriteStep, StreamsSame
  <2>5. PICK e \in EventId : e = Current(w)
    BY <2>1
  <2>6. Ledger!Normalize(e)
    BY <2>1, <2>2, <2>3, <2>4, <2>5, <1>0, CompleteSame DEF Ledger!Normalize
  <2> QED
    BY <2>6
<1>4. ASSUME NEW w \in Worker, AnnounceStep(w)
      PROVE  \E e \in EventId : Ledger!Announce(e)
  <2>1. /\ Current(w) \in EventId
        /\ events[Current(w)] \in Result
        /\ events[Current(w)] = worker[w].value
        /\ ~Announced(Current(w))
    BY <1>0, <1>4, CurrentOK, StoreAssumption
       DEF IInv, WrittenInv, LedgerInv, AnnounceStep, Busy
  <2>2. normalized_events' =
           Append(normalized_events,
                  [event |-> Current(w), value |-> events[Current(w)]])
    BY <2>1, <1>4 DEF AnnounceStep, XAddNormalized
  <2>3. UNCHANGED <<events, acked>>
    BY <1>4 DEF AnnounceStep
  <2>4. PICK e \in EventId : e = Current(w)
    BY <2>1
  <2>5. Ledger!Announce(e)
    BY <2>1, <2>2, <2>3, <2>4, <1>0, CompleteSame DEF Ledger!Announce, Announced
  <2> QED
    BY <2>5
<1>5. ASSUME NEW w \in Worker, AckStep(w), worker[w].cur \in pel
      PROVE  \E e \in EventId : Ledger!Complete(e)
  <2>1. /\ Announced(Current(w)) /\ Current(w) \in EventId
    BY <1>0, <1>5, CurrentOK DEF ServiceInv, WorkerInv, WorkerOK, AckStep, Busy
  <2>2. /\ acked' = acked \cup {worker[w].cur}
        /\ UNCHANGED <<events, normalized_events, login_events>>
    BY <1>5 DEF AckStep
  <2>3. {login_events'[k] : k \in acked'} =
           {login_events[k] : k \in acked} \cup {Current(w)}
    BY <2>2 DEF Current
  <2>4. PICK e \in EventId : e = Current(w)
    BY <2>1
  <2>5. Ledger!Complete(e)
    BY <2>1, <2>2, <2>3, <2>4 DEF Ledger!Complete, Announced
  <2> QED
    BY <2>5
<1>6. ASSUME NEW w \in Worker, AckStep(w), worker[w].cur \notin pel
      PROVE  UNCHANGED <<events, normalized_events, acked>>
  BY <1>6 DEF AckStep
<1>7. \/ UNCHANGED <<events, normalized_events, acked>>
      \/ \E r \in Request : InsertStep(r)
      \/ \E w \in Worker : WriteStep(w) \/ AnnounceStep(w) \/ AckStep(w)
  BY DEF ServiceStep, AnswerStep, DropStep, AppendStep, GroupStep,
         LocalStep, DeliverStep, LossStep, StillStep, StreamsSame
<1> QED
  BY <1>1, <1>2, <1>3, <1>4, <1>5, <1>6, <1>7 DEF Ledger!Next

\* The two services implement the ledger: seen from outside, an event is
\* stored, normalized, announced and completed, once each and in this order.
THEOREM PipelineImplementsLedger ==
    ASSUME MaxResends = 0
    PROVE  Spec => ImplementsLedger
<1>1. Init => Ledger!Init
  BY DEF Init, StoreInit, Ledger!Init
<1>2. IInv /\ LedgerInv /\ [Next]_vars => [Ledger!Next]_(Ledger!ledgerVars)
  BY StepCases, LedgerSimulation DEF IInv
<1> QED
  BY <1>1, <1>2, SpecIInv, SpecLedgerInv, PTL
     DEF Spec, ImplementsLedger, Ledger!Spec
=============================================================================
