----------------------------- MODULE DemoProofs -----------------------------
(***************************************************************************)
(* Machine-checked proofs about DemoPipeline, for every number of scenes,  *)
(* of other clients' requests and of replicas, and every bound on          *)
(* failures: what is left of the guarantees of Pipeline beside a client    *)
(* that deletes rows, and what that client sees.                           *)
(***************************************************************************)
EXTENDS DemoPipeline, LedgerProofs

-----------------------------------------------------------------------------
(* The steps of the run, as the services see them *)

\* The scenes to come are left alone.
ScenesAwait ==
    \A r \in Posted : request[r].pc = "idle" => request'[r] = request[r]

\* Streams, requests and replicas stay; a row may disappear.
OutsideStep ==
    /\ StreamsSame /\ UNCHANGED <<request, worker>>
    /\ events' \in [EventId -> RowValue]
    /\ \A e \in EventId :
          \/ events'[e] = events[e] /\ e \notin deleted' \ deleted
          \/ events'[e] = NoRow /\ e \in Ids
    /\ \A e \in EventId : events'[e] # events[e] => e \in deleted'
    /\ deleted \subseteq deleted' /\ deleted' \subseteq deleted \cup Ids
    /\ Fault \/ Crash \/ UNCHANGED spent

\* What the step does to the run itself: nothing that the services see.
Unseen == UNCHANGED <<events, deleted>>

LEMMA SceneFacts ==
    /\ Len(Scenes) \in Nat /\ Len(Scenes) > 0
    /\ DOMAIN Scenes = 1..Len(Scenes)
    /\ \A i \in 1..Len(Scenes) :
          /\ Scenes[i] \in Request /\ Scenes[i] \in Posted
          /\ RecordId(Scenes[i], 1) \in EventId
    /\ Posted \subseteq Request
<1>1. Len(Scenes) \in Nat /\ Len(Scenes) > 0
  BY ScenesAssumption
<1>2. DOMAIN Scenes = 1..Len(Scenes)
  BY ScenesAssumption
<1>3. \A i \in 1..Len(Scenes) : Scenes[i] \in Request /\ Scenes[i] \in Posted
  BY <1>2, ScenesAssumption DEF Posted
<1>4. \A i \in 1..Len(Scenes) : RecordId(Scenes[i], 1) \in EventId
  BY <1>3, StoreAssumption DEF RecordId, EventId
<1> QED
  BY <1>1, <1>2, <1>3, <1>4 DEF Posted

\* The ids of the run, and the rows they stand for.
LEMMA IdFacts ==
    ASSUME DInv
    PROVE  /\ demo \in DemoState /\ deleted \subseteq EventId
           /\ Len(demo.ids) \in Nat /\ Len(demo.ids) <= Len(Scenes)
           /\ DOMAIN demo.ids = 1..Len(demo.ids)
           /\ demo.ids \in Seq(EventId)
           /\ Ids \subseteq EventId
           /\ \A e \in Ids :
                 /\ e[1] \in Posted /\ e[1] \in Request
                 /\ request[e[1]].pc = "closed"
<1>1. /\ demo \in DemoState /\ deleted \subseteq EventId
      /\ demo.ids \in Seq(EventId)
  BY DEF DInv, DemoTypeOK, DemoState
<1>2. /\ Len(demo.ids) \in Nat /\ Len(demo.ids) <= Len(Scenes)
      /\ DOMAIN demo.ids = 1..Len(demo.ids)
  BY <1>1 DEF DInv, RunInv
<1>3. ASSUME NEW i \in DOMAIN demo.ids
      PROVE  /\ demo.ids[i] \in EventId
             /\ demo.ids[i][1] = Scenes[i]
             /\ Scenes[i] \in Posted /\ Scenes[i] \in Request
             /\ request[Scenes[i]].pc = "closed"
  <2>1. i \in 1..Len(Scenes)
    BY <1>2, SceneFacts
  <2>2. /\ demo.ids[i] = RecordId(Scenes[i], 1)
        /\ request[Scenes[i]].pc = "closed"
    BY DEF DInv, RunInv
  <2>3. RecordId(Scenes[i], 1)[1] = Scenes[i]
    BY DEF RecordId
  <2> QED
    BY <2>1, <2>2, <2>3, SceneFacts
<1> QED
  BY <1>1, <1>2, <1>3 DEF Ids

\* A step of a service is a step of Pipeline.
LEMMA ServiceForm ==
    ASSUME DInv, ServiceSteps, UNCHANGED demoVars
    PROVE  ServiceStep /\ ScenesAwait
<1>1. Next
  BY DEF ServiceSteps, Next, IngestNext, Others
<1>2. ServiceStep
  BY <1>1, StepCases DEF DInv
<1>3. ScenesAwait
  <2> SUFFICES ASSUME NEW q \in Posted, request[q].pc = "idle"
               PROVE  request'[q] = request[q]
    BY DEF ScenesAwait
  <2>0. q \in Request /\ request \in [Request -> RequestState]
    BY SceneFacts DEF DInv, ServiceInv, TypeOK, IngestTypeOK
  <2>1. ASSUME NEW r \in Others, Receive(r) \/ Reject(r)
        PROVE  request'[q] = request[q]
    <3>1. r # q
      BY DEF Others
    <3> QED
      BY <3>1, <2>0, <2>1 DEF Receive, Reject, Close
  <2>2. ASSUME NEW r \in Request, Handle(r)
        PROVE  request'[q] = request[q]
    <3>1. CASE r # q
      BY <3>1, <2>0, <2>2 DEF Handle, Persist, PersistFails, PublishOne,
         PublishFails, PublishResend, Accept, Close
    <3>2. CASE r = q
      BY <3>2, <2>2 DEF Handle, Persist, PersistFails, PublishOne,
         PublishFails, PublishResend, Accept
    <3> QED
      BY <3>1, <3>2
  <2>3. CASE IngestionCrash
    BY <2>0, <2>3 DEF IngestionCrash, InFlight
  <2> QED
    BY <2>1, <2>2, <2>3 DEF ServiceSteps, ingestVars
<1> QED
  BY <1>2, <1>3

\* The POST of a scene starts the handler of its request.
LEMMA PostForm ==
    ASSUME DInv, Post, UNCHANGED consumerVars
    PROVE  /\ ServiceStep
           /\ \A q \in Request : q # Scenes[demo.scene] => request'[q] = request[q]
           /\ UNCHANGED <<events, login_events, normalized_events, worker>>
<1> DEFINE r == Scenes[demo.scene]
<1>1. demo.scene \in 1..Len(Scenes) /\ request[r].pc = "idle"
  <2>1. /\ demo.pc = "submit" /\ demo.pc \in Submitting
        /\ demo.scene = Len(demo.ids) + 1
        /\ demo.scene <= Len(Scenes)
    BY DEF Post, DInv, RunInv, Submitting
  <2>2. demo.scene \in 1..Len(Scenes) /\ demo.scene > Len(demo.ids)
    BY <2>1, IdFacts, SceneFacts
  <2> QED
    BY <2>1, <2>2, SceneFacts DEF DInv, RunInv
<1>2. r \in Request /\ request \in [Request -> RequestState]
  BY <1>1, SceneFacts DEF DInv, ServiceInv, TypeOK, IngestTypeOK
<1>3. Receive(r)
  <2>1. request' = [request EXCEPT ![r].pc = "persist", ![r].size = 1]
        /\ UNCHANGED storeVars
    BY DEF Post
  <2>2. 1 \in 1..MaxBatch
    BY StoreAssumption
  <2> HIDE DEF r
  <2> QED
    BY <1>1, <2>1, <2>2 DEF Receive
<1>4. AnswerStep(r)
  BY <1>2, <1>3, AnswerForm DEF DInv
<1>5. \A q \in Request : q # r => request'[q] = request[q]
  BY <1>2 DEF Post
<1> QED
  BY <1>2, <1>4, <1>5 DEF ServiceStep, AnswerStep, StreamsSame

\* Every other step of the run is an outside step.
LEMMA QuietForm ==
    ASSUME DInv, UNCHANGED consumerVars,
           \/ CheckIngestion \/ CheckNormalization \/ CheckDb \/ ReadReply
           \/ SubmitFails \/ PostFails \/ PollReturns \/ PollTimesOut
           \/ Verify \/ Render \/ RunRaises \/ Retain \/ DemoKilled
    PROVE  OutsideStep /\ Unseen
<1>1. /\ StreamsSame /\ UNCHANGED <<request, worker, events, deleted>>
      /\ Fault \/ Crash \/ UNCHANGED spent
  BY DEF CheckIngestion, CheckNormalization, CheckHealth, CheckDb, ReadReply,
     SubmitFails, PostFails, PollReturns, PollTimesOut, Verify, Render,
     RunRaises, Retain, DemoKilled, storeVars, pgVars, streamVars, histVars,
     consumerVars, StreamsSame
<1> QED
  BY <1>1 DEF OutsideStep, Unseen, DInv, ServiceInv, TypeOK, StoreTypeOK

LEMMA DeleteForm ==
    ASSUME DInv, UNCHANGED consumerVars, Cleanup \/ CleanupFails
    PROVE  OutsideStep
<1>0. /\ StreamsSame /\ UNCHANGED <<request, worker>>
      /\ Fault \/ Crash \/ UNCHANGED spent
      /\ DeleteEvents \/ UNCHANGED <<events, deleted>>
      /\ events \in [EventId -> RowValue]
  BY DEF Cleanup, CleanupFails, streamVars, histVars, consumerVars,
     StreamsSame, DInv, ServiceInv, TypeOK, StoreTypeOK
<1>1. CASE UNCHANGED <<events, deleted>>
  BY <1>0, <1>1 DEF OutsideStep
<1>2. CASE DeleteEvents
  <2>1. events' \in [EventId -> RowValue]
    BY <1>0, <1>2 DEF DeleteEvents, RowValue
  <2>2. \A e \in EventId :
          \/ events'[e] = events[e] /\ e \notin deleted' \ deleted
          \/ events'[e] = NoRow /\ e \in Ids
    BY <1>2 DEF DeleteEvents
  <2>3. /\ \A e \in EventId : events'[e] # events[e] => e \in deleted'
        /\ deleted \subseteq deleted' /\ deleted' \subseteq deleted \cup Ids
    BY <1>2 DEF DeleteEvents
  <2> QED
    BY <1>0, <2>1, <2>2, <2>3 DEF OutsideStep
<1> QED
  BY <1>0, <1>1, <1>2

-----------------------------------------------------------------------------
(* The services beside the run: ServiceInv and LedgerInv survive *)

LEMMA OutsideServiceInv ==
    ASSUME DInv, OutsideStep
    PROVE  StreamsGrow /\ ServiceInv'
<1>1. StreamsGrow /\ GroupInv' /\ EntriesAccounted'
  BY SameStreams DEF DInv, OutsideStep
<1>2. WorkerInv' /\ OneOwner'
  BY <1>1, WorkersSame DEF DInv, OutsideStep
<1>3. spent' \in Bounds
  BY SpentType DEF DInv, ServiceInv, OutsideStep
<1>4. TypeOK'
  BY <1>3 DEF DInv, ServiceInv, OutsideStep, StreamsSame, TypeOK,
     StoreTypeOK, IngestTypeOK, ConsumerTypeOK
<1>5. RequestInv'
  <2>1. \A e \in EventId : events'[e] # NoRow => events[e] # NoRow
    BY DEF OutsideStep
  <2> QED
    BY <2>1, RequestsSame DEF DInv, OutsideStep
<1>6. PublisherInv'
  BY PublishersSame DEF DInv, OutsideStep, StreamsSame
<1> QED
  BY <1>1, <1>2, <1>4, <1>5, <1>6 DEF ServiceInv

LEMMA OutsideLedgerInv ==
    ASSUME DInv, LedgerInv, OutsideStep
    PROVE  LedgerInv'
<1>0. /\ UNCHANGED <<login_events, normalized_events, worker, request>>
      /\ UNCHANGED <<trimmed, lastDelivered>>
      /\ \A e \in EventId : events'[e] = events[e] \/ events'[e] = NoRow
      /\ ServiceInv
  BY DEF OutsideStep, StreamsSame, DInv
<1>1. /\ \A k \in DOMAIN login_events : login_events[k] \in EventId
      /\ \A i \in DOMAIN normalized_events :
            normalized_events[i].event \in EventId
      /\ \A w \in Worker : worker[w].pc = "publish" => Current(w) \in EventId
  <2>1. TypeOK
    BY DEF DInv, ServiceInv
  <2>2. \A k \in DOMAIN login_events : login_events[k] \in EventId
    BY <2>1 DEF TypeOK, StoreTypeOK
  <2>3. \A i \in DOMAIN normalized_events :
           normalized_events[i].event \in EventId
    <3>1. \A i \in DOMAIN normalized_events :
             normalized_events[i] \in NormalizedMessage
      BY <2>1 DEF TypeOK, StoreTypeOK
    <3> QED
      BY <3>1 DEF NormalizedMessage
  <2>4. \A w \in Worker : worker[w].pc = "publish" => Current(w) \in EventId
    BY <1>0, CurrentOK DEF Busy
  <2> QED
    BY <2>2, <2>3, <2>4
<1>2. LogOnce'
  BY <1>0 DEF LedgerInv, LogOnce
<1>3. /\ \A k : Untouched(k)' <=> Untouched(k)
      /\ \A e : (Announced(e)' <=> Announced(e)) /\ (InStream(e)' <=> InStream(e))
      /\ \A w : Current(w)' = Current(w)
  BY <1>0 DEF Untouched, Frontier, Held, Announced, InStream, Current
<1>4. \A k \in DOMAIN login_events : Untouched(k) =>
          /\ events'[login_events[k]] \notin Result
          /\ ~Announced(login_events[k])
  BY <1>0, <1>1, StoreAssumption DEF LedgerInv
<1>5. \A e \in EventId : events'[e] \in Result \/ Announced(e) => InStream(e)
  BY <1>0, StoreAssumption DEF LedgerInv
<1>6. \A w \in Worker : worker[w].pc = "publish" =>
          /\ events'[Current(w)] \in {NoRow, worker[w].value}
          /\ ~Announced(Current(w))
  BY <1>0, <1>1 DEF LedgerInv
<1>7. \A i \in DOMAIN normalized_events :
          events'[normalized_events[i].event] \in
              {NoRow, normalized_events[i].value}
  BY <1>0, <1>1 DEF LedgerInv
<1> QED
  BY <1>0, <1>2, <1>3, <1>4, <1>5, <1>6, <1>7
     DEF LedgerInv, Announced, InStream, Untouched, Frontier, Held, Current

-----------------------------------------------------------------------------
(* The run: where it stands *)

\* How a step of the run changes it.
RunMove ==
    /\ demo' \in DemoState
    /\ demo'.ids = demo.ids
    /\ demo'.scene = demo.scene
    /\ demo'.results = demo.results \/ PollReturns
    /\ \/ /\ demo.pc \in Preflight
          /\ demo'.pc \in Preflight \cup {"submit"}
       \/ /\ demo.pc \in Submitting \/ demo'.exit = "killed"
          /\ demo'.pc = "done"
       \/ /\ demo.pc \in Guarded
          /\ demo'.pc \in Guarded \cup {"cleanup"}
       \/ /\ demo.pc = "cleanup" /\ demo'.pc = "done"
          /\ \/ demo'.report \in {"retained", "warning"}
             \/ Ids \subseteq deleted'

LEMMA CheckForm ==
    ASSUME DInv, CheckIngestion \/ CheckNormalization \/ CheckDb
    PROVE  RunMove
<1>0. demo \in DemoState
  BY IdFacts
<1>1. /\ demo.pc \in Preflight
      /\ (\E pc \in Preflight \cup {"submit"} : Step(pc)) \/ Exit("1")
  BY DEF CheckIngestion, CheckNormalization, CheckHealth, CheckDb, Preflight
<1>2. ASSUME NEW pc \in Preflight \cup {"submit"}, Step(pc)
      PROVE  RunMove
  BY <1>0, <1>1, <1>2 DEF Step, RunMove, DemoState
<1>3. CASE Exit("1")
  BY <1>0, <1>1, <1>3 DEF Exit, RunMove, DemoState, Submitting
<1> QED
  BY <1>1, <1>2, <1>3

LEMMA ExitForm ==
    ASSUME DInv, SubmitFails \/ PostFails \/ DemoKilled
    PROVE  RunMove
<1>0. demo \in DemoState
  BY IdFacts
<1>1. \/ demo.pc \in Submitting /\ Exit("1")
      \/ Exit("killed")
  BY DEF SubmitFails, PostFails, DemoKilled, Submitting
<1> QED
  BY <1>0, <1>1 DEF Exit, RunMove, DemoState

LEMMA GuardedForm ==
    ASSUME DInv, PollTimesOut \/ Verify \/ Render \/ RunRaises
    PROVE  RunMove
<1>0. demo \in DemoState
  BY IdFacts
<1>1. /\ demo.pc \in Guarded
      /\ \/ Step("render") \/ \E code \in {"0", "1"} : Finally(code)
  BY DEF PollTimesOut, Verify, Render, RunRaises, Guarded
<1> QED
  BY <1>0, <1>1 DEF Step, Finally, RunMove, DemoState, Guarded

LEMMA PollForm ==
    ASSUME DInv, PollReturns
    PROVE  /\ RunMove
           /\ DOMAIN demo'.results = DOMAIN demo.ids
           /\ \A i \in DOMAIN demo.ids :
                 /\ demo'.results[i] = events[demo.ids[i]]
                 /\ events[demo.ids[i]] \in Result
<1>0. /\ demo \in DemoState /\ Len(demo.ids) \in Nat
      /\ DOMAIN demo.ids = 1..Len(demo.ids)
  BY IdFacts
<1> DEFINE shown == [i \in DOMAIN demo.ids |-> events[demo.ids[i]]]
<1>1. \A i \in DOMAIN demo.ids : events[demo.ids[i]] \in Result
  BY DEF PollReturns, AllNormalized
<1>2. shown \in Seq(Result)
  BY <1>0, <1>1
<1>3. demo' = [demo EXCEPT !.pc = "verify", !.results = shown]
      /\ demo.pc = "poll"
  BY DEF PollReturns
<1>4. DOMAIN shown = DOMAIN demo.ids
      /\ \A i \in DOMAIN demo.ids : shown[i] = events[demo.ids[i]]
  OBVIOUS
<1> HIDE DEF shown
<1>5. demo'.results = shown /\ RunMove
  BY <1>0, <1>2, <1>3 DEF RunMove, DemoState, Guarded
<1> QED
  BY <1>1, <1>4, <1>5

LEMMA FinishForm ==
    ASSUME DInv, Retain \/ Cleanup \/ CleanupFails
    PROVE  RunMove
<1>0. demo \in DemoState
  BY IdFacts
<1>1. /\ demo.pc = "cleanup"
      /\ \/ Finish("retained") \/ Finish("warning")
         \/ Finish("removed") /\ Ids \subseteq deleted'
  BY DEF Retain, Cleanup, CleanupFails, DeleteEvents
<1> QED
  BY <1>0, <1>1 DEF Finish, RunMove, DemoState

\* Every step of the system is a step of a service, the POST of a scene, the
\* end of one, or another step of the run.
LEMMA DemoCases ==
    ASSUME DInv, [DNext]_dvars
    PROVE  \/ ServiceStep /\ ScenesAwait /\ UNCHANGED demoVars
           \/ Post /\ UNCHANGED consumerVars
           \/ ReadReply /\ OutsideStep /\ Unseen
           \/ OutsideStep /\ RunMove
<1>1. CASE ServiceSteps /\ UNCHANGED demoVars
  BY <1>1, ServiceForm
<1>2. CASE UNCHANGED dvars
  BY <1>2 DEF dvars, vars, demoVars, storeVars, pgVars, streamVars, histVars,
     ingestVars, consumerVars, StreamsSame, StillStep, ServiceStep, ScenesAwait
<1>3. CASE DemoSteps \/ (DemoFails /\ UNCHANGED consumerVars)
  <2>1. UNCHANGED consumerVars
    BY <1>3 DEF DemoSteps
  <2>2. \/ Post \/ ReadReply
        \/ CheckIngestion \/ CheckNormalization \/ CheckDb
        \/ SubmitFails \/ PostFails \/ DemoKilled
        \/ PollReturns
        \/ PollTimesOut \/ Verify \/ Render \/ RunRaises
        \/ Retain \/ Cleanup \/ CleanupFails
    BY <1>3 DEF DemoSteps, DemoRuns, DemoFails
  <2> QED
    BY <2>1, <2>2, QuietForm, DeleteForm, CheckForm, ExitForm, GuardedForm,
       PollForm, FinishForm
<1> QED
  BY <1>1, <1>2, <1>3 DEF DNext

-----------------------------------------------------------------------------
(* DInv is inductive: one lemma for each conjunct *)

\* A request that is over stays over.
LEMMA ClosedKept ==
    ASSUME ServiceStep, NEW q \in Request, request[q].pc = "closed"
    PROVE  request'[q].pc = "closed"
<1>1. ASSUME NEW r \in Request, AnswerStep(r) \/ InsertStep(r) \/ AppendStep(r)
      PROVE  request'[q].pc = "closed"
  <2>1. q # r /\ OnlyRequest(r)
    BY <1>1 DEF AnswerStep, InsertStep, AppendStep
  <2> QED
    BY <2>1 DEF OnlyRequest
<1>2. CASE DropStep
  BY <1>2 DEF DropStep
<1>3. CASE UNCHANGED request
  BY <1>3
<1> QED
  BY <1>1, <1>2, <1>3 DEF ServiceStep, GroupStep, LocalStep, WriteStep,
     AnnounceStep, AckStep, DeliverStep, LossStep, StillStep

\* The run's own step that the services see: the request leaves "idle".
LEMMA PostRunInv ==
    ASSUME DInv, Post, UNCHANGED consumerVars
    PROVE  RunInv' /\ CleanupInv' /\ DemoTypeOK'
<1>1. /\ demo \in DemoState /\ Len(demo.ids) \in Nat
      /\ DOMAIN demo.ids = 1..Len(demo.ids)
      /\ Len(demo.ids) <= Len(Scenes)
  BY IdFacts
<1>2. /\ demo.pc = "submit" /\ demo' = [demo EXCEPT !.pc = "reply"]
      /\ UNCHANGED deleted
  BY DEF Post, Step
<1>3. /\ demo'.pc = "reply" /\ demo'.ids = demo.ids
      /\ demo'.scene = demo.scene /\ demo' \in DemoState
  BY <1>1, <1>2 DEF DemoState
<1>4. /\ demo.scene = Len(demo.ids) + 1 /\ demo.scene <= Len(Scenes)
      /\ \A i \in DOMAIN Scenes :
            i > Len(demo.ids) => request[Scenes[i]].pc = "idle"
  BY <1>2 DEF DInv, RunInv, Submitting
<1>5. \A i \in DOMAIN Scenes : i # demo.scene =>
         request'[Scenes[i]] = request[Scenes[i]]
  <2> SUFFICES ASSUME NEW i \in DOMAIN Scenes, i # demo.scene
               PROVE  request'[Scenes[i]] = request[Scenes[i]]
    OBVIOUS
  <2>1. demo.scene \in DOMAIN Scenes
    BY <1>1, <1>4, SceneFacts
  <2>2. Scenes[i] # Scenes[demo.scene] /\ Scenes[i] \in Request
    BY <2>1, ScenesAssumption, SceneFacts
  <2> QED
    BY <2>2, PostForm
<1>6. \A i \in DOMAIN demo.ids :
         /\ demo.ids[i] = RecordId(Scenes[i], 1)
         /\ request'[Scenes[i]].pc = "closed"
  <2>1. \A i \in DOMAIN demo.ids : i \in DOMAIN Scenes /\ i # demo.scene
    BY <1>1, <1>4, SceneFacts
  <2> QED
    BY <2>1, <1>5 DEF DInv, RunInv
<1>7. RunInv'
  BY <1>1, <1>3, <1>4, <1>5, <1>6 DEF RunInv, Submitting, Guarded, Preflight
<1>8. CleanupInv' /\ DemoTypeOK'
  BY <1>2, <1>3 DEF DInv, CleanupInv, DemoTypeOK, Ids
<1> QED
  BY <1>7, <1>8

\* 202: the id is noted.
LEMMA ReplyRunInv ==
    ASSUME DInv, ReadReply, OutsideStep, Unseen
    PROVE  RunInv' /\ CleanupInv' /\ DemoTypeOK'
<1> DEFINE n == Len(demo.ids)
<1> DEFINE e == RecordId(Scenes[demo.scene], 1)
<1>1. /\ demo \in DemoState /\ n \in Nat /\ demo.ids \in Seq(EventId)
      /\ DOMAIN demo.ids = 1..n /\ n <= Len(Scenes) /\ Len(Scenes) \in Nat
  BY IdFacts, SceneFacts
<1>2. /\ demo.pc = "reply" /\ request[Scenes[demo.scene]].reply = "202"
      /\ demo' = [demo EXCEPT
                    !.ids = Append(@, e), !.scene = @ + 1,
                    !.pc = IF demo.scene = Len(Scenes) THEN "poll" ELSE "submit"]
      /\ UNCHANGED <<request, deleted>>
  BY DEF ReadReply
<1>3. /\ demo.scene = n + 1 /\ demo.scene <= Len(Scenes)
      /\ \A i \in DOMAIN Scenes :
            i > n => request[Scenes[i]].pc = "idle" \/ i = demo.scene
  BY <1>2 DEF DInv, RunInv, Submitting
<1>4. demo.scene \in 1..Len(Scenes) /\ e \in EventId
      /\ Scenes[demo.scene] \in Request
  BY <1>1, <1>3, SceneFacts
<1>5. request[Scenes[demo.scene]].pc = "closed"
  BY <1>2, <1>4 DEF DInv, ServiceInv, RequestInv, TypeOK, IngestTypeOK,
     RequestState, InFlight
<1> DEFINE longer == Append(demo.ids, e)
<1>6. /\ longer \in Seq(EventId) /\ Len(longer) = n + 1
      /\ DOMAIN longer = 1..(n + 1)
      /\ \A i \in 1..n : longer[i] = demo.ids[i]
      /\ longer[n + 1] = e
  BY <1>1, <1>4
<1>7. /\ demo'.ids = longer /\ demo'.scene = demo.scene + 1
      /\ demo'.pc = IF demo.scene = Len(Scenes) THEN "poll" ELSE "submit"
  BY <1>1, <1>2 DEF DemoState
<1>8. demo' \in DemoState
  <2> HIDE DEF e, longer
  <2>1. demo' = [demo EXCEPT !.ids = longer, !.scene = @ + 1,
                    !.pc = IF demo.scene = Len(Scenes) THEN "poll" ELSE "submit"]
    BY <1>2 DEF longer
  <2>2. /\ demo.scene + 1 \in Nat
        /\ (IF demo.scene = Len(Scenes) THEN "poll" ELSE "submit")
              \in Preflight \cup {"submit", "reply"} \cup Guarded
                    \cup {"cleanup", "done"}
    BY <1>1 DEF DemoState, Guarded
  <2> QED
    BY <2>1, <2>2, <1>1, <1>6 DEF DemoState
<1>9. \A i \in 1..(n + 1) :
         /\ longer[i] = RecordId(Scenes[i], 1)
         /\ request'[Scenes[i]].pc = "closed"
  <2>1. \A i \in 1..n : /\ demo.ids[i] = RecordId(Scenes[i], 1)
                        /\ request[Scenes[i]].pc = "closed"
    BY <1>1 DEF DInv, RunInv
  <2>2. \A i \in 1..(n + 1) : i \in 1..n \/ i = n + 1
    BY <1>1
  <2>3. longer[n + 1] = RecordId(Scenes[n + 1], 1)
    BY <1>3, <1>6
  <2>4. request[Scenes[n + 1]].pc = "closed"
    BY <1>3, <1>5
  <2> QED
    BY <2>1, <2>2, <2>3, <2>4, <1>2, <1>6
<1>10. RunInv'
  <2> HIDE DEF longer, e, n
  <2>1. Len(demo'.ids) <= Len(Scenes) /\ Len(demo'.ids) = n + 1
    BY <1>3, <1>6, <1>7
  <2>2. \A i \in DOMAIN demo'.ids :
           /\ demo'.ids[i] = RecordId(Scenes[i], 1)
           /\ request'[Scenes[i]].pc = "closed"
    BY <1>6, <1>7, <1>9
  <2>3. demo'.pc \in Submitting =>
           /\ demo'.scene = Len(demo'.ids) + 1
           /\ demo'.scene <= Len(Scenes)
           /\ \A i \in DOMAIN Scenes :
                 i > Len(demo'.ids) => request'[Scenes[i]].pc = "idle"
    <3> SUFFICES ASSUME demo'.pc \in Submitting
                 PROVE  /\ demo'.scene = Len(demo'.ids) + 1
                        /\ demo'.scene <= Len(Scenes)
                        /\ \A i \in DOMAIN Scenes :
                              i > Len(demo'.ids) =>
                                  request'[Scenes[i]].pc = "idle"
      OBVIOUS
    <3>1. demo.scene # Len(Scenes)
      BY <1>7 DEF Submitting, Preflight
    <3>2. \A i \in DOMAIN Scenes : i > n + 1 => i > n /\ i # demo.scene
      BY <1>1, <1>3, SceneFacts
    <3> QED
      BY <3>1, <3>2, <2>1, <1>1, <1>2, <1>3, <1>7
  <2>4. demo'.pc \in Guarded \cup {"cleanup"} => Len(demo'.ids) = Len(Scenes)
    BY <2>1, <1>3, <1>7 DEF Guarded
  <2> QED
    BY <2>1, <2>2, <2>3, <2>4 DEF RunInv
<1>11. CleanupInv'
  <2>1. Ids \subseteq Ids'
    BY <1>1, <1>6, <1>7 DEF Ids
  <2>2. demo'.pc # "done"
    BY <1>7
  <2> QED
    BY <2>1, <2>2, <1>2 DEF DInv, CleanupInv
<1>12. DemoTypeOK'
  BY <1>2, <1>8 DEF DInv, DemoTypeOK
<1> QED
  BY <1>10, <1>11, <1>12

\* The other steps of the run.
LEMMA MoveRunInv ==
    ASSUME DInv, OutsideStep, RunMove
    PROVE  RunInv' /\ CleanupInv' /\ DemoTypeOK'
<1>1. /\ demo'.ids = demo.ids /\ demo'.scene = demo.scene
      /\ demo' \in DemoState /\ UNCHANGED request
      /\ deleted' \subseteq deleted \cup Ids /\ deleted \subseteq deleted'
  BY DEF RunMove, OutsideStep
<1>2. Ids' = Ids /\ Ids \subseteq EventId
  BY <1>1, IdFacts DEF Ids
<1>3. /\ demo'.pc \in Submitting =>
            demo.pc \in Submitting /\ demo.pc # "reply" /\ demo'.pc # "reply"
      /\ demo'.pc \in Guarded \cup {"cleanup"} => demo.pc \in Guarded
      /\ demo'.pc = "done" =>
            \/ demo.pc \in Submitting \/ demo'.exit = "killed"
            \/ demo'.report \in {"retained", "warning"}
            \/ demo.pc = "cleanup" /\ Ids \subseteq deleted'
  BY DEF RunMove, Submitting, Preflight, Guarded
<1>4. RunInv'
  BY <1>1, <1>3 DEF DInv, RunInv
<1>5. deleted' \subseteq Ids'
  BY <1>1, <1>2 DEF DInv, CleanupInv
<1>6. demo.pc \in Submitting => Len(demo.ids) < Len(Scenes)
  BY IdFacts, SceneFacts DEF DInv, RunInv
<1>7. demo.pc = "cleanup" => \A r \in Posted : RecordId(r, 1) \in Ids
  <2> SUFFICES ASSUME demo.pc = "cleanup", NEW i \in DOMAIN Scenes
               PROVE  RecordId(Scenes[i], 1) \in Ids
    BY DEF Posted
  <2>1. i \in DOMAIN demo.ids
    BY IdFacts, SceneFacts DEF DInv, RunInv
  <2>2. demo.ids[i] = RecordId(Scenes[i], 1)
    BY <2>1 DEF DInv, RunInv
  <2> QED
    BY <2>1, <2>2 DEF Ids
<1>8. CleanupInv'
  BY <1>1, <1>3, <1>5, <1>6, <1>7 DEF CleanupInv
<1>9. DemoTypeOK'
  BY <1>1, <1>2 DEF DInv, DemoTypeOK
<1> QED
  BY <1>4, <1>8, <1>9

\* A step of a service.
LEMMA ServiceRunInv ==
    ASSUME DInv, ServiceStep, ScenesAwait, UNCHANGED demoVars
    PROVE  RunInv' /\ CleanupInv' /\ DemoTypeOK'
<1>1. UNCHANGED <<demo, deleted>>
  BY DEF demoVars
<1>2. \A i \in DOMAIN demo.ids : i \in 1..Len(Scenes)
  BY IdFacts, SceneFacts
<1>3. \A i \in DOMAIN demo.ids : request'[Scenes[i]].pc = "closed"
  BY <1>2, SceneFacts, ClosedKept DEF DInv, RunInv
<1>4. \A i \in DOMAIN Scenes :
         request[Scenes[i]].pc = "idle" => request'[Scenes[i]].pc = "idle"
  BY SceneFacts DEF ScenesAwait
<1>5. RunInv'
  BY <1>1, <1>3, <1>4 DEF DInv, RunInv
<1>6. CleanupInv' /\ DemoTypeOK'
  BY <1>1 DEF DInv, CleanupInv, DemoTypeOK, Ids
<1> QED
  BY <1>5, <1>6

\* Neither a late insert nor the UPDATE of a replica brings a row back.
LEMMA DeletedStep ==
    ASSUME DInv, \/ ServiceStep /\ UNCHANGED deleted
                 \/ OutsideStep
    PROVE  DeletedStaysDeleted'
<1> SUFFICES ASSUME NEW e \in deleted' PROVE events'[e] = NoRow
  BY DEF DeletedStaysDeleted
<1>1. ASSUME e \in deleted
      PROVE  /\ events[e] = NoRow /\ e \in EventId
             /\ e[1] \in Request /\ request[e[1]].pc = "closed"
  BY <1>1, IdFacts DEF DInv, CleanupInv, DeletedStaysDeleted
<1>2. ASSUME ServiceStep, UNCHANGED deleted
      PROVE  events'[e] = NoRow
  <2>1. ASSUME NEW r \in Request, InsertStep(r)
        PROVE  events'[e] = NoRow
    <3>1. e[1] # r
      BY <1>1, <1>2, <2>1 DEF InsertStep
    <3> QED
      BY <3>1, <1>1, <1>2, <2>1 DEF InsertStep
  <2>2. ASSUME \A r \in Request : ~InsertStep(r)
        PROVE  events'[e] = NoRow
    BY <1>1, <1>2, <2>2, StepRowsKept DEF DInv
  <2> QED
    BY <2>1, <2>2
<1>3. CASE OutsideStep
  <2>1. e \in EventId
    BY <1>3, IdFacts DEF OutsideStep
  <2> QED
    BY <2>1, <1>1, <1>3 DEF OutsideStep
<1> QED
  BY <1>2, <1>3

\* A request that publishes or was accepted has its rows, up to the DELETE.
LEMMA StoredOrDeletedStep ==
    ASSUME DInv, \/ ServiceStep /\ UNCHANGED deleted
                 \/ OutsideStep
    PROVE  StoredOrDeleted'
<1> SUFFICES ASSUME NEW q \in Request, NEW i \in 1..request'[q].size,
                    request'[q].pc = "publish" \/ request'[q].reply = "202",
                    events'[<<q, i>>] = NoRow
             PROVE  <<q, i>> \in deleted'
  BY DEF StoredOrDeleted
<1>0. ServiceInv /\ ServiceInv'
  BY StepInv, OutsideServiceInv DEF DInv
<1>1. request'[q].size \in 0..MaxBatch
  BY <1>0 DEF ServiceInv, TypeOK, IngestTypeOK, RequestState
<1>2. <<q, i>> \in EventId
  BY <1>1, StoreAssumption DEF EventId
<1>3. ASSUME ServiceStep, UNCHANGED deleted
      PROVE  <<q, i>> \in deleted'
  <2>0. RowsKept
    BY <1>0, <1>3, StepRowsKept
  <2>1. ASSUME request'[q].size = request[q].size,
               request[q].pc = "publish" \/ request[q].reply = "202"
        PROVE  <<q, i>> \in deleted'
    BY <1>2, <1>3, <2>0, <2>1 DEF DInv, StoredOrDeleted, RowsKept
  <2>2. CASE UNCHANGED request
    BY <2>1, <2>2
  <2>3. ASSUME NEW r \in Request, AnswerStep(r) \/ AppendStep(r)
        PROVE  <<q, i>> \in deleted'
    <3>1. CASE q # r
      BY <3>1, <2>1, <2>3 DEF AnswerStep, AppendStep, OnlyRequest
    <3>2. CASE q = r
      BY <3>2, <1>0, <2>1, <2>3
         DEF AnswerStep, AppendStep, ServiceInv, RequestInv
    <3> QED
      BY <3>1, <3>2
  <2>4. ASSUME NEW r \in Request, InsertStep(r)
        PROVE  <<q, i>> \in deleted'
    <3>1. CASE q # r
      BY <3>1, <2>1, <2>4 DEF InsertStep, OnlyRequest
    <3>2. CASE q = r
      BY <3>2, <2>4, StoreAssumption DEF InsertStep
    <3> QED
      BY <3>1, <3>2
  <2>5. CASE DropStep
    BY <2>1, <2>5 DEF DropStep
  <2> QED
    BY <1>3, <2>2, <2>3, <2>4, <2>5
       DEF ServiceStep, GroupStep, LocalStep, WriteStep, AnnounceStep,
           AckStep, DeliverStep, LossStep, StillStep
<1>4. CASE OutsideStep
  <2>1. UNCHANGED request /\ deleted \subseteq deleted'
    BY <1>4 DEF OutsideStep
  <2>2. CASE events'[<<q, i>>] = events[<<q, i>>]
    BY <2>1, <2>2 DEF DInv, StoredOrDeleted
  <2>3. CASE events'[<<q, i>>] # events[<<q, i>>]
    BY <2>3, <1>2, <1>4 DEF OutsideStep
  <2> QED
    BY <2>2, <2>3
<1> QED
  BY <1>3, <1>4

\* So has a message.
LEMMA MissingRowStep ==
    ASSUME DInv, \/ ServiceStep /\ UNCHANGED deleted
                 \/ OutsideStep
    PROVE  MissingRowIsDeleted'
<1> SUFFICES ASSUME NEW k \in DOMAIN login_events',
                    events'[login_events'[k]] = NoRow
             PROVE  login_events'[k] \in deleted'
  BY DEF MissingRowIsDeleted
<1>0. TypeOK /\ ServiceInv
  <2>1. ServiceInv
    BY DEF DInv
  <2> QED
    BY <2>1 DEF ServiceInv
<1>1. ASSUME ServiceStep, UNCHANGED deleted
      PROVE  login_events'[k] \in deleted'
  <2>0. StreamsGrow /\ RowsKept
    BY <1>0, <1>1, StepInv, StepRowsKept
  <2>1. CASE k \in DOMAIN login_events
    BY <1>0, <1>1, <2>0, <2>1, LogKept DEF DInv, MissingRowIsDeleted, RowsKept
  <2>2. ASSUME NEW r \in Request, AppendStep(r), k \notin DOMAIN login_events
        PROVE  login_events'[k] \in deleted'
    <3>1. login_events'[k] = <<r, request[r].next>>
      <4>1. /\ DOMAIN login_events' =
                  DOMAIN login_events \cup {Len(login_events) + 1}
            /\ login_events'[Len(login_events) + 1] = <<r, request[r].next>>
        BY <1>0, <2>2, AppendFrontier
      <4> QED
        BY <4>1, <2>2
    <3>2. events[<<r, request[r].next>>] = NoRow =>
             <<r, request[r].next>> \in deleted
      BY <2>2 DEF DInv, StoredOrDeleted, AppendStep
    <3> QED
      BY <3>1, <3>2, <1>1, <2>2 DEF AppendStep
  <2> QED
    BY <1>1, <2>1, <2>2
       DEF ServiceStep, AnswerStep, DropStep, InsertStep, GroupStep, LocalStep,
           WriteStep, AnnounceStep, AckStep, DeliverStep, LossStep, StillStep,
           StreamsSame
<1>2. CASE OutsideStep
  <2>1. UNCHANGED login_events /\ deleted \subseteq deleted'
    BY <1>2 DEF OutsideStep, StreamsSame
  <2>2. login_events[k] \in EventId
    BY <1>0, <2>1 DEF TypeOK, StoreTypeOK
  <2>3. CASE events'[login_events[k]] = events[login_events[k]]
    BY <2>1, <2>3 DEF DInv, MissingRowIsDeleted
  <2>4. CASE events'[login_events[k]] # events[login_events[k]]
    BY <2>1, <2>2, <2>4, <1>2 DEF OutsideStep
  <2> QED
    BY <2>3, <2>4
<1> QED
  BY <1>1, <1>2

LEMMA InitDInv == DInit => DInv
<1> SUFFICES ASSUME DInit PROVE DInv
  OBVIOUS
<1>1. ServiceInv
  BY InitServiceInv DEF DInit
<1>2. PICK keep \in BOOLEAN :
         demo = [pc |-> "ingestion", keep |-> keep, scene |-> 1,
                 ids |-> <<>>, results |-> <<>>,
                 exit |-> "none", report |-> "none"]
  BY DEF DInit, DemoInit
<1>3. deleted = {} /\ login_events = <<>>
      /\ \A r \in Request : request[r].pc = "idle" /\ request[r].reply = "none"
  BY DEF DInit, DemoInit, Init, StoreInit, IngestInit
<1>4. DemoTypeOK
  BY <1>2, <1>3 DEF DemoTypeOK, DemoState, Preflight
<1>5. RunInv
  BY <1>2, <1>3, SceneFacts DEF RunInv, Submitting, Preflight, Guarded
<1>6. CleanupInv /\ DeletedStaysDeleted
  BY <1>2, <1>3 DEF CleanupInv, DeletedStaysDeleted
<1>7. StoredOrDeleted /\ MissingRowIsDeleted
  BY <1>3 DEF StoredOrDeleted, MissingRowIsDeleted
<1> QED
  BY <1>1, <1>4, <1>5, <1>6, <1>7 DEF DInv

LEMMA NextDInv == DInv /\ [DNext]_dvars => DInv'
<1> SUFFICES ASSUME DInv, [DNext]_dvars PROVE DInv'
  OBVIOUS
<1>1. \/ ServiceStep /\ UNCHANGED deleted
      \/ OutsideStep
  BY DemoCases, PostForm DEF demoVars, Post
<1>2. ServiceInv'
  BY <1>1, StepInv, OutsideServiceInv DEF DInv
<1>3. RunInv' /\ CleanupInv' /\ DemoTypeOK'
  BY DemoCases, ServiceRunInv, PostRunInv, ReplyRunInv, MoveRunInv
<1> QED
  BY <1>1, <1>2, <1>3, DeletedStep, StoredOrDeletedStep, MissingRowStep DEF DInv

LEMMA SpecDInv == DSpec => []DInv
  BY InitDInv, NextDInv, PTL DEF DSpec

-----------------------------------------------------------------------------
(* Theorems *)

\* Type correctness of the services and the run together.
THEOREM DemoTypeCorrect == DSpec => []DTypeOK
<1>1. DInv => DTypeOK
  BY DEF DInv, ServiceInv, DTypeOK
<1> QED
  BY <1>1, SpecDInv, PTL

\* No row of the run comes back after its DELETE, whatever a replica holds
\* of its events and whatever became of their requests.
THEOREM NothingReturns == DSpec => []DeletedStaysDeleted
<1>1. DInv => DeletedStaysDeleted
  BY DEF DInv
<1> QED
  BY <1>1, SpecDInv, PTL

\* Persist before publish holds up to the DELETE: no other message is ever
\* without its row.
THEOREM OnlyTheDeleteTakesRows == DSpec => []MissingRowIsDeleted
<1>1. DInv => MissingRowIsDeleted
  BY DEF DInv
<1> QED
  BY <1>1, SpecDInv, PTL

\* 202 means durable for every other client: the run deletes its own rows.
THEOREM OtherClientsUntouched == DSpec => []OthersAreKept
<1>1. DInv => OthersAreKept
  <2> SUFFICES ASSUME DInv, NEW r \in Others, request[r].reply = "202",
                      NEW i \in 1..request[r].size
               PROVE  events[<<r, i>>] # NoRow
    BY DEF OthersAreKept, Records, RecordId
  <2>1. <<r, i>> \notin deleted
    BY IdFacts DEF DInv, CleanupInv, Others
  <2> QED
    BY <2>1 DEF DInv, StoredOrDeleted, Others
<1> QED
  BY <1>1, SpecDInv, PTL

\* A run that is over has removed its rows, or said why not.
THEOREM RunCleansUp == DSpec => []LeftoversExplained
<1>1. DInv => LeftoversExplained
  BY DEF DInv, CleanupInv, DeletedStaysDeleted, LeftoversExplained
<1> QED
  BY <1>1, SpecDInv, PTL

-----------------------------------------------------------------------------
(* What the run shows, when no XADD is sent twice *)

LEMMA NextLedgerInvDemo ==
    ASSUME MaxResends = 0
    PROVE  DInv /\ LedgerInv /\ [DNext]_dvars => LedgerInv'
<1> SUFFICES ASSUME DInv, LedgerInv, [DNext]_dvars PROVE LedgerInv'
  OBVIOUS
<1>1. ServiceStep \/ OutsideStep
  BY DemoCases, PostForm
<1> QED
  BY <1>1, LedgerStep, OutsideLedgerInv DEF DInv

\* The poll returns a row that is written: its message is touched, and what
\* is announced of it, or about to be, is what the row holds.
LEMMA PollShown ==
    ASSUME DInv, LedgerInv, PollReturns, OutsideStep
    PROVE  ShownInv'
<1> SUFFICES ASSUME NEW i \in DOMAIN demo.ids
             PROVE  /\ \A k \in DOMAIN login_events :
                          login_events[k] = demo.ids[i] => ~Untouched(k)
                    /\ \A w \in Worker :
                          worker[w].pc = "publish" /\ Current(w) = demo.ids[i] =>
                              worker[w].value = events[demo.ids[i]]
                    /\ \A m \in DOMAIN normalized_events :
                          normalized_events[m].event = demo.ids[i] =>
                              normalized_events[m].value = events[demo.ids[i]]
  <2>1. /\ UNCHANGED <<login_events, normalized_events, worker>>
        /\ UNCHANGED <<trimmed, lastDelivered>>
        /\ demo'.ids = demo.ids
        /\ DOMAIN demo'.results = DOMAIN demo.ids
        /\ \A j \in DOMAIN demo.ids : demo'.results[j] = events[demo.ids[j]]
    BY PollForm DEF OutsideStep, StreamsSame, RunMove
  <2>2. /\ \A k : Untouched(k)' <=> Untouched(k)
        /\ \A w : Current(w)' = Current(w)
    BY <2>1 DEF Untouched, Frontier, Held, Current
  <2> QED
    BY <2>1, <2>2 DEF ShownInv, Untouched, Frontier, Held, Current
<1>1. events[demo.ids[i]] \in Result
  BY PollForm
<1>2. events[demo.ids[i]] # NoRow
  BY <1>1, StoreAssumption
<1> QED
  BY <1>1, <1>2 DEF LedgerInv

\* A step of a service.
LEMMA ServiceShown ==
    ASSUME DInv, LedgerInv, ShownInv, MaxResends = 0, ServiceStep,
           demo'.results = demo.results, demo'.ids = demo.ids
    PROVE  ShownInv'
<1> SUFFICES ASSUME NEW i \in DOMAIN demo.results
             PROVE  /\ i \in DOMAIN demo.ids
                    /\ \A k \in DOMAIN login_events' :
                          login_events'[k] = demo.ids[i] => ~Untouched(k)'
                    /\ \A w \in Worker :
                          worker'[w].pc = "publish" /\ Current(w)' = demo.ids[i] =>
                              worker'[w].value = demo.results[i]
                    /\ \A m \in DOMAIN normalized_events' :
                          normalized_events'[m].event = demo.ids[i] =>
                              normalized_events'[m].value = demo.results[i]
  BY DEF ShownInv
<1>0. ServiceInv /\ TypeOK /\ StreamsGrow /\ ServiceInv'
  BY StepInv DEF DInv, ServiceInv
<1>1. PICK e \in EventId : e = demo.ids[i]
  BY IdFacts DEF ShownInv
<1>2. /\ i \in DOMAIN demo.ids
      /\ \A k \in DOMAIN login_events : login_events[k] = e => ~Untouched(k)
      /\ \A w \in Worker : worker[w].pc = "publish" /\ Current(w) = e =>
            worker[w].value = demo.results[i]
      /\ \A m \in DOMAIN normalized_events : normalized_events[m].event = e =>
            normalized_events[m].value = demo.results[i]
  BY <1>1 DEF ShownInv
<1>3. e[1] \in Request /\ request[e[1]].pc = "closed"
  BY <1>1, <1>2, IdFacts DEF Ids
<1>4. ASSUME NEW k \in DOMAIN login_events', login_events'[k] = e
      PROVE  ~Untouched(k)'
  <2>1. CASE k \in DOMAIN login_events
    BY <2>1, <1>0, <1>2, <1>4, LogKept, UntouchedBefore
  <2>2. ASSUME NEW r \in Request, AppendStep(r), k \notin DOMAIN login_events
        PROVE  FALSE
    <3>1. /\ DOMAIN login_events' =
                DOMAIN login_events \cup {Len(login_events) + 1}
          /\ login_events'[Len(login_events) + 1] = <<r, request[r].next>>
      BY <1>0, <2>2, AppendFrontier
    <3>2. e = <<r, request[r].next>>
      BY <3>1, <2>2, <1>4
    <3> QED
      BY <3>2, <2>2, <1>3 DEF AppendStep
  <2> QED
    BY <2>1, <2>2
       DEF ServiceStep, AnswerStep, DropStep, InsertStep, GroupStep, LocalStep,
           WriteStep, AnnounceStep, AckStep, DeliverStep, LossStep, StillStep,
           StreamsSame
<1>5. ASSUME NEW u \in Worker, worker'[u].pc = "publish", Current(u)' = e
      PROVE  worker'[u].value = demo.results[i]
  <2>1. CASE worker'[u] = worker[u]
    BY <2>1, <1>0, <1>2, <1>5, WorkerKept DEF Busy
  <2>2. ASSUME NEW w \in Worker, u # w, OnlyWorker(w)
        PROVE  worker'[u].value = demo.results[i]
    BY <2>1, <2>2 DEF OnlyWorker
  <2>3. ~WriteStep(u)
    <3> SUFFICES ASSUME WriteStep(u) PROVE FALSE
      OBVIOUS
    <3>1. GoesTo(u, "publish") /\ UNCHANGED login_events
      BY <1>5 DEF WriteStep, MovesOn, Busy, StreamsSame
    <3>2. Current(u) = e
      BY <3>1, <1>5 DEF GoesTo, Current
    <3>3. /\ worker[u].cur \in DOMAIN login_events
          /\ Untouched(worker[u].cur)
          /\ login_events[worker[u].cur] = e
      BY <3>2, <1>0, CurrentOK, CurrentUntouched DEF WriteStep, Busy, Current
    <3> QED
      BY <3>3, <1>2
  <2>4. CASE LocalStep(u) \/ AnnounceStep(u) \/ AckStep(u) \/ GroupStep(u)
             \/ \E hi \in Nat : DeliverStep(u, hi)
    <3>1. worker'[u] = worker[u]
      BY <2>4, <1>5 DEF LocalStep, AnnounceStep, AckStep, GroupStep,
         DeliverStep, MovesOn, GoesTo, Busy
    <3> QED
      BY <3>1, <2>1
  <2> QED
    BY <2>1, <2>2, <2>3, <2>4
       DEF ServiceStep, AnswerStep, DropStep, InsertStep, AppendStep,
           GroupStep, LocalStep, WriteStep, AnnounceStep, AckStep,
           DeliverStep, LossStep, StillStep
<1>6. ASSUME NEW m \in DOMAIN normalized_events',
             normalized_events'[m].event = e
      PROVE  normalized_events'[m].value = demo.results[i]
  <2>1. CASE m \in DOMAIN normalized_events
    BY <2>1, <1>0, <1>2, <1>6, NormalizedKept
  <2>2. ASSUME NEW w \in Worker, AnnounceStep(w),
               m \notin DOMAIN normalized_events
        PROVE  normalized_events'[m].value = demo.results[i]
    <3>1. /\ normalized_events'[m].event = Current(w)
          /\ normalized_events'[m].value = worker[w].value
      BY <1>0, <2>2, AnnounceOK
    <3> QED
      BY <3>1, <2>2, <1>2, <1>6 DEF AnnounceStep
  <2> QED
    BY <2>1, <2>2
       DEF ServiceStep, AnswerStep, DropStep, InsertStep, AppendStep,
           GroupStep, LocalStep, WriteStep, AckStep, DeliverStep, LossStep,
           StillStep, StreamsSame
<1> QED
  BY <1>1, <1>2, <1>4, <1>5, <1>6

\* A step of the run that leaves the results alone.
LEMMA OutsideShown ==
    ASSUME ShownInv, OutsideStep, demo'.results = demo.results,
           \A i \in DOMAIN demo.ids :
              i \in DOMAIN demo'.ids /\ demo'.ids[i] = demo.ids[i]
    PROVE  ShownInv'
<1>1. /\ UNCHANGED <<login_events, normalized_events, worker>>
      /\ UNCHANGED <<trimmed, lastDelivered>>
  BY DEF OutsideStep, StreamsSame
<1> QED
  BY <1>1 DEF ShownInv, Untouched, Frontier, Held, Current

LEMMA NextShownInv ==
    ASSUME MaxResends = 0
    PROVE  DInv /\ LedgerInv /\ ShownInv /\ [DNext]_dvars => ShownInv'
<1> SUFFICES ASSUME DInv, LedgerInv, ShownInv, [DNext]_dvars PROVE ShownInv'
  OBVIOUS
<1>0. demo \in DemoState /\ demo.ids \in Seq(EventId)
  BY IdFacts
<1>1. CASE ServiceStep /\ UNCHANGED demoVars
  BY <1>1, ServiceShown DEF demoVars
<1>2. CASE Post /\ UNCHANGED consumerVars
  <2>1. demo'.results = demo.results /\ demo'.ids = demo.ids
    BY <1>0, <1>2 DEF Post, Step, DemoState
  <2> QED
    BY <2>1, <1>2, PostForm, ServiceShown
<1>3. CASE ReadReply /\ OutsideStep
  <2> DEFINE e == RecordId(Scenes[demo.scene], 1)
  <2>1. /\ demo'.results = demo.results
        /\ demo'.ids = Append(demo.ids, e)
    BY <1>0, <1>3 DEF ReadReply, DemoState
  <2> HIDE DEF e
  <2>2. \A i \in DOMAIN demo.ids :
           i \in DOMAIN demo'.ids /\ demo'.ids[i] = demo.ids[i]
    BY <2>1, <1>0
  <2> QED
    BY <2>1, <2>2, <1>3, OutsideShown
<1>4. CASE OutsideStep /\ RunMove
  <2>1. CASE PollReturns
    BY <2>1, <1>4, PollShown
  <2>2. CASE demo'.results = demo.results
    BY <2>2, <1>4, OutsideShown DEF RunMove
  <2> QED
    BY <2>1, <2>2, <1>4 DEF RunMove
<1> QED
  BY <1>1, <1>2, <1>3, <1>4, DemoCases

\* What the run verifies and shows of a scene is what the pipeline announces
\* of it, before the poll or after the DELETE.
THEOREM RunShowsTheAnnouncement ==
    ASSUME MaxResends = 0
    PROVE  DSpec => []ShownIsAnnounced
<1>1. DInit => LedgerInv /\ ShownInv
  <2>1. DInit => LedgerInv
    BY InitLedgerInv DEF DInit
  <2>2. DInit => ShownInv
    BY DEF DInit, DemoInit, ShownInv
  <2> QED
    BY <2>1, <2>2
<1>2. DInv /\ LedgerInv /\ ShownInv /\ [DNext]_dvars => LedgerInv' /\ ShownInv'
  BY NextLedgerInvDemo, NextShownInv
<1>3. ShownInv => ShownIsAnnounced
  BY DEF ShownInv, ShownIsAnnounced
<1> QED
  BY <1>1, <1>2, <1>3, SpecDInv, PTL DEF DSpec
=============================================================================
