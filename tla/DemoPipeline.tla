---------------------------- MODULE DemoPipeline ----------------------------
(***************************************************************************)
(* A run of the demo client against the pipeline, beside the requests of   *)
(* other clients.  It is the only part of the repository that deletes      *)
(* rows, and it does so without a word to the services: what Pipeline      *)
(* shows of the table holds here up to the rows of the run.                *)
(***************************************************************************)
EXTENDS Pipeline, DemoClient

dvars == <<vars, demoVars>>

Posted == {Scenes[i] : i \in DOMAIN Scenes}

Others == Request \ Posted

DTypeOK == TypeOK /\ DemoTypeOK

DInit == Init /\ DemoInit

\* A replica that is not down serves /health.
CheckIngestion == CheckHealth("ingestion", "normalization", TRUE, FALSE)

CheckNormalization ==
    CheckHealth("normalization", "database",
                \E w \in Worker : worker[w].pc # "down",
                \E w \in Worker : worker[w].pc = "down")

DemoSteps ==
    /\ DemoRuns \/ CheckIngestion \/ CheckNormalization
    /\ UNCHANGED consumerVars

\* The services of Pipeline; the requests of the scenes are received when
\* the run posts them.
ServiceSteps ==
    \/ /\ \/ \E r \in Others : Receive(r) \/ Reject(r)
          \/ \E r \in Request : Handle(r)
          \/ IngestionCrash
       /\ UNCHANGED consumerVars
    \/ ConsumerNext /\ UNCHANGED ingestVars
    \/ RedisLosesStream /\ UNCHANGED <<ingestVars, consumerVars>>

DNext ==
    \/ DemoSteps
    \/ DemoFails /\ UNCHANGED consumerVars
    \/ ServiceSteps /\ UNCHANGED demoVars

DSpec == DInit /\ [][DNext]_dvars

(***************************************************************************)
(* Fairness: that of Pipeline for the services; the run goes on, since its *)
(* requests have timeouts, its poll has a deadline, and a connection to    *)
(* the database answers or raises.                                         *)
(***************************************************************************)
DFairness ==
    /\ \A r \in Request :
          WF_dvars((Persist(r) \/ PublishOne(r) \/ Accept(r))
                     /\ UNCHANGED <<consumerVars, demoVars>>)
    /\ \A w \in Worker :
          /\ WF_dvars(Run(w) /\ UNCHANGED <<ingestVars, demoVars>>)
          /\ WF_dvars(Start(w) /\ UNCHANGED <<ingestVars, demoVars>>)
    /\ WF_dvars(DemoSteps)

DFairSpec == DSpec /\ DFairness

-----------------------------------------------------------------------------
(* Safety *)

\* What the DELETE removed stays removed: a replica that handles the event
\* at that moment, or a request of the run that was given up, writes no row
\* again (repository.write is an UPDATE, the insert comes before the 202).
DeletedStaysDeleted == \A e \in deleted : events[e] = NoRow

\* An event on the stream has no row only if the run deleted it: beside the
\* DELETE, the "guaranteed to exist" of repository.write holds.
MissingRowIsDeleted ==
    \A k \in DOMAIN login_events :
        events[login_events[k]] = NoRow => login_events[k] \in deleted

\* The run removes its own rows only: what another client was told is
\* stored stays stored.
OthersAreKept ==
    \A r \in Others :
        request[r].reply = "202" =>
            \A e \in Records(r) : events[e] # NoRow

\* "Whatever happens ... the finally block cleans them up": a run that ended
\* leaves the row of a scene behind only if it was asked to, was killed,
\* warned about its DELETE, or never got past its submission, which is
\* outside the try block.
LeftoversExplained ==
    demo.pc = "done" /\ (\E r \in Posted : events[RecordId(r, 1)] # NoRow) =>
        \/ demo.report \in {"retained", "warning"}
        \/ demo.exit = "killed"
        \/ Len(demo.ids) < Len(Scenes)

\* What the run verifies and shows for a scene is what normalized_events
\* carries for it, be it announced before the poll or after the DELETE.
\* (As AnnouncedMatchesRow: without repeated XADDs.)
ShownIsAnnounced ==
    \A i \in DOMAIN demo.results : \A m \in DOMAIN normalized_events :
        normalized_events[m].event = demo.ids[i] =>
            normalized_events[m].value = demo.results[i]

-----------------------------------------------------------------------------
(* The inductive invariants behind the theorems *)

Submitting == Preflight \cup {"submit", "reply"}

\* The run has noted the ids of the scenes it has posted, whose requests are
\* over; nobody else sends the requests of the scenes to come.
RunInv ==
    /\ Len(demo.ids) <= Len(Scenes)
    /\ \A i \in DOMAIN demo.ids :
          /\ demo.ids[i] = RecordId(Scenes[i], 1)
          /\ request[Scenes[i]].pc = "closed"
    /\ demo.pc \in Submitting =>
          /\ demo.scene = Len(demo.ids) + 1
          /\ demo.scene <= Len(Scenes)
          /\ \A i \in DOMAIN Scenes :
                i > Len(demo.ids) =>
                    \/ request[Scenes[i]].pc = "idle"
                    \/ demo.pc = "reply" /\ i = demo.scene
    /\ demo.pc \in Guarded \cup {"cleanup"} => Len(demo.ids) = Len(Scenes)

\* Only what was noted is deleted, and all of it unless there is a reason.
CleanupInv ==
    /\ deleted \subseteq Ids
    /\ demo.pc = "done" =>
          \/ demo.report \in {"retained", "warning"}
          \/ demo.exit = "killed"
          \/ Len(demo.ids) < Len(Scenes)
          \/ \A r \in Posted : RecordId(r, 1) \in deleted

\* StoredInv of Pipeline, up to the DELETE.
StoredOrDeleted ==
    \A r \in Request :
        request[r].pc = "publish" \/ request[r].reply = "202" =>
            \A i \in 1..request[r].size :
                events[<<r, i>>] = NoRow => <<r, i>> \in deleted

DInv ==
    /\ ServiceInv
    /\ DemoTypeOK
    /\ RunInv
    /\ CleanupInv
    /\ DeletedStaysDeleted
    /\ StoredOrDeleted
    /\ MissingRowIsDeleted

\* Behind ShownIsAnnounced: the row of a result that is shown was written,
\* so no replica will write it, or has still to announce something else.
ShownInv ==
    \A i \in DOMAIN demo.results :
        /\ i \in DOMAIN demo.ids
        /\ \A k \in DOMAIN login_events :
              login_events[k] = demo.ids[i] => ~Untouched(k)
        /\ \A w \in Worker :
              worker[w].pc = "publish" /\ Current(w) = demo.ids[i] =>
                  worker[w].value = demo.results[i]
        /\ \A m \in DOMAIN normalized_events :
              normalized_events[m].event = demo.ids[i] =>
                  normalized_events[m].value = demo.results[i]

-----------------------------------------------------------------------------
(* Liveness *)

\* The run ends, whatever becomes of the services and of its events.
RunEnds == <>(demo.pc = "done")

\* The DELETE stalls no replica: unless something failed, the message of a
\* deleted event is announced and acknowledged like any other.
DeletedIsAcknowledged ==
    \A e \in EventId :
        InStream(e) ~>
            \/ Announced(e) /\ \E k \in acked : login_events[k] = e
            \/ Failed
=============================================================================
