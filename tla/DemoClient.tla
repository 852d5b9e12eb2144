----------------------------- MODULE DemoClient -----------------------------
(***************************************************************************)
(* The demo client, demo/demo_normalization.py: a run checks that the      *)
(* services are up, posts its scenes one after the other, polls the table  *)
(* events until every scene is normalized or the deadline passes, verifies *)
(* and renders the results, and in a finally block deletes its rows.       *)
(* It is a process of its own: every step below interleaves with the       *)
(* requests it sent and with the replicas that normalize its events.       *)
(***************************************************************************)
EXTENDS EventIngestion

CONSTANT Scenes    \* SCENES: the requests the run posts, in order

ASSUME ScenesAssumption ==
    /\ Scenes \in Seq(Request) \ {<<>>}
    /\ \A i, j \in DOMAIN Scenes : Scenes[i] = Scenes[j] => i = j

VARIABLES
    demo,          \* the run
    deleted        \* history: the events whose rows a DELETE covered

demoVars == <<demo, deleted>>

Preflight == {"ingestion", "normalization", "database"}

\* The part of main() inside try: its finally block runs on every way out.
Guarded == {"poll", "verify", "render"}

DemoState ==
    [pc      : Preflight \cup {"submit", "reply"} \cup Guarded
                  \cup {"cleanup", "done"},
     keep    : BOOLEAN,           \* --keep
     scene   : Nat,               \* number of the scene being submitted
     ids     : Seq(EventId),      \* event_ids
     results : Seq(Result),       \* what poll_results returned
     exit    : {"none", "0", "1", "killed"},
     report  : {"none", "removed", "retained", "warning"}]

DemoTypeOK ==
    /\ demo \in DemoState
    /\ deleted \in SUBSET EventId

DemoInit ==
    /\ \E keep \in BOOLEAN :
          demo = [pc |-> "ingestion", keep |-> keep, scene |-> 1,
                  ids |-> <<>>, results |-> <<>>,
                  exit |-> "none", report |-> "none"]
    /\ deleted = {}

Step(pc) == demo' = [demo EXCEPT !.pc = pc]

\* sys.exit outside the try block: the process ends there.
Exit(code) == demo' = [demo EXCEPT !.pc = "done", !.exit = code]

\* Leaving the try block, by sys.exit, an exception or its end.
Finally(code) == demo' = [demo EXCEPT !.pc = "cleanup", !.exit = code]

-----------------------------------------------------------------------------
(* run_preflight *)

\* GET /health of both services: SELECT 1, then PING; the answer is 200
\* whatever they find.
health(pg_ok, redis_ok) ==
    IF ~pg_ok THEN "unhealthy" ELSE IF ~redis_ok THEN "degraded" ELSE "healthy"

\* _check_health: a service that cannot be reached, or reports anything but
\* "healthy", ends the run.  The probe says nothing of the consumer task or
\* of the consumer group.
CheckHealth(here, next, up, unreachable) ==
    /\ demo.pc = here
    /\ \/ /\ up
          /\ \E pg_ok, redis_ok \in BOOLEAN :
                /\ IF pg_ok /\ redis_ok THEN UNCHANGED spent ELSE Fault
                /\ IF health(pg_ok, redis_ok) = "healthy" THEN Step(next)
                                                          ELSE Exit("1")
       \/ /\ unreachable
          /\ Exit("1")
          /\ UNCHANGED spent
    /\ UNCHANGED <<pgVars, streamVars, normalized_events, histVars, request,
                   deleted>>

\* _check_db: SELECT 1.
CheckDb ==
    /\ demo.pc = "database"
    /\ \/ Step("submit") /\ UNCHANGED spent
       \/ Exit("1") /\ Fault
    /\ UNCHANGED <<pgVars, streamVars, normalized_events, histVars, request,
                   deleted>>

-----------------------------------------------------------------------------
(* submit_scenes *)

\* POST /events/ingest with one valid event: the service starts to handle it.
Post ==
    /\ demo.pc = "submit"
    /\ request' = [request EXCEPT ![Scenes[demo.scene]].pc = "persist",
                                  ![Scenes[demo.scene]].size = 1]
    /\ Step("reply")
    /\ UNCHANGED <<storeVars, deleted>>

\* 202: the id is noted, and the next scene is posted.
ReadReply ==
    /\ demo.pc = "reply"
    /\ request[Scenes[demo.scene]].reply = "202"
    /\ demo' = [demo EXCEPT
                  !.ids = Append(@, RecordId(Scenes[demo.scene], 1)),
                  !.scene = @ + 1,
                  !.pc = IF demo.scene = Len(Scenes) THEN "poll" ELSE "submit"]
    /\ UNCHANGED <<storeVars, request, deleted>>

\* The answer is not a 2xx, the connection breaks, or ten seconds pass, in
\* which case the service goes on with the request and may store it yet.
\* sys.exit: the rows of the scenes so far stay.
SubmitFails ==
    /\ demo.pc = "reply"
    /\ request[Scenes[demo.scene]].reply # "202"
    /\ Exit("1")
    /\ UNCHANGED <<storeVars, request, deleted>>

\* The POST does not reach the service.
PostFails ==
    /\ demo.pc = "submit"
    /\ Fault
    /\ Exit("1")
    /\ UNCHANGED <<pgVars, streamVars, normalized_events, histVars, request,
                   deleted>>

-----------------------------------------------------------------------------
(* main's try block *)

\* POLL_QUERY: every captured id has non-null normalized_attributes.
AllNormalized == \A i \in DOMAIN demo.ids : events[demo.ids[i]] \in Result

\* Seeded fault: the rows in the order of the answer, not of event_ids.
PollReturnsAnyOrder ==
    /\ demo.pc = "poll"
    /\ AllNormalized
    /\ \E p \in [DOMAIN demo.ids -> DOMAIN demo.ids] :
          /\ {p[i] : i \in DOMAIN demo.ids} = DOMAIN demo.ids
          /\ demo' = [demo EXCEPT
                        !.pc = "verify",
                        !.results = [i \in DOMAIN demo.ids |->
                                        events[demo.ids[p[i]]]]]
    /\ UNCHANGED <<storeVars, request, deleted>>

\* Results in submission order.
PollReturns ==
    /\ demo.pc = "poll"
    /\ AllNormalized
    /\ demo' = [demo EXCEPT
                  !.pc = "verify",
                  !.results = [i \in DOMAIN demo.ids |-> events[demo.ids[i]]]]
    /\ UNCHANGED <<storeVars, request, deleted>>

\* Seeded fault: the timeout leaves the process without the finally block.
PollTimesOutExits ==
    /\ demo.pc = "poll"
    /\ ~AllNormalized
    /\ Exit("1")
    /\ UNCHANGED <<storeVars, request, deleted>>

\* Seeded fault: no deadline.
PollNeverTimesOut ==
    /\ FALSE
    /\ UNCHANGED <<storeVars, request, demoVars>>

\* The deadline has passed and the last SELECT found a row without
\* attributes: sys.exit(1), through finally.
PollTimesOut ==
    /\ demo.pc = "poll"
    /\ ~AllNormalized
    /\ Finally("1")
    /\ UNCHANGED <<storeVars, request, deleted>>

\* verify_results (module DemoVerification) finds no problem, or is skipped
\* with --skip-verify; or it finds one, and nothing is rendered.
Verify ==
    /\ demo.pc = "verify"
    /\ Step("render") \/ Finally("1")
    /\ UNCHANGED <<storeVars, request, deleted>>

Render ==
    /\ demo.pc = "render"
    /\ Finally("0")
    /\ UNCHANGED <<storeVars, request, deleted>>

\* A SELECT raises, or an exception or an interrupt leaves the try block.
RunRaises ==
    /\ demo.pc \in Guarded
    /\ Fault
    /\ Finally("1")
    /\ UNCHANGED <<pgVars, streamVars, normalized_events, histVars, request,
                   deleted>>

-----------------------------------------------------------------------------
(* The finally block *)

Ids == {demo.ids[i] : i \in DOMAIN demo.ids}

Finish(report) == demo' = [demo EXCEPT !.pc = "done", !.report = report]

Retain ==
    /\ demo.pc = "cleanup"
    /\ demo.keep
    /\ Finish("retained")
    /\ UNCHANGED <<storeVars, request, deleted>>

\* Seeded fault: every row of a synthetic event goes.
DeleteEventsSynthetic ==
    /\ events' = [e \in EventId |-> NoRow]
    /\ deleted' = deleted \cup Ids

\* CLEANUP_QUERY: DELETE FROM events WHERE id = ANY(ids).
DeleteEvents ==
    /\ events' = [e \in EventId |-> IF e \in Ids THEN NoRow ELSE events[e]]
    /\ deleted' = deleted \cup Ids

Cleanup ==
    /\ demo.pc = "cleanup"
    /\ ~demo.keep
    /\ DeleteEvents
    /\ Finish("removed")
    /\ UNCHANGED <<streamVars, normalized_events, histVars, spent, request>>

\* The DELETE raises, executed or not: a warning is printed.
CleanupFails ==
    /\ demo.pc = "cleanup"
    /\ ~demo.keep
    /\ Fault
    /\ DeleteEvents \/ UNCHANGED <<events, deleted>>
    /\ Finish("warning")
    /\ UNCHANGED <<streamVars, normalized_events, histVars, request>>

\* The process is killed.
DemoKilled ==
    /\ demo.pc # "done"
    /\ Crash
    /\ Exit("killed")
    /\ UNCHANGED <<pgVars, streamVars, normalized_events, histVars, request,
                   deleted>>

-----------------------------------------------------------------------------

\* What the run does when nothing fails but its own deadlines.
DemoRuns ==
    \/ CheckDb
    \/ Post
    \/ ReadReply
    \/ SubmitFails
    \/ PollReturns
    \/ PollTimesOut
    \/ Verify
    \/ Render
    \/ Retain
    \/ Cleanup

DemoFails == PostFails \/ RunRaises \/ CleanupFails \/ DemoKilled

=============================================================================
