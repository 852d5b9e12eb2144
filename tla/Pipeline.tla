------------------------------ MODULE Pipeline ------------------------------
(***************************************************************************)
(* event-ingestion and identity-normalization over their shared stores:    *)
(* a login event from the HTTP request to normalized_events.               *)
(***************************************************************************)
EXTENDS EventIngestion, NormalizationConsumer

vars == <<storeVars, ingestVars, consumerVars>>

TypeOK == StoreTypeOK /\ IngestTypeOK /\ ConsumerTypeOK

Init == StoreInit /\ IngestInit /\ ConsumerInit

Next ==
    \/ IngestNext /\ UNCHANGED consumerVars
    \/ ConsumerNext /\ UNCHANGED ingestVars
    \/ RedisLosesStream /\ UNCHANGED <<ingestVars, consumerVars>>

Spec == Init /\ [][Next]_vars

(***************************************************************************)
(* Fairness.  A request that is being handled goes on: each await of the   *)
(* handler ends, with an answer or an exception.  The consumer loop runs   *)
(* forever in its task.  A replica that is down is started again.  No      *)
(* failure is fair.                                                        *)
(***************************************************************************)
Fairness ==
    /\ \A r \in Request :
          WF_vars((Persist(r) \/ PublishOne(r) \/ Accept(r))
                    /\ UNCHANGED consumerVars)
    /\ \A w \in Worker :
          /\ WF_vars(Run(w) /\ UNCHANGED ingestVars)
          /\ WF_vars(Start(w) /\ UNCHANGED ingestVars)

FairSpec == Spec /\ Fairness

-----------------------------------------------------------------------------
(* Safety *)

\* Persist before publish: the event of every message ever put on
\* login_events has a row.  This is the "guaranteed to exist" that
\* repository.write's blind UPDATE relies on.
StreamEntryHasRow ==
    \A k \in DOMAIN login_events : events[login_events[k]] # NoRow

\* A client that was told 4xx or 5xx, and may send its events again, never
\* has them on the stream: the failure of a publish is never reported.
RefusedNeverPublished ==
    \A r \in Request :
        request[r].reply \in {"422", "500"} =>
            \A k \in DOMAIN login_events : login_events[k][1] # r

\* 202 means durable: every record of an accepted request has its row, and
\* keeps it through whatever happens to Redis and the consumers.
AcceptedIsStored ==
    \A r \in Request :
        request[r].reply = "202" =>
            \A e \in Records(r) : events[e] # NoRow

\* A row is left behind unpublished only after a failure, and a crash shows:
\* as long as no call failed, the stored records of a request that is over
\* are all on the stream, unless its connection broke.  Nothing in the code
\* finds such rows again.
StrandedIsSignalled ==
    spent.faults = 0 =>
        \A e \in EventId :
            /\ events[e] # NoRow
            /\ request[e[1]].pc = "closed"
            /\ ~InStream(e)
            => request[e[1]].reply = "dropped"

\* Acknowledged only when finished: an XACK that took effect is for an
\* event whose row is normalized and which was put on normalized_events.
AckedIsDone == \A k \in acked : Done(login_events[k])

\* No message slips through: everything up to the group's frontier is
\* pending, acknowledged or known to be lost with the stream, and in one of
\* the three only; everything above it still waits.
EntriesAccounted ==
    /\ Frontier <= Len(login_events)
    /\ pel \cup acked \cup lost = 1..Frontier
    /\ pel \cap acked = {}
    /\ pel \cap lost = {}
    /\ acked \cap lost = {}

\* A message is in the hands of at most one replica, across crashes,
\* restarts and the loss and re-creation of the group.
OneOwner ==
    \A w1, w2 \in Worker : w1 # w2 => Held(w1) \cap Held(w2) = {}

\* Published after written: whatever is on normalized_events has its row
\* normalized, even if a message was published twice on login_events.
AnnouncedIsNormalized ==
    \A i \in DOMAIN normalized_events :
        events[normalized_events[i].event] \in Result

\* The Pending Entries List holds work nobody is doing only after a failure:
\* the loop alone never drops a message of its batch.
PendingIsHeldUnlessFailed ==
    spent.faults = 0 /\ spent.crashes = 0
        => pel \subseteq UNION {Held(w) : w \in Worker}

-----------------------------------------------------------------------------
(* Safety when the client library never sends an XADD twice *)

\* The message on normalized_events is a snapshot of the row: both carry
\* the same attributes.
AnnouncedMatchesRow ==
    \A i \in DOMAIN normalized_events :
        events[normalized_events[i].event] = normalized_events[i].value

\* What the cap on the stream costs.  A message that is evicted before a
\* replica read it leaves its row raw and unannounced for good, so that the
\* table still tells what is missing; and unless something fails, nothing
\* else does: a raw row whose message neither waits nor is in a replica's
\* hands belongs to an evicted one.
OnlyEvictionLeavesRaw ==
    /\ spent.losses = 0 =>
          \A k \in lost :
              /\ events[login_events[k]] = RawRow
              /\ ~Announced(login_events[k])
    /\ spent.faults = 0 /\ spent.crashes = 0 =>
          \A k \in DOMAIN login_events :
              events[login_events[k]] = RawRow =>
                  k \in Waiting \cup lost \cup UNION {Held(w) : w \in Worker}

\* normalized_attributes is written once and never changed or removed.
NormalizedIsFinal ==
    [][\A e \in EventId : events[e] \in Result => events'[e] = events[e]]_vars

\* The two services implement the ledger.
Ledger == INSTANCE EventLedger WITH
    Event     <- EventId,
    Value     <- Result,
    Absent    <- NoRow,
    Stored    <- RawRow,
    row       <- events,
    announced <- normalized_events,
    complete  <- {login_events[k] : k \in acked}

ImplementsLedger == Ledger!Spec

-----------------------------------------------------------------------------
(* The inductive invariants behind the theorems *)

\* The group is only ever forgotten together with its position.
GroupInv == ~groupExists => lastDelivered = 0

\* A request is not answered, and has no rows, before its commit.
RequestInv ==
    \A r \in Request :
        /\ request[r].pc \in {"idle", "persist"} =>
              /\ request[r].reply = "none"
              /\ \A i \in 1..MaxBatch : events[<<r, i>>] = NoRow
        /\ request[r].pc = "publish" =>
              /\ request[r].reply = "none"
              /\ request[r].next >= 1

\* Only a request that got past its commit is on the stream.
PublisherInv ==
    \A k \in DOMAIN login_events :
        LET r == login_events[k][1] IN
        /\ request[r].pc \notin {"idle", "persist"}
        /\ request[r].reply \notin {"422", "500"}

\* What a replica knows about the message it is processing.
WorkerOK(w) ==
    /\ worker[w].pc \in Busy =>
          /\ 1 <= worker[w].cur
          /\ worker[w].cur <= worker[w].hi
          /\ worker[w].hi <= Frontier
    /\ worker[w].pc \in {"write", "publish", "ack"} =>
          worker[w].value \in Result
    /\ worker[w].pc = "ack" => Announced(Current(w))

WorkerInv == \A w \in Worker : WorkerOK(w)

\* The part that does not need the rows to stay where they are: it holds
\* beside a client that deletes rows, too (DemoPipeline).
ServiceInv ==
    /\ TypeOK
    /\ GroupInv
    /\ RequestInv
    /\ PublisherInv
    /\ EntriesAccounted
    /\ WorkerInv
    /\ OneOwner

\* A request has all its rows while it publishes and when it is accepted.
StoredInv ==
    \A r \in Request :
        request[r].pc = "publish" \/ request[r].reply = "202" =>
            \A i \in 1..request[r].size : events[<<r, i>>] # NoRow

\* The row is written before the message is announced and acknowledged.
WrittenInv ==
    \A w \in Worker :
        worker[w].pc \in {"publish", "ack"} => events[Current(w)] \in Result

IInv ==
    /\ ServiceInv
    /\ StoredInv
    /\ StreamEntryHasRow
    /\ WrittenInv
    /\ AnnouncedIsNormalized
    /\ AckedIsDone

\* Behind StrandedIsSignalled: without a failed call, the loop of _safe_publish
\* has put on the stream what it has passed.
PassedIsPublished ==
    spent.faults = 0 =>
        \A r \in Request : \A i \in 1..MaxBatch :
            events[<<r, i>>] # NoRow =>
                /\ request[r].pc = "publish" =>
                      /\ i <= request[r].size
                      /\ i < request[r].next => InStream(<<r, i>>)
                /\ request[r].pc = "closed" /\ request[r].reply # "dropped" =>
                      InStream(<<r, i>>)

\* Each event is on the stream once: the loop never goes back.
LogOnce ==
    /\ \A k, l \in DOMAIN login_events : login_events[k] = login_events[l] => k = l
    /\ \A k \in DOMAIN login_events :
          LET r == login_events[k][1] IN
          request[r].pc = "publish" => login_events[k][2] < request[r].next

\* No replica has written the row of message k: it waits, is further down
\* somebody's batch, or is being normalized.
Untouched(k) ==
    \/ k > Frontier
    \/ \E w \in Worker :
          /\ k \in Held(w)
          /\ k = worker[w].cur => worker[w].pc \in {"normalize", "write"}

\* One attempt per message: once a replica has written the row of a message,
\* or has given the message up, none begins it again.  No failure, restart,
\* XACK that went missing or new group brings it back: what is then still
\* pending stays so.
AttemptedOnce ==
    [][\A k \in DOMAIN login_events : Untouched(k)' => Untouched(k)]_vars

\* Behind the ledger: what happens to the event of a message happens in
\* order and once.  A row may be missing, if somebody deletes it.
LedgerInv ==
    /\ LogOnce
    /\ \A k \in DOMAIN login_events : Untouched(k) =>
          /\ events[login_events[k]] \notin Result
          /\ ~Announced(login_events[k])
    /\ \A e \in EventId : events[e] \in Result \/ Announced(e) => InStream(e)
    /\ \A w \in Worker : worker[w].pc = "publish" =>
          /\ events[Current(w)] \in {NoRow, worker[w].value}
          /\ ~Announced(Current(w))
    /\ \A i \in DOMAIN normalized_events :
          events[normalized_events[i].event] \in
              {NoRow, normalized_events[i].value}

\* Behind OnlyEvictionLeavesRaw: as long as Redis keeps the key, what a
\* replica works on was delivered, and the cap takes only what was not.
HeldWasDelivered ==
    spent.losses = 0 => \A w \in Worker : Held(w) \subseteq pel \cup acked

\* Behind AnnouncedInOrder: the only replica is past what is announced.
AnnouncedIsBehind ==
    \A w \in Worker : \A k \in DOMAIN login_events :
        Announced(login_events[k]) =>
            /\ k <= Frontier
            /\ worker[w].pc \in Busy => k <= worker[w].cur
            /\ worker[w].pc \in Busy \ {"ack"} => k < worker[w].cur

-----------------------------------------------------------------------------
(* Liveness *)

WaitingEvent(e) == \E k \in Waiting : login_events[k] = e

\* A request that is being handled is answered, or its process dies.
HandledIsAnswered ==
    \A r \in Request :
        request[r].pc \in InFlight ~> request[r].reply # "none"

\* A bad message, a lost reply or a crash does not stall the stream: every
\* message that waits leaves the queue.  Only a startup creates the group:
\* after the loss of the stream this takes a replica that is down, whose
\* restart re-creates the group from 0.
WaitingIsRead ==
    \A e \in EventId :
        WaitingEvent(e) /\ (groupExists \/ \E w \in Worker : worker[w].pc = "down")
            ~> ~WaitingEvent(e)

\* A call failed, a process died, Redis lost the stream or its cap evicted
\* a message.
Failed ==
    \/ spent.faults > 0
    \/ spent.crashes > 0
    \/ spent.losses > 0
    \/ lost # {}

\* Unless something failed, an event that reached the stream is normalized,
\* announced and acknowledged.
CompletedUnlessFailed ==
    \A e \in EventId :
        InStream(e) ~>
            \/ Done(e) /\ \E k \in acked : login_events[k] = e
            \/ Failed

\* An event that reached the stream is normalized, announced and complete.
PublishedIsCompleted ==
    \A e \in EventId :
        InStream(e) ~> (Done(e) /\ \E k \in acked : login_events[k] = e)

-----------------------------------------------------------------------------
(* Order *)

\* Announcements come in the order of the stream.
AnnouncedInOrder ==
    \A i, j \in DOMAIN normalized_events : \A k, l \in DOMAIN login_events :
        /\ i < j
        /\ login_events[k] = normalized_events[i].event
        /\ login_events[l] = normalized_events[j].event
        => k <= l
=============================================================================
