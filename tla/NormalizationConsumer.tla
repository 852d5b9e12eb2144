----------------------- MODULE NormalizationConsumer -----------------------
(***************************************************************************)
(* The consumer of identity-normalization: the replicas of the service,    *)
(* each a run_consumer_loop over the group of login_events, from the       *)
(* lifespan's startup to a crash or a shutdown.  A batch is an interval of *)
(* message ids; the loop handles it one message at a time: normalize,      *)
(* write, publish, acknowledge.  NormalizationService.normalize is a       *)
(* choice of result here, since what it computes does not steer the loop.  *)
(***************************************************************************)
EXTENDS NaasStore

CONSTANTS
    Worker,           \* replicas (consumer names <hostname>-normalization)
    ReadCount         \* count of XREADGROUP (10 in consumer.py)

ASSUME ConsumerAssumption == ReadCount \in Nat \ {0}

VARIABLE worker       \* the consumer task of each replica

consumerVars == <<worker>>

Busy == {"normalize", "write", "publish", "ack"}

WorkerState ==
    [pc    : {"down", "read"} \cup Busy,
     cur   : Nat,                    \* the message being processed
     hi    : Nat,                    \* last message of the batch
     value : Result \cup {RawRow}]   \* what normalize returned

ConsumerTypeOK == worker \in [Worker -> WorkerState]

Idle(where) == [pc |-> where, cur |-> 0, hi |-> 0, value |-> RawRow]

ConsumerInit == worker = [w \in Worker |-> Idle("down")]

Goto(w, where) == worker' = [worker EXCEPT ![w].pc = where]

\* Seeded fault: the last message of a batch is skipped.
AdvanceSkipsLast(w) ==
    worker' = [worker EXCEPT ![w] =
                 IF worker[w].cur + 1 < worker[w].hi
                 THEN [pc |-> "normalize", cur |-> worker[w].cur + 1,
                       hi |-> worker[w].hi, value |-> RawRow]
                 ELSE Idle("read")]

\* _process_message returns: the next message of the batch, or the next read.
Advance(w) ==
    worker' = [worker EXCEPT ![w] =
                 IF worker[w].cur < worker[w].hi
                 THEN [pc |-> "normalize", cur |-> worker[w].cur + 1,
                       hi |-> worker[w].hi, value |-> RawRow]
                 ELSE Idle("read")]

\* The event record the current message carries.
Current(w) == login_events[worker[w].cur]

-----------------------------------------------------------------------------

\* Seeded fault: startup does not create the group.
StartWithoutGroup(w) ==
    /\ worker[w].pc = "down"
    /\ Goto(w, "read")
    /\ UNCHANGED storeVars

\* lifespan startup: load_config, ensure_consumer_group, create_task.
Start(w) ==
    /\ worker[w].pc = "down"
    /\ EnsureConsumerGroup
    /\ Goto(w, "read")
    /\ UNCHANGED <<events, normalized_events, spent>>

\* Startup aborts: the configuration is invalid, or Redis cannot be reached
\* or its answer is lost; then the group may exist all the same.
StartFails(w) ==
    /\ worker[w].pc = "down"
    /\ Fault
    /\ EnsureConsumerGroup \/ UNCHANGED <<streamVars, histVars>>
    /\ UNCHANGED <<events, normalized_events, worker>>

\* Seeded fault: pending messages are claimed without a minimum idle time.
ReadClaimsPending(w) ==
    /\ worker[w].pc = "read"
    /\ \/ /\ \E k \in pel :
                worker' = [worker EXCEPT ![w] =
                             [pc |-> "normalize", cur |-> k, hi |-> k,
                              value |-> RawRow]]
          /\ UNCHANGED <<streamVars, histVars>>
       \/ \E hi \in Waiting :
             /\ XReadGroup(hi, ReadCount)
             /\ worker' = [worker EXCEPT ![w] =
                             [pc |-> "normalize", cur |-> Frontier + 1,
                              hi |-> hi, value |-> RawRow]]
    /\ UNCHANGED <<events, normalized_events, spent>>

\* XREADGROUP returns a batch.
Read(w) ==
    /\ worker[w].pc = "read"
    /\ \E hi \in Waiting :
          /\ XReadGroup(hi, ReadCount)
          /\ worker' = [worker EXCEPT ![w] =
                          [pc |-> "normalize", cur |-> Frontier + 1,
                           hi |-> hi, value |-> RawRow]]
    /\ UNCHANGED <<events, normalized_events, spent>>

\* XREADGROUP is executed and its reply is lost: the messages are pending,
\* the loop logs a transient error and reads again.
ReadReplyLost(w) ==
    /\ worker[w].pc = "read"
    /\ Fault
    /\ \E hi \in Waiting : XReadGroup(hi, ReadCount)
    /\ UNCHANGED <<events, normalized_events, worker>>

\* block elapses with no new message, or Redis answers NOGROUP: the loop
\* sleeps and reads again.
ReadNothing(w) ==
    /\ worker[w].pc = "read"
    /\ Waiting = {} \/ ~groupExists
    /\ UNCHANGED <<storeVars, worker>>

\* Seeded fault: the result is not kept.
NormalizeDropsResult(w) ==
    /\ worker[w].pc = "normalize"
    /\ Goto(w, "write")
    /\ UNCHANGED storeVars

\* Seeded fault: publish comes before the write.
NormalizeSkipsWrite(w) ==
    /\ worker[w].pc = "normalize"
    /\ \E v \in Result :
          worker' = [worker EXCEPT ![w].pc = "publish", ![w].value = v]
    /\ UNCHANGED storeVars

\* service.normalize(record) for the current message.
Normalize(w) ==
    /\ worker[w].pc = "normalize"
    /\ \E v \in Result :
          worker' = [worker EXCEPT ![w].pc = "write", ![w].value = v]
    /\ UNCHANGED storeVars

\* Seeded fault: INSERT ... ON CONFLICT DO UPDATE.
UpdateRowUpserts(w) ==
    events' = [events EXCEPT ![Current(w)] = worker[w].value]

\* repository.write: UPDATE ... WHERE id = event_id, commit.  It does not
\* look at the number of rows it changed.
UpdateRow(w) ==
    events' = [events EXCEPT ![Current(w)] =
                 IF @ = NoRow THEN NoRow ELSE worker[w].value]

\* Seeded fault: an UPDATE that matches no row raises.
WriteChecksRow(w) ==
    /\ worker[w].pc = "write"
    /\ UpdateRow(w)
    /\ IF events[Current(w)] = NoRow THEN Advance(w) ELSE Goto(w, "publish")
    /\ UNCHANGED <<streamVars, normalized_events, histVars, spent>>

Write(w) ==
    /\ worker[w].pc = "write"
    /\ UpdateRow(w)
    /\ Goto(w, "publish")
    /\ UNCHANGED <<streamVars, normalized_events, histVars, spent>>

\* Seeded fault: what is published is computed again.
PublishRecomputes(w) ==
    /\ worker[w].pc = "publish"
    /\ \E v \in Result : XAddNormalized(Current(w), v)
    /\ Goto(w, "ack")
    /\ UNCHANGED <<events, streamVars, histVars, spent>>

\* publish_normalized: XADD normalized_events.
Publish(w) ==
    /\ worker[w].pc = "publish"
    /\ XAddNormalized(Current(w), worker[w].value)
    /\ Goto(w, "ack")
    /\ UNCHANGED <<events, streamVars, histVars, spent>>

\* As PublishResend of event-ingestion.
NormalizedResend(w) ==
    /\ worker[w].pc = "publish"
    /\ Resend
    /\ XAddNormalized(Current(w), worker[w].value)
    /\ UNCHANGED <<events, streamVars, histVars, worker>>

\* Whether XACK answers or raises after Redis executed it, the message is
\* over.
Ack(w) ==
    /\ worker[w].pc = "ack"
    /\ XAck(worker[w].cur)
    /\ Advance(w)
    /\ UNCHANGED <<events, normalized_events, spent>>

\* Seeded fault: XACK moves into a finally block.
ProcessingFailsAcks(w) ==
    /\ worker[w].pc \in Busy
    /\ Fault
    /\ XAck(worker[w].cur)
    /\ Advance(w)
    /\ UNCHANGED <<events, normalized_events>>

\* Seeded fault: a failed message is processed again from the start.
ProcessingRetries(w) ==
    /\ worker[w].pc \in Busy
    /\ Fault
    /\ Goto(w, "normalize")
    /\ UNCHANGED <<events, normalized_events, streamVars, histVars>>

\* A step of _process_message raises: the payload does not parse, normalize,
\* the commit, XADD or XACK fails.  The handler logs and returns without
\* XACK.  The commit and XADD may have taken effect before they raised.
ProcessingFails(w) ==
    /\ worker[w].pc \in Busy
    /\ Fault
    /\ \/ UNCHANGED <<events, normalized_events>>
       \/ /\ worker[w].pc = "write"
          /\ UpdateRow(w)
          /\ UNCHANGED normalized_events
       \/ /\ worker[w].pc = "publish"
          /\ XAddNormalized(Current(w), worker[w].value)
          /\ UNCHANGED events
    /\ Advance(w)
    /\ UNCHANGED <<streamVars, histVars>>

\* The process is killed, or lifespan's shutdown cancels the consumer task
\* at whatever await it is in.  The batch in memory is gone.
Stop(w) ==
    /\ worker[w].pc # "down"
    /\ Crash
    /\ worker' = [worker EXCEPT ![w] = Idle("down")]
    /\ UNCHANGED <<events, streamVars, normalized_events, histVars>>

-----------------------------------------------------------------------------

\* What the loop does when nothing fails.
Run(w) == Read(w) \/ Normalize(w) \/ Write(w) \/ Publish(w) \/ Ack(w)

ConsumerNext ==
    \E w \in Worker :
        \/ Start(w)
        \/ StartFails(w)
        \/ Run(w)
        \/ ReadReplyLost(w)
        \/ ReadNothing(w)
        \/ NormalizedResend(w)
        \/ ProcessingFails(w)
        \/ Stop(w)

-----------------------------------------------------------------------------

\* Messages a replica has in memory and has not finished with.
Held(w) == IF worker[w].pc \in Busy THEN worker[w].cur..worker[w].hi ELSE {}

=============================================================================
