----------------------------- MODULE NaasStore -----------------------------
(***************************************************************************)
(* The two stores the NAAS services share: the PostgreSQL table events and *)
(* the Redis streams login_events and normalized_events, with the consumer *)
(* group of identity-normalization.  The services (EventIngestion,         *)
(* NormalizationConsumer) extend this module and act on its variables      *)
(* through the operators below, one per command the code sends.            *)
(*                                                                         *)
(* A stream is kept as its whole history, so a message id is an index.     *)
(* What Redis still holds of login_events is the part above `trimmed`.     *)
(***************************************************************************)
EXTENDS Naturals, Sequences, FiniteSets

CONSTANTS
    Request,          \* HTTP requests to event-ingestion
    MaxBatch,         \* longest accepted batch (5000 in routes.py)
    Result,           \* values of NormalizedAttributes
    NoRow,            \* the event has no row
    RawRow,           \* the row's normalized_attributes is NULL
    StreamMaxLen,     \* STREAM_MAXLEN (10000 in constants.py)
    MaxFaults,        \* bound: calls that fail or whose reply is lost
    MaxCrashes,       \* bound: crashes and shutdowns of a process
    MaxStreamLosses,  \* bound: evictions of the key login_events by Redis
    MaxResends        \* bound: XADDs the client library sends once more

ASSUME StoreAssumption ==
    /\ MaxBatch \in Nat \ {0}
    /\ StreamMaxLen \in Nat \ {0}
    /\ NoRow \notin Result
    /\ RawRow \notin Result
    /\ NoRow # RawRow
    /\ MaxFaults \in Nat
    /\ MaxCrashes \in Nat
    /\ MaxStreamLosses \in Nat
    /\ MaxResends \in Nat

VARIABLES
    events,             \* table events: the column normalized_attributes
    login_events,       \* every event id ever added to the stream
    trimmed,            \* messages 1..trimmed are no longer in the stream
    groupExists,        \* the consumer group exists
    lastDelivered,      \* the group's last-delivered-id
    pel,                \* the group's Pending Entries List
    normalized_events,  \* every message ever added to the second stream
    \* History, read by no action:
    acked,              \* messages acknowledged while pending
    lost,               \* messages that left Redis undelivered or pending
    spent               \* how much of each bound has been used

pgVars     == <<events>>
streamVars == <<login_events, trimmed, groupExists, lastDelivered, pel>>
histVars   == <<acked, lost>>
storeVars  == <<pgVars, streamVars, normalized_events, histVars, spent>>

(***************************************************************************)
(* LoginEventRecord.id defaults to uuid4(): ids of different requests, and *)
(* of the records of one batch, never collide.                             *)
(***************************************************************************)
EventId == Request \X (1..MaxBatch)

RowValue == {NoRow, RawRow} \cup Result

\* What publish_normalized puts on normalized_events, up to the record's
\* other fields, which no property tells apart.
NormalizedMessage == [event : EventId, value : Result]

Bounds == [faults : Nat, crashes : Nat, losses : Nat, resends : Nat]

StoreTypeOK ==
    /\ events \in [EventId -> RowValue]
    /\ login_events \in Seq(EventId)
    /\ trimmed \in Nat
    /\ groupExists \in BOOLEAN
    /\ lastDelivered \in Nat
    /\ pel \in SUBSET Nat
    /\ normalized_events \in Seq(NormalizedMessage)
    /\ acked \in SUBSET Nat
    /\ lost \in SUBSET Nat
    /\ spent \in Bounds

StoreInit ==
    /\ events = [e \in EventId |-> NoRow]
    /\ login_events = <<>>
    /\ trimmed = 0
    /\ groupExists = FALSE
    /\ lastDelivered = 0
    /\ pel = {}
    /\ normalized_events = <<>>
    /\ acked = {}
    /\ lost = {}
    /\ spent = [faults |-> 0, crashes |-> 0, losses |-> 0, resends |-> 0]

(***************************************************************************)
(* Failures are steps of the environment, each kind within its own bound.  *)
(***************************************************************************)
Fault  == spent.faults < MaxFaults
          /\ spent' = [spent EXCEPT !.faults = @ + 1]
Crash  == spent.crashes < MaxCrashes
          /\ spent' = [spent EXCEPT !.crashes = @ + 1]
Loss   == spent.losses < MaxStreamLosses
          /\ spent' = [spent EXCEPT !.losses = @ + 1]
Resend == spent.resends < MaxResends
          /\ spent' = [spent EXCEPT !.resends = @ + 1]

-----------------------------------------------------------------------------
(* Redis *)

\* Everything up to the frontier has been delivered or has left the stream;
\* XREADGROUP ">" returns messages above it.
Frontier == IF lastDelivered > trimmed THEN lastDelivered ELSE trimmed

Waiting == (Frontier + 1)..Len(login_events)

\* XADD login_events MAXLEN ~ StreamMaxLen: the message is appended, and
\* Redis evicts some of the oldest messages beyond the cap, whether they
\* have been delivered or not.  "~" lets it evict fewer.
XAddLogin(e) ==
    /\ login_events' = Append(login_events, e)
    /\ trimmed' \in {trimmed} \cup
                    {t \in trimmed..Len(login_events') :
                        t + StreamMaxLen <= Len(login_events')}
    /\ lost' = lost \cup ((Frontier + 1)..trimmed')
    /\ UNCHANGED <<groupExists, lastDelivered, pel, acked>>

\* XADD normalized_events.
XAddNormalized(e, v) ==
    normalized_events' = Append(normalized_events, [event |-> e, value |-> v])

\* Seeded fault: the group starts at "$", behind what already waits.
EnsureConsumerGroupAtEnd ==
    /\ groupExists' = TRUE
    /\ lastDelivered' = IF groupExists THEN lastDelivered
                                       ELSE Len(login_events)
    /\ UNCHANGED <<login_events, trimmed, pel, acked, lost>>

\* Seeded fault: every startup sets an existing group back to 0.
EnsureConsumerGroupRewinds ==
    /\ groupExists' = TRUE
    /\ lastDelivered' = 0
    /\ UNCHANGED <<login_events, trimmed, pel, acked, lost>>

\* XGROUP CREATE login_events <group> 0 MKSTREAM; on BUSYGROUP nothing.
EnsureConsumerGroup ==
    /\ groupExists' = TRUE
    /\ lastDelivered' = IF groupExists THEN lastDelivered ELSE 0
    /\ UNCHANGED <<login_events, trimmed, pel, acked, lost>>

\* XREADGROUP ... COUNT n STREAMS login_events ">": the messages above the
\* frontier, at most n, move to the Pending Entries List.
XReadGroup(hi, n) ==
    /\ groupExists
    /\ Waiting # {}
    /\ hi = IF Frontier + n < Len(login_events) THEN Frontier + n
                                                ELSE Len(login_events)
    /\ lastDelivered' = hi
    /\ pel' = pel \cup ((Frontier + 1)..hi)
    /\ UNCHANGED <<login_events, trimmed, groupExists, acked, lost>>

\* XACK: forgets a pending message; answers 0 and does nothing otherwise.
XAck(k) ==
    /\ pel' = pel \ {k}
    /\ acked' = acked \cup ({k} \cap pel)
    /\ UNCHANGED <<login_events, trimmed, groupExists, lastDelivered, lost>>

\* Redis evicts the key (maxmemory-policy allkeys-lru): messages, group and
\* Pending Entries List go together.
RedisLosesStream ==
    /\ Loss
    /\ trimmed' = Len(login_events)
    /\ groupExists' = FALSE
    /\ lastDelivered' = 0
    /\ lost' = lost \cup pel \cup Waiting
    /\ pel' = {}
    /\ UNCHANGED <<events, login_events, normalized_events, acked>>

-----------------------------------------------------------------------------
(* Predicates over the stores *)

InStream(e)  == \E k \in DOMAIN login_events : login_events[k] = e
Announced(e) == \E i \in DOMAIN normalized_events :
                    normalized_events[i].event = e
Done(e)      == events[e] \in Result /\ Announced(e)
=============================================================================
