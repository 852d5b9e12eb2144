-------------------------- MODULE EventIngestion ---------------------------
(***************************************************************************)
(* The event-ingestion service: POST /events/ingest and POST /events/bulk. *)
(* Both routes run the same dual write (IngestionService.ingest_one is     *)
(* ingest_many for a batch of one): every record is inserted in one        *)
(* transaction, and only then published, record by record, best effort.    *)
(* The requests of the process interleave at every await.                  *)
(***************************************************************************)
EXTENDS NaasStore

VARIABLE request   \* the handler of each request

ingestVars == <<request>>

InFlight == {"persist", "publish"}

\* reply is what the client sees: nothing yet, a status code, or a
\* connection that breaks without an answer.
RequestState ==
    [pc    : {"idle", "closed"} \cup InFlight,
     size  : 0..MaxBatch,      \* number of records
     next  : Nat,              \* the record _safe_publish is called with
     reply : {"none", "202", "422", "500", "dropped"}]

IngestTypeOK == request \in [Request -> RequestState]

IngestInit ==
    request = [r \in Request |->
                 [pc |-> "idle", size |-> 0, next |-> 0, reply |-> "none"]]

Close(r, code) ==
    request' = [request EXCEPT ![r].pc = "closed", ![r].reply = code]

\* uuid4() per record: the i-th record of request r.
RecordId(r, i) == <<r, i>>

Records(r) == {RecordId(r, i) : i \in 1..request[r].size}

-----------------------------------------------------------------------------

\* FastAPI validates the body before the handler runs: a list of 1..MaxBatch
\* valid events is handled, anything else is answered 422.
Receive(r) ==
    /\ request[r].pc = "idle"
    /\ \E n \in 1..MaxBatch :
          request' = [request EXCEPT ![r].pc = "persist", ![r].size = n]
    /\ UNCHANGED storeVars

Reject(r) ==
    /\ request[r].pc = "idle"
    /\ Close(r, "422")
    /\ UNCHANGED storeVars

\* persist / persist_many: session.add(_all), commit.  normalized_attributes
\* is left NULL by _to_orm.
InsertRows(r) ==
    events' = [e \in EventId |-> IF e \in Records(r) THEN RawRow ELSE events[e]]

Persist(r) ==
    /\ request[r].pc = "persist"
    /\ InsertRows(r)
    /\ request' = [request EXCEPT ![r].pc = "publish", ![r].next = 1]
    /\ UNCHANGED <<streamVars, normalized_events, histVars, spent>>

\* Seeded fault: the failed commit is swallowed like a failed publish.
PersistFailsSwallowed(r) ==
    /\ request[r].pc = "persist"
    /\ Fault
    /\ request' = [request EXCEPT ![r].pc = "publish", ![r].next = 1]
    /\ UNCHANGED <<events, streamVars, normalized_events, histVars>>

\* Seeded fault: the failed commit is answered 202.
PersistFailsAccepted(r) ==
    /\ request[r].pc = "persist"
    /\ Fault
    /\ Close(r, "202")
    /\ UNCHANGED <<events, streamVars, normalized_events, histVars>>

\* The commit raises.  Either PostgreSQL did not take the transaction, or it
\* did and the answer was lost.  The exception leaves the handler: no
\* publish, 500, and get_db_session's rollback, which undoes no commit.
PersistFails(r) ==
    /\ request[r].pc = "persist"
    /\ Fault
    /\ InsertRows(r) \/ UNCHANGED events
    /\ Close(r, "500")
    /\ UNCHANGED <<streamVars, normalized_events, histVars>>

\* One iteration of the publish loop.  Whether XADD answers or raises after
\* Redis executed it, _safe_publish goes on to the next record.
PublishOne(r) ==
    /\ request[r].pc = "publish"
    /\ request[r].next <= request[r].size
    /\ XAddLogin(RecordId(r, request[r].next))
    /\ request' = [request EXCEPT ![r].next = @ + 1]
    /\ UNCHANGED <<events, normalized_events, spent>>

\* Seeded fault: _safe_publish re-raises.
PublishFailsRaises(r) ==
    /\ request[r].pc = "publish"
    /\ request[r].next <= request[r].size
    /\ Fault
    /\ Close(r, "500")
    /\ UNCHANGED <<events, streamVars, normalized_events, histVars>>

\* XADD raises and Redis did not execute it: logged, next record.
PublishFails(r) ==
    /\ request[r].pc = "publish"
    /\ request[r].next <= request[r].size
    /\ Fault
    /\ request' = [request EXCEPT ![r].next = @ + 1]
    /\ UNCHANGED <<events, streamVars, normalized_events, histVars>>

\* Redis executed XADD, the connection broke, and the client library sends
\* the command once more: the record is published again.
PublishResend(r) ==
    /\ request[r].pc = "publish"
    /\ request[r].next <= request[r].size
    /\ Resend
    /\ XAddLogin(RecordId(r, request[r].next))
    /\ UNCHANGED <<request, events, normalized_events>>

\* Seeded fault: the handler waits for one publish too many.
AcceptTooLate(r) ==
    /\ request[r].pc = "publish"
    /\ request[r].next > request[r].size + 1
    /\ Close(r, "202")
    /\ UNCHANGED storeVars

\* Seeded fault: the last record of the batch is not published.
AcceptTooEarly(r) ==
    /\ request[r].pc = "publish"
    /\ request[r].next >= request[r].size
    /\ Close(r, "202")
    /\ UNCHANGED storeVars

\* The loop is over: 202 with the ids.  The commit on leaving get_db_session
\* finds no open transaction.
Accept(r) ==
    /\ request[r].pc = "publish"
    /\ request[r].next > request[r].size
    /\ Close(r, "202")
    /\ UNCHANGED storeVars

\* The process dies: every request in flight loses its connection.
IngestionCrash ==
    /\ \E r \in Request : request[r].pc \in InFlight
    /\ Crash
    /\ request' = [r \in Request |->
                     IF request[r].pc \in InFlight
                     THEN [request[r] EXCEPT !.pc = "closed",
                                             !.reply = "dropped"]
                     ELSE request[r]]
    /\ UNCHANGED <<events, streamVars, normalized_events, histVars>>

-----------------------------------------------------------------------------

Handle(r) ==
    \/ Persist(r)
    \/ PersistFails(r)
    \/ PublishOne(r)
    \/ PublishFails(r)
    \/ PublishResend(r)
    \/ Accept(r)

IngestNext ==
    \/ \E r \in Request : Receive(r) \/ Reject(r) \/ Handle(r)
    \/ IngestionCrash

=============================================================================
