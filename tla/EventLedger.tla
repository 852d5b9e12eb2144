---------------------------- MODULE EventLedger ----------------------------
(***************************************************************************)
(* What the two stages promise together, without streams, groups, requests *)
(* or replicas: events are stored; a stored event gets its normalized      *)
(* attributes once; a normalized event is announced once, with exactly the *)
(* attributes its row holds; and only an announced event is complete.      *)
(* ADR-0011 calls the row the source of truth and the stream message a     *)
(* snapshot of it: this is that statement as a specification.              *)
(***************************************************************************)
EXTENDS Naturals, Sequences

CONSTANTS Event, Value, Absent, Stored

VARIABLES
    row,        \* the row of each event
    announced,  \* the announcements, in order
    complete    \* the events the pipeline is finished with

ledgerVars == <<row, announced, complete>>

Init ==
    /\ row = [e \in Event |-> Absent]
    /\ announced = <<>>
    /\ complete = {}

\* A set of events is stored in one transaction.
Store ==
    /\ \E S \in SUBSET {e \in Event : row[e] = Absent} :
          row' = [e \in Event |-> IF e \in S THEN Stored ELSE row[e]]
    /\ UNCHANGED <<announced, complete>>

Normalize(e) ==
    /\ row[e] = Stored
    /\ \E v \in Value : row' = [row EXCEPT ![e] = v]
    /\ UNCHANGED <<announced, complete>>

Announce(e) ==
    /\ row[e] \in Value
    /\ \A i \in DOMAIN announced : announced[i].event # e
    /\ announced' = Append(announced, [event |-> e, value |-> row[e]])
    /\ UNCHANGED <<row, complete>>

Complete(e) ==
    /\ \E i \in DOMAIN announced : announced[i].event = e
    /\ complete' = complete \cup {e}
    /\ UNCHANGED <<row, announced>>

Next ==
    \/ Store
    \/ \E e \in Event : Normalize(e) \/ Announce(e) \/ Complete(e)

Spec == Init /\ [][Next]_ledgerVars
=============================================================================
