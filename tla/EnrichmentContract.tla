------------------------- MODULE EnrichmentContract -------------------------
(***************************************************************************)
(* What the enrichment promises to the rest of normalize, without cache,   *)
(* pool, connections or outages.  A login is asked about and is given one  *)
(* of three things: what the directory has for its user now, up to Fresh   *)
(* ticks, which also proves the directory reachable; what it had within    *)
(* the Lifetime of a remembered answer, which proves nothing; or a reason  *)
(* and no attributes.  Only a connection error degrades a replica, and     *)
(* only an answer of the directory itself ends it.                         *)
(***************************************************************************)
EXTENDS Naturals

CONSTANTS
    Replica, User,
    Answer,         \* what the directory may have for a user
    NoEntry,        \* the answer that the user is unknown
    NoUser, NoAnswer,
    Fresh,          \* ticks an answer of the directory takes to arrive
    Lifetime,       \* ticks after which an answer is not given any more
    Ancient         \* ages are not told apart from here on

VARIABLES
    directory,
    since,          \* ticks since the directory had an answer for a user
    asked,          \* whose login a replica is enriching, or NoUser
    given,          \* outcome and attributes of its last login
    degraded

contractVars == <<directory, since, asked, given, degraded>>

Nothing == [outcome |-> "none", attrs |-> NoAnswer]

Init ==
    /\ directory \in [User -> Answer]
    /\ since = [u \in User |->
                  [v \in Answer |-> IF v = directory[u] THEN 0 ELSE Ancient]]
    /\ asked = [r \in Replica |-> NoUser]
    /\ given = [r \in Replica |-> Nothing]
    /\ degraded = [r \in Replica |-> FALSE]

\* A login that no directory is asked about.
Skip(r, reason) ==
    /\ asked[r] = NoUser
    /\ given' = [given EXCEPT ![r] = [outcome |-> reason, attrs |-> NoAnswer]]
    /\ UNCHANGED <<directory, since, asked, degraded>>

Ask(r, u) ==
    /\ asked[r] = NoUser
    /\ asked' = [asked EXCEPT ![r] = u]
    /\ given' = [given EXCEPT ![r] = Nothing]
    /\ UNCHANGED <<directory, since, degraded>>

Return(r, outcome, attrs) ==
    /\ asked[r] # NoUser
    /\ asked' = [asked EXCEPT ![r] = NoUser]
    /\ given' = [given EXCEPT ![r] = [outcome |-> outcome, attrs |-> attrs]]
    /\ UNCHANGED <<directory, since>>

GiveLive(r, v) ==
    /\ Return(r, IF v = NoEntry THEN "no_ldap_match" ELSE "applied", v)
    /\ since[asked[r]][v] <= Fresh
    /\ degraded' = [degraded EXCEPT ![r] = FALSE]

GiveRemembered(r, v) ==
    /\ Return(r, IF v = NoEntry THEN "no_ldap_match" ELSE "applied_cache_hit", v)
    /\ since[asked[r]][v] < Lifetime
    /\ UNCHANGED degraded

Refuse(r, reason) ==
    /\ Return(r, reason, NoAnswer)
    /\ degraded' = [degraded EXCEPT ![r] =
                      @ \/ reason = "ldap_connection_error"]

Restart(r) ==
    /\ asked' = [asked EXCEPT ![r] = NoUser]
    /\ given' = [given EXCEPT ![r] = Nothing]
    /\ degraded' = [degraded EXCEPT ![r] = FALSE]
    /\ UNCHANGED <<directory, since>>

Edit(u, v) ==
    /\ directory' = [directory EXCEPT ![u] = v]
    /\ since' = [since EXCEPT ![u][v] = 0]
    /\ UNCHANGED <<asked, given, degraded>>

Age ==
    /\ since' = [u \in User |-> [v \in Answer |->
                   IF v = directory[u] THEN 0
                   ELSE IF since[u][v] < Ancient THEN since[u][v] + 1
                   ELSE since[u][v]]]
    /\ UNCHANGED <<directory, asked, given, degraded>>

Next ==
    \/ \E r \in Replica :
          \/ \E reason \in {"ldap_disabled", "ldap_event",
                            "invalid_correlation_key"} : Skip(r, reason)
          \/ \E u \in User : Ask(r, u)
          \/ \E v \in Answer : GiveLive(r, v) \/ GiveRemembered(r, v)
          \/ \E reason \in {"ldap_timeout", "ldap_connection_error",
                            "ldap_search_error"} : Refuse(r, reason)
          \/ Restart(r)
    \/ \E u \in User, v \in Answer : Edit(u, v)
    \/ Age

Spec == Init /\ [][Next]_contractVars
=============================================================================
