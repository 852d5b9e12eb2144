--------------------------- MODULE LdapEnrichment ---------------------------
(***************************************************************************)
(* The enrichment stage of identity-normalization: what                    *)
(* NormalizationService._determine_enrichment and LdapAdapter.enrich do    *)
(* for one login after another in each replica of the service.  Replicas   *)
(* share the directory and the cache in Redis; each has its own pool of    *)
(* directory connections, a FIFO queue of slots, and its own degraded      *)
(* flag.  A replica handles one login at a time, and every await of the    *)
(* code ends a step.                                                       *)
(*                                                                         *)
(* Time passes in ticks: an entry of the cache counts down the ticks it    *)
(* has left, and since[u][v] counts the ticks since v was what the         *)
(* directory held for u, up to Ancient.  The attributes of a directory     *)
(* entry are one value, a Profile.                                         *)
(***************************************************************************)
EXTENDS Naturals, Sequences

CONSTANTS
    Replica,          \* processes of the service
    User,             \* correlation values (primary_email)
    Profile,          \* what a directory entry may hold
    LdapEnabled,      \* enrichment.sources.ldap.enabled
    PoolSize,         \* settings.ldap_pool_size
    CacheTTL,         \* cache_ttl_seconds, in ticks
    MaxLag,           \* ticks a reply and the SETEX after it may take
    NoEntry,          \* the directory has no entry for the user
    NoUser,           \* the login carries no correlation value
    Corrupt,          \* a cached string that is not JSON
    NoAnswer,         \* nothing was found or returned
    MaxFaults, MaxOutages, MaxEdits, MaxRestarts, MaxCorruptions

ASSUME EnrichmentAssumption ==
    /\ LdapEnabled \in BOOLEAN
    /\ PoolSize \in Nat \ {0}
    /\ CacheTTL \in Nat \ {0}
    /\ MaxLag \in Nat
    /\ NoEntry \notin Profile
    /\ Corrupt \notin Profile \cup {NoEntry}
    /\ NoAnswer \notin Profile \cup {NoEntry}
    /\ NoUser \notin User
    /\ {MaxFaults, MaxOutages, MaxEdits, MaxRestarts, MaxCorruptions}
          \subseteq Nat

VARIABLES
    directory,        \* the entry of each user
    up,               \* the directory server answers
    since,            \* ghost: ticks since the directory held a value
    cache,            \* ldap_enrichment:<user> in Redis, with ticks left
    pool,             \* _pool_queue of each replica
    degraded,         \* _ldap_connection_degraded of each replica
    call,             \* the normalize call of each replica
    refused,          \* ghost: connection errors since the server came up
    spent             \* how much of each bound is used

worldVars == <<directory, up, since>>
vars == <<directory, up, since, cache, pool, degraded, call, refused, spent>>

Answer == Profile \cup {NoEntry}

\* A slot of the pool: no connection yet, a bound one, or one whose server
\* went away after it was bound.
Slot == {"none", "live", "dead"}

Ancient == CacheTTL + MaxLag + 1

Transient == {"ldap_timeout", "ldap_connection_error", "ldap_search_error",
              "ldap_unexpected_error"}

SkipReasonSet == {"ldap_disabled", "ldap_event", "no_ldap_match",
                  "ldap_timeout", "ldap_connection_error",
                  "ldap_search_error", "invalid_correlation_key"}

\* What normalize knows of enrichment when it returns: the skip reason, or
\* that attributes were merged, from a live search or from the cache.
Outcome == {"none", "applied", "applied_cache_hit"} \cup SkipReasonSet

CallState ==
    [pc    : {"idle", "get", "delete", "acquire", "connect", "search",
              "unbind", "setex"},
     user  : User \cup {NoUser},
     conn  : Slot,                        \* the slot taken from the pool
     error : Transient \cup {"none"},     \* the exception being handled
     found : Answer \cup {NoAnswer},      \* what the live search found
     attrs : Answer \cup {NoAnswer},      \* what enrich returned
     lag   : Nat,                         \* ticks since the search answered
     done  : Outcome]

Bounds == [faults |-> MaxFaults, outages |-> MaxOutages, edits |-> MaxEdits,
           restarts |-> MaxRestarts, corruptions |-> MaxCorruptions]

Spend(what) ==
    /\ spent[what] < Bounds[what]
    /\ spent' = [spent EXCEPT ![what] = @ + 1]

TypeOK ==
    /\ directory \in [User -> Answer]
    /\ up \in BOOLEAN
    /\ since \in [User -> [Answer -> 0..Ancient]]
    /\ cache \in [User -> [value : Answer \cup {Corrupt}, left : 0..CacheTTL]]
    /\ pool \in [Replica -> Seq(Slot)]
    /\ degraded \in [Replica -> BOOLEAN]
    /\ call \in [Replica -> CallState]
    /\ refused \in [Replica -> Nat]
    /\ spent \in [DOMAIN Bounds -> Nat]

NoCall == [pc |-> "idle", user |-> NoUser, conn |-> "none", error |-> "none",
           found |-> NoAnswer, attrs |-> NoAnswer, lag |-> 0, done |-> "none"]

\* _get_pool: every slot starts empty.
EmptyPool == [i \in 1..PoolSize |-> "none"]

Init ==
    /\ directory \in [User -> Answer]
    /\ up = TRUE
    /\ since = [u \in User |->
                  [v \in Answer |-> IF v = directory[u] THEN 0 ELSE Ancient]]
    /\ cache = [u \in User |-> [value |-> NoEntry, left |-> 0]]
    /\ pool = [r \in Replica |-> EmptyPool]
    /\ degraded = [r \in Replica |-> FALSE]
    /\ call = [r \in Replica |-> NoCall]
    /\ refused = [r \in Replica |-> 0]
    /\ spent = [what \in DOMAIN Bounds |-> 0]

-----------------------------------------------------------------------------
(* normalize: whether to enrich, and what becomes of enrich's outcome.     *)

\* _determine_enrichment up to the call of enrich.
SkipReason(protocol, u) ==
    CASE ~LdapEnabled       -> "ldap_disabled"
      [] LdapEnabled /\ protocol = "ldap" -> "ldap_event"
      [] LdapEnabled /\ protocol # "ldap" /\ u = NoUser
                            -> "invalid_correlation_key"
      [] OTHER              -> "attempt"

\* A login that is not enriched: normalize returns without an await.
Skip(r, protocol, u) ==
    /\ call[r].pc = "idle"
    /\ SkipReason(protocol, u) # "attempt"
    /\ call' = [call EXCEPT ![r] =
                  [NoCall EXCEPT !.done = SkipReason(protocol, u)]]
    /\ UNCHANGED <<worldVars, cache, pool, degraded, refused, spent>>

\* A login whose correlation value is looked up.
Begin(r, protocol, u) ==
    /\ call[r].pc = "idle"
    /\ SkipReason(protocol, u) = "attempt"
    /\ call' = [call EXCEPT ![r] = [NoCall EXCEPT !.pc = "get", !.user = u]]
    /\ UNCHANGED <<worldVars, cache, pool, degraded, refused, spent>>

\* Seeded fault: the kind of the error is passed on as the skip reason.
ErrorReasonUnmapped(error) == error

\* _map_outcome_to_enrichment: skip reason of an error.
ErrorReason(error) ==
    IF error \in {"ldap_timeout", "ldap_connection_error"}
    THEN error
    ELSE "ldap_search_error"

\* The call returns with an outcome and the attributes to merge.
Finished(r, outcome, attrs) ==
    call' = [call EXCEPT ![r].pc = "idle", ![r].conn = "none",
                         ![r].error = "none", ![r].attrs = attrs,
                         ![r].lag = 0, ![r].done = outcome]

\* _map_outcome_to_enrichment for an error, with the flag it sets.
FinishedWithError(r, error) ==
    /\ Finished(r, ErrorReason(error), NoAnswer)
    /\ degraded' = [degraded EXCEPT ![r] =
                      @ \/ error = "ldap_connection_error"]

\* Seeded fault: only a match counts as evidence that LDAP is reachable.
FinishedWithAnswerOnMatch(r, v) ==
    /\ Finished(r, IF v = NoEntry THEN "no_ldap_match" ELSE "applied", v)
    /\ degraded' = [degraded EXCEPT ![r] = @ /\ v = NoEntry]

\* _map_outcome_to_enrichment for ldap_match and ldap_no_match.
FinishedWithAnswer(r, v) ==
    /\ Finished(r, IF v = NoEntry THEN "no_ldap_match" ELSE "applied", v)
    /\ degraded' = [degraded EXCEPT ![r] = FALSE]

-----------------------------------------------------------------------------
(* enrich: the cache, the pool, the search.                                *)

Hit(u) == cache[u].left > 0

\* Seeded fault: a hit renews the entry.
GetHitRenews(r) ==
    LET u == call[r].user IN
    /\ call[r].pc = "get"
    /\ Hit(u) /\ cache[u].value # Corrupt
    /\ Finished(r, IF cache[u].value = NoEntry THEN "no_ldap_match"
                   ELSE "applied_cache_hit", cache[u].value)
    /\ cache' = [cache EXCEPT ![u].left = CacheTTL]
    /\ UNCHANGED <<worldVars, pool, degraded, refused, spent>>

\* GET returns an entry, positive or negative.  The flag is left alone: a
\* hit is no evidence that the directory is reachable.
GetHit(r) ==
    LET u == call[r].user IN
    /\ call[r].pc = "get"
    /\ Hit(u) /\ cache[u].value # Corrupt
    /\ Finished(r, IF cache[u].value = NoEntry THEN "no_ldap_match"
                   ELSE "applied_cache_hit", cache[u].value)
    /\ UNCHANGED <<worldVars, cache, pool, degraded, refused, spent>>

\* GET returns nothing, or a string that cannot be decoded.
GetMiss(r) ==
    LET u == call[r].user IN
    /\ call[r].pc = "get"
    /\ Hit(u) => cache[u].value = Corrupt
    /\ call' = [call EXCEPT ![r].pc = IF Hit(u) THEN "delete" ELSE "acquire"]
    /\ UNCHANGED <<worldVars, cache, pool, degraded, refused, spent>>

\* get_redis or GET raises: the exception leaves enrich and the service
\* reports a search error.
GetFails(r) ==
    /\ call[r].pc = "get"
    /\ Spend("faults")
    /\ Finished(r, "ldap_search_error", NoAnswer)
    /\ UNCHANGED <<worldVars, cache, pool, degraded, refused>>

\* DEL of an undecodable entry.  Another replica may have replaced it since
\* the GET; its entry goes too.
DeleteCorrupt(r) ==
    /\ call[r].pc = "delete"
    /\ cache' = [cache EXCEPT ![call[r].user].left = 0]
    /\ call' = [call EXCEPT ![r].pc = "acquire"]
    /\ UNCHANGED <<worldVars, pool, degraded, refused, spent>>

\* The DEL fails; the exception is suppressed.
DeleteFails(r) ==
    /\ call[r].pc = "delete"
    /\ Spend("faults")
    /\ call' = [call EXCEPT ![r].pc = "acquire"]
    /\ UNCHANGED <<worldVars, cache, pool, degraded, refused>>

\* pool.get(): blocks while the queue is empty.
Acquire(r) ==
    /\ call[r].pc = "acquire"
    /\ pool[r] # << >>
    /\ call' = [call EXCEPT ![r].conn = Head(pool[r]),
                            ![r].pc = IF Head(pool[r]) = "none"
                                      THEN "connect" ELSE "search"]
    /\ pool' = [pool EXCEPT ![r] = Tail(@)]
    /\ UNCHANGED <<worldVars, cache, degraded, refused, spent>>

\* _create_ldap_connection in a thread: connect and bind.
Connect(r) ==
    /\ call[r].pc = "connect"
    /\ up
    /\ call' = [call EXCEPT ![r].conn = "live", ![r].pc = "search"]
    /\ UNCHANGED <<worldVars, cache, pool, degraded, refused, spent>>

\* The exceptions a call to the directory may raise: the server is away
\* (refused, or no answer in time), or it answers late or with an error.
Raises(error, reachable) ==
    \/ /\ ~reachable
       /\ \/ error = "ldap_connection_error"
          \/ error = "ldap_timeout" /\ ~up
       /\ UNCHANGED spent
    \/ /\ reachable
       /\ error \in Transient \ {"ldap_connection_error"}
       /\ Spend("faults")

\* A connection error is counted when the server is there.
CountRefused(r, error) ==
    refused' = [refused EXCEPT ![r] =
                  IF up /\ error = "ldap_connection_error" THEN @ + 1 ELSE @]

\* Seeded fault: the slot of a failed connect is not given back.
ConnectFailsKeepsSlot(r) ==
    /\ call[r].pc = "connect"
    /\ \E error \in Transient :
          /\ Raises(error, up)
          /\ FinishedWithError(r, error)
          /\ CountRefused(r, error)
    /\ UNCHANGED <<worldVars, cache, pool>>

\* Connecting or binding raises: the slot goes back empty, nothing to
\* unbind, and nothing is cached.
ConnectFails(r) ==
    /\ call[r].pc = "connect"
    /\ \E error \in Transient :
          /\ Raises(error, up)
          /\ FinishedWithError(r, error)
          /\ CountRefused(r, error)
    /\ pool' = [pool EXCEPT ![r] = Append(@, "none")]
    /\ UNCHANGED <<worldVars, cache>>

\* search_s returns: the connection goes to the end of the queue and the
\* result is on its way to the cache.
Search(r) ==
    LET u == call[r].user IN
    /\ call[r].pc = "search"
    /\ call[r].conn = "live"
    /\ pool' = [pool EXCEPT ![r] = Append(@, call[r].conn)]
    /\ call' = [call EXCEPT ![r].pc = "setex", ![r].conn = "none",
                            ![r].found = directory[u], ![r].lag = 0]
    /\ UNCHANGED <<worldVars, cache, degraded, refused, spent>>

\* search_s raises; the handler unbinds in a thread before it goes on.
SearchFails(r) ==
    /\ call[r].pc = "search"
    /\ \E error \in Transient :
          /\ Raises(error, call[r].conn = "live")
          /\ call' = [call EXCEPT ![r].pc = "unbind", ![r].error = error]
          /\ CountRefused(r, error)
    /\ UNCHANGED <<worldVars, cache, pool, degraded>>

\* Seeded fault: the connection is pooled again after an error.
UnbindKeepsConnection(r) ==
    /\ call[r].pc = "unbind"
    /\ FinishedWithError(r, call[r].error)
    /\ pool' = [pool EXCEPT ![r] = Append(@, call[r].conn)]
    /\ UNCHANGED <<worldVars, cache, refused, spent>>

\* Seeded fault: a failed search is remembered as a missing entry.
UnbindCachesNegative(r) ==
    /\ call[r].pc = "unbind"
    /\ FinishedWithError(r, call[r].error)
    /\ pool' = [pool EXCEPT ![r] = Append(@, "none")]
    /\ cache' = [cache EXCEPT ![call[r].user] =
                   [value |-> NoEntry, left |-> CacheTTL]]
    /\ UNCHANGED <<worldVars, refused, spent>>

\* unbind_s, whose own failure is suppressed; the slot goes back empty, the
\* error is classified and reported, and nothing is cached.
Unbind(r) ==
    /\ call[r].pc = "unbind"
    /\ FinishedWithError(r, call[r].error)
    /\ pool' = [pool EXCEPT ![r] = Append(@, "none")]
    /\ UNCHANGED <<worldVars, cache, refused, spent>>

\* _cache_write, then ldap_match or ldap_no_match.
Setex(r) ==
    /\ call[r].pc = "setex"
    /\ cache' = [cache EXCEPT ![call[r].user] =
                   [value |-> call[r].found, left |-> CacheTTL]]
    /\ FinishedWithAnswer(r, call[r].found)
    /\ UNCHANGED <<worldVars, pool, refused, spent>>

\* SETEX raises, having been executed or not: the exception leaves enrich,
\* the service reports a search error, and what the search found is lost.
SetexFails(r) ==
    /\ call[r].pc = "setex"
    /\ Spend("faults")
    /\ \/ cache' = [cache EXCEPT ![call[r].user] =
                      [value |-> call[r].found, left |-> CacheTTL]]
       \/ UNCHANGED cache
    /\ Finished(r, "ldap_search_error", NoAnswer)
    /\ UNCHANGED <<worldVars, pool, degraded, refused>>

\* The process ends, at any await, and a new one starts.
Restart(r) ==
    /\ Spend("restarts")
    /\ call' = [call EXCEPT ![r] = NoCall]
    /\ pool' = [pool EXCEPT ![r] = EmptyPool]
    /\ degraded' = [degraded EXCEPT ![r] = FALSE]
    /\ UNCHANGED <<worldVars, cache, refused>>

-----------------------------------------------------------------------------
(* The world around the service.                                           *)

Aged(n) == IF n < Ancient THEN n + 1 ELSE n

\* A tick.  A result on its way to the cache is at most MaxLag ticks old.
Tick ==
    /\ \A r \in Replica : call[r].pc = "setex" => call[r].lag < MaxLag
    /\ cache' = [u \in User |->
                   [cache[u] EXCEPT !.left = IF @ > 0 THEN @ - 1 ELSE 0]]
    /\ since' = [u \in User |-> [v \in Answer |->
                   IF v = directory[u] THEN 0 ELSE Aged(since[u][v])]]
    /\ call' = [r \in Replica |->
                  IF call[r].pc = "setex"
                  THEN [call[r] EXCEPT !.lag = @ + 1]
                  ELSE call[r]]
    /\ UNCHANGED <<directory, up, pool, degraded, refused, spent>>

\* An entry is added, changed or removed.
EditDirectory(u, v) ==
    /\ Spend("edits")
    /\ v # directory[u]
    /\ directory' = [directory EXCEPT ![u] = v]
    /\ since' = [since EXCEPT ![u][v] = 0]
    /\ UNCHANGED <<up, cache, pool, degraded, call, refused>>

\* The server goes away: every connection to it is dead.
Killed(slot) == IF slot = "live" THEN "dead" ELSE slot

DirectoryDown ==
    /\ up
    /\ Spend("outages")
    /\ up' = FALSE
    /\ pool' = [r \in Replica |-> [i \in DOMAIN pool[r] |-> Killed(pool[r][i])]]
    /\ call' = [r \in Replica |-> [call[r] EXCEPT !.conn = Killed(@)]]
    /\ UNCHANGED <<directory, since, cache, degraded, refused>>

\* It comes back; connection errors are counted from here.
DirectoryUp ==
    /\ ~up
    /\ up' = TRUE
    /\ refused' = [r \in Replica |-> 0]
    /\ UNCHANGED <<directory, since, cache, pool, degraded, call, spent>>

\* Something other than the service leaves a string that is not JSON.
CorruptEntry(u) ==
    /\ Spend("corruptions")
    /\ cache' = [cache EXCEPT ![u] = [value |-> Corrupt, left |-> CacheTTL]]
    /\ UNCHANGED <<worldVars, pool, degraded, call, refused>>

-----------------------------------------------------------------------------

Protocol == {"oidc", "saml", "ldap"}

Login(r) ==
    \E protocol \in Protocol, u \in User \cup {NoUser} :
        Skip(r, protocol, u) \/ Begin(r, protocol, u)

Work(r) ==
    \/ GetHit(r) \/ GetMiss(r) \/ GetFails(r)
    \/ DeleteCorrupt(r) \/ DeleteFails(r)
    \/ Acquire(r) \/ Connect(r) \/ ConnectFails(r)
    \/ Search(r) \/ SearchFails(r) \/ Unbind(r)
    \/ Setex(r) \/ SetexFails(r)

World ==
    \/ Tick \/ DirectoryDown \/ DirectoryUp
    \/ \E u \in User : CorruptEntry(u)
    \/ \E u \in User, v \in Answer : EditDirectory(u, v)

Next ==
    \/ \E r \in Replica : Login(r) \/ Work(r) \/ Restart(r)
    \/ World

Spec == Init /\ [][Next]_vars

(* A call the code awaits ends, since OPT_NETWORK_TIMEOUT and OPT_TIMEOUT  *)
(* bound the directory and a broken Redis connection raises; logins keep   *)
(* coming; time passes; an outage ends.                                    *)
FairSpec ==
    /\ Spec
    /\ \A r \in Replica : WF_vars(Work(r))
    /\ \A r \in Replica :
          WF_vars(\E protocol \in Protocol, u \in User : Begin(r, protocol, u))
    /\ WF_vars(Tick)
    /\ WF_vars(DirectoryUp)

-----------------------------------------------------------------------------
(* Properties.                                                             *)

(* An unexpired entry of the cache is what the directory held for the user *)
(* at most MaxLag ticks before the entry was written: no error, and no     *)
(* answer to another replica's older search, is remembered for longer than *)
(* cache_ttl_seconds and the time of the SETEX (_cache_write).             *)
CacheIsRecent ==
    \A u \in User :
        Hit(u) /\ cache[u].value # Corrupt =>
            since[u][cache[u].value] + cache[u].left <= CacheTTL + MaxLag

(* A call that returns attributes, or no_ldap_match, returns what the      *)
(* directory held for that user within the last CacheTTL + MaxLag ticks,   *)
(* whichever replica asked and whatever failed in between.                 *)
DeliveredIsRecent ==
    \A r \in Replica :
        call[r].pc # "idle" /\ call'[r].pc = "idle" /\ call'[r].attrs # NoAnswer
            => since[call[r].user][call'[r].attrs] < CacheTTL + MaxLag

DeliveriesAreRecent == [][DeliveredIsRecent]_vars

\* What normalize sees of a call: whom it is about, and what it returned.
Asked == [r \in Replica |-> IF call[r].pc = "idle" THEN NoUser
                            ELSE call[r].user]

Given == [r \in Replica |-> [outcome |-> call[r].done, attrs |-> call[r].attrs]]

Contract == INSTANCE EnrichmentContract WITH
    Fresh <- MaxLag, Lifetime <- CacheTTL + MaxLag,
    asked <- Asked, given <- Given

(* Cache, pool and outages show only as the contract allows: a login gets  *)
(* one outcome, with attributes of its own user that are no older than the *)
(* kind of the outcome promises, and the degraded flag follows the calls   *)
(* that reached the directory (enrich, _map_outcome_to_enrichment).        *)
ImplementsContract == Contract!Spec

(* A result on its way to the cache is what the directory held when it was *)
(* searched.                                                               *)
FlightIsRecent ==
    \A r \in Replica :
        call[r].pc = "setex" =>
            /\ call[r].found \in Answer
            /\ call[r].lag <= MaxLag
            /\ since[call[r].user][call[r].found] <= call[r].lag

\* A call that is under way looks up a user, and unbinds after an error.
CallWellFormed ==
    \A r \in Replica :
        /\ call[r].pc # "idle" => call[r].user \in User
        /\ call[r].pc = "unbind" => call[r].error \in Transient

\* The ghost agrees with the directory.
HeldNow == \A u \in User : since[u][directory[u]] = 0

(* After the server is back, a replica meets at most PoolSize connection   *)
(* errors before its searches succeed: each dead connection is met once    *)
(* (_pool_search discards it).                                             *)
RefusedAtMostPoolSize == \A r \in Replica : refused[r] <= PoolSize

(* No slot of the pool is lost: the slots in the queue and the one in use  *)
(* are PoolSize together (_pool_search gives one back on every path).      *)
SlotsConserved ==
    \A r \in Replica :
        Len(pool[r]) + (IF call[r].pc \in {"connect", "search", "unbind"}
                        THEN 1 ELSE 0) = PoolSize

\* The inductive invariant behind CacheIsRecent and SlotsConserved.
IInv ==
    /\ TypeOK
    /\ CallWellFormed
    /\ HeldNow
    /\ FlightIsRecent
    /\ CacheIsRecent
    /\ SlotsConserved

\* Behind RefusedAtMostPoolSize: the queue is first in, first out, so the
\* dead connection at position i is met before any slot behind it comes
\* round again, and every error so far has used up one position.
DeadInUse(r) ==
    IF call[r].pc = "search" /\ call[r].conn = "dead" THEN 1 ELSE 0

DeadAreAhead ==
    \A r \in Replica :
        /\ refused[r] <= PoolSize
        /\ call[r].pc = "search" => call[r].conn # "none"
        /\ up => /\ refused[r] + DeadInUse(r) <= PoolSize
                 /\ \A i \in DOMAIN pool[r] :
                       pool[r][i] = "dead" =>
                           i + refused[r] + DeadInUse(r) <= PoolSize

(* Every login is normalized: a call to enrich always returns, so an       *)
(* outage of the directory or of Redis delays no event for good.           *)
EnrichmentEnds == \A r \in Replica : call[r].pc # "idle" ~> call[r].pc = "idle"

\* Cache hits answer the replica's logins: its calls end at the GET.
ServedFromCache(r) == call[r].pc \in {"idle", "get"}

(* The flag that silences connection errors stays set for good only in a   *)
(* replica that never asks the directory again, because the others keep    *)
(* the shared cache filled and a hit leaves the flag alone.  Whoever goes  *)
(* on asking the directory clears it (_clear_ldap_degraded).               *)
DegradedRecovers ==
    \A r \in Replica : <>[]degraded[r] => <>[]ServedFromCache(r)

(* What SPEC_2 says: when the live search returns a match, the enrichment  *)
(* is applied.                                                             *)
MatchIsApplied ==
    \A r \in Replica :
        call[r].pc = "idle" /\ call[r].found \in Profile
            => call[r].done = "applied"

=============================================================================
