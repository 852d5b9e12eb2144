------------------------ MODULE LdapEnrichmentProofs ------------------------
(***************************************************************************)
(* The cache and the connection pool of LdapEnrichment for every set of    *)
(* replicas, users and profiles, every pool size, every TTL, and every     *)
(* number of failures: IInv is inductive.                                  *)
(***************************************************************************)
EXTENDS LdapEnrichment, TLAPS

Holding == {"connect", "search", "unbind"}

-----------------------------------------------------------------------------
(* Initial states.                                                         *)

\* A new pool has PoolSize slots.
LEMMA EmptyPoolSlots == EmptyPool \in Seq(Slot) /\ Len(EmptyPool) = PoolSize
BY EnrichmentAssumption DEF EmptyPool, Slot

LEMMA NoCallTyped == NoCall \in CallState
BY DEF NoCall, CallState, Outcome, Transient, Slot

\* The service starts in a state of the invariant.
LEMMA InitIInv == Init => IInv
<1> SUFFICES ASSUME Init PROVE IInv
  OBVIOUS
<1>1. TypeOK
  <2>1. since \in [User -> [Answer -> 0..Ancient]]
    BY EnrichmentAssumption DEF Init, Ancient
  <2>2. cache \in [User -> [value : Answer \cup {Corrupt}, left : 0..CacheTTL]]
    BY EnrichmentAssumption DEF Init, Answer
  <2>3. pool \in [Replica -> Seq(Slot)]
    BY EmptyPoolSlots DEF Init
  <2>4. call \in [Replica -> CallState]
    BY NoCallTyped DEF Init
  <2> QED
    BY <2>1, <2>2, <2>3, <2>4 DEF Init, TypeOK
<1>2. CallWellFormed /\ FlightIsRecent
  BY DEF Init, NoCall, CallWellFormed, FlightIsRecent
<1>3. HeldNow
  BY DEF Init, HeldNow
<1>4. CacheIsRecent
  BY DEF Init, CacheIsRecent, Hit
<1>5. SlotsConserved
  <2> SUFFICES ASSUME NEW r \in Replica
               PROVE  Len(pool[r]) + (IF call[r].pc \in Holding THEN 1 ELSE 0)
                          = PoolSize
    BY DEF SlotsConserved, Holding
  <2>1. Len(pool[r]) = PoolSize
    BY EmptyPoolSlots DEF Init
  <2>2. call[r].pc = "idle"
    BY DEF Init, NoCall
  <2> QED
    BY <2>1, <2>2, EnrichmentAssumption DEF Holding
<1> QED
  BY <1>1, <1>2, <1>3, <1>4, <1>5 DEF IInv

-----------------------------------------------------------------------------
(* Facts shared by the actions.                                            *)

LEMMA CallTyped == IInv => call \in [Replica -> CallState]
BY DEF IInv, TypeOK

LEMMA CallKnown ==
    ASSUME IInv, NEW r \in Replica
    PROVE  call[r] \in CallState /\ (call[r].pc # "idle" => call[r].user \in User)
BY DEF IInv, TypeOK, CallWellFormed

\* A step of one call keeps the invariant when the directory stays as it is,
\* the call stays well formed, its slots add up and the cache stays recent.
LEMMA CallStep ==
    ASSUME IInv, NEW r \in Replica, NEW c \in CallState, NEW p \in Seq(Slot),
           call' = [call EXCEPT ![r] = c],
           pool' = [pool EXCEPT ![r] = p],
           UNCHANGED worldVars,
           cache' \in [User -> [value : Answer \cup {Corrupt},
                                left : 0..CacheTTL]],
           CacheIsRecent',
           degraded' \in [Replica -> BOOLEAN],
           refused' \in [Replica -> Nat],
           spent' \in [DOMAIN Bounds -> Nat],
           c.pc # "idle" => c.user \in User,
           c.pc = "unbind" => c.error \in Transient,
           c.pc = "setex" =>
              /\ c.found \in Answer
              /\ c.lag <= MaxLag
              /\ since[c.user][c.found] <= c.lag,
           Len(p) + (IF c.pc \in Holding THEN 1 ELSE 0) = PoolSize
    PROVE  IInv'
<1> USE DEF worldVars
<1>1. TypeOK'
  BY DEF IInv, TypeOK
<1>2. CallWellFormed'
  BY DEF IInv, TypeOK, CallWellFormed
<1>3. HeldNow'
  BY DEF IInv, HeldNow
<1>4. FlightIsRecent'
  BY DEF IInv, TypeOK, FlightIsRecent
<1>6. SlotsConserved'
  BY DEF IInv, TypeOK, SlotsConserved, Holding
<1> QED
  BY <1>1, <1>2, <1>3, <1>4, <1>6 DEF IInv

\* The cache stays recent when neither it nor the directory changes.
LEMMA CacheKept ==
    ASSUME IInv, UNCHANGED <<worldVars, cache>>
    PROVE  /\ cache' \in [User -> [value : Answer \cup {Corrupt},
                                   left : 0..CacheTTL]]
           /\ CacheIsRecent'
BY DEF IInv, TypeOK, CacheIsRecent, Hit, worldVars

\* So it does when one entry is removed, or replaced by one that is recent.
LEMMA CacheReplaced ==
    ASSUME IInv, NEW u \in User,
           NEW e \in [value : Answer \cup {Corrupt}, left : 0..CacheTTL],
           UNCHANGED worldVars, cache' = [cache EXCEPT ![u] = e],
           e.left > 0 /\ e.value # Corrupt => since[u][e.value] <= MaxLag
    PROVE  /\ cache' \in [User -> [value : Answer \cup {Corrupt},
                                   left : 0..CacheTTL]]
           /\ CacheIsRecent'
<1>1. cache' \in [User -> [value : Answer \cup {Corrupt}, left : 0..CacheTTL]]
  BY DEF IInv, TypeOK
<1>2. CacheIsRecent'
  <2> SUFFICES ASSUME NEW w \in User, Hit(w)', cache'[w].value # Corrupt
               PROVE  since[w][cache'[w].value] + cache'[w].left
                          <= CacheTTL + MaxLag
    BY DEF CacheIsRecent, worldVars
  <2>1. CASE w # u
    BY <2>1 DEF IInv, TypeOK, CacheIsRecent, Hit
  <2>2. CASE w = u
    <3>1. cache'[w] = e
      BY <2>2 DEF IInv, TypeOK
    <3>2. since[u][e.value] \in Nat /\ since[u][e.value] <= MaxLag
          /\ e.left \in 0..CacheTTL
      BY <2>2, <3>1, EnrichmentAssumption DEF IInv, TypeOK, Hit, Ancient
    <3> QED
      BY <2>2, <3>1, <3>2, EnrichmentAssumption
  <2> QED
    BY <2>1, <2>2
<1> QED
  BY <1>1, <1>2

\* A bound that is spent, or not, stays a count.
LEMMA SpendTyped ==
    ASSUME IInv, NEW what \in DOMAIN Bounds, Spend(what)
    PROVE  spent' \in [DOMAIN Bounds -> Nat]
BY DEF IInv, TypeOK, Spend

\* One fact for the steps that do not touch the pool.
LEMMA PoolKept ==
    ASSUME IInv, NEW r \in Replica
    PROVE  /\ pool[r] \in Seq(Slot)
           /\ pool = [pool EXCEPT ![r] = pool[r]]
           /\ call[r] \in CallState
           /\ Len(pool[r]) + (IF call[r].pc \in Holding THEN 1 ELSE 0) = PoolSize
BY DEF IInv, TypeOK, SlotsConserved, Holding

\* What a call becomes when it returns.
LEMMA FinishedTyped ==
    ASSUME IInv, NEW r \in Replica, NEW o \in Outcome,
           NEW a \in Answer \cup {NoAnswer}, Finished(r, o, a)
    PROVE  \E c \in CallState :
              call' = [call EXCEPT ![r] = c] /\ c.pc = "idle"
<1> DEFINE c == [call[r] EXCEPT !.pc = "idle", !.conn = "none",
                                !.error = "none", !.attrs = a,
                                !.lag = 0, !.done = o]
<1>1. c \in CallState /\ c.pc = "idle"
  BY CallKnown DEF CallState, Slot
<1>2. call' = [call EXCEPT ![r] = c]
  BY CallTyped DEF Finished
<1> QED
  BY <1>1, <1>2

\* A call that returns with an error.
LEMMA FinishedWithErrorTyped ==
    ASSUME IInv, NEW r \in Replica, NEW e \in Transient,
           FinishedWithError(r, e)
    PROVE  /\ \E c \in CallState :
                 call' = [call EXCEPT ![r] = c] /\ c.pc = "idle"
           /\ degraded' \in [Replica -> BOOLEAN]
<1>1. ErrorReason(e) \in Outcome
  BY DEF ErrorReason, Transient, Outcome, SkipReasonSet
<1>2. degraded' \in [Replica -> BOOLEAN]
  BY DEF FinishedWithError, IInv, TypeOK
<1> QED
  BY <1>1, <1>2, FinishedTyped DEF FinishedWithError

-----------------------------------------------------------------------------
(* The steps of a call.                                                    *)

LEMMA LoginKeeps ==
    ASSUME IInv, NEW r \in Replica, Login(r) PROVE IInv'
<1> PICK protocol \in Protocol, u \in User \cup {NoUser} :
        Skip(r, protocol, u) \/ Begin(r, protocol, u)
  BY DEF Login
<1>1. PICK c \in CallState :
         /\ call' = [call EXCEPT ![r] = c]
         /\ c.pc \in {"idle", "get"}
         /\ c.pc # "idle" => c.user \in User
  <2>1. CASE Skip(r, protocol, u)
    <3>1. SkipReason(protocol, u) \in Outcome
      BY <2>1 DEF Skip, SkipReason, Outcome, SkipReasonSet
    <3>2. [NoCall EXCEPT !.done = SkipReason(protocol, u)] \in CallState
      BY <3>1, NoCallTyped DEF CallState
    <3>3. [NoCall EXCEPT !.done = SkipReason(protocol, u)].pc = "idle"
      BY DEF NoCall
    <3> QED
      BY <2>1, <3>2, <3>3 DEF Skip
  <2>2. CASE Begin(r, protocol, u)
    <3>1. u \in User
      BY <2>2 DEF Begin, SkipReason
    <3> DEFINE c == [NoCall EXCEPT !.pc = "get", !.user = u]
    <3>2. c \in CallState
      BY <3>1, NoCallTyped DEF CallState
    <3>3. c.pc = "get" /\ c.user = u
      BY DEF NoCall
    <3>4. call' = [call EXCEPT ![r] = c]
      BY <2>2 DEF Begin
    <3> QED
      BY <3>1, <3>2, <3>3, <3>4
  <2> QED
    BY <2>1, <2>2
<1>2. UNCHANGED <<worldVars, cache, pool, degraded, refused, spent>>
      /\ call[r].pc = "idle"
  BY DEF Skip, Begin
<1> QED
  BY <1>1, <1>2, CacheKept, PoolKept, CallStep DEF IInv, TypeOK, Holding

LEMMA GetHitKeeps ==
    ASSUME IInv, NEW r \in Replica, GetHit(r) PROVE IInv'
<1>1. PICK c \in CallState : call' = [call EXCEPT ![r] = c] /\ c.pc = "idle"
  <2>1. call[r].user \in User
    BY DEF GetHit, IInv, CallWellFormed
  <2>2. cache[call[r].user].value \in Answer
    BY <2>1 DEF GetHit, IInv, TypeOK
  <2> QED
    BY <2>2, FinishedTyped DEF GetHit, Outcome, SkipReasonSet
<1>2. UNCHANGED <<worldVars, cache, pool, degraded, refused, spent>>
      /\ call[r].pc = "get"
  BY DEF GetHit
<1> QED
  BY <1>1, <1>2, CacheKept, PoolKept, CallStep DEF IInv, TypeOK, Holding

LEMMA GetMissKeeps ==
    ASSUME IInv, NEW r \in Replica, GetMiss(r) PROVE IInv'
<1> DEFINE c == [call[r] EXCEPT !.pc = IF Hit(call[r].user) THEN "delete"
                                       ELSE "acquire"]
<1>1. c \in CallState /\ c.pc \in {"delete", "acquire"} /\ c.user \in User
  BY CallKnown DEF CallState, GetMiss
<1>2. call' = [call EXCEPT ![r] = c]
  BY CallTyped DEF GetMiss
<1>3. UNCHANGED <<worldVars, cache, pool, degraded, refused, spent>>
      /\ call[r].pc = "get"
  BY DEF GetMiss
<1> HIDE DEF c
<1> QED
  BY <1>1, <1>2, <1>3, CacheKept, PoolKept, CallStep DEF IInv, TypeOK, Holding

LEMMA GetFailsKeeps ==
    ASSUME IInv, NEW r \in Replica, GetFails(r) PROVE IInv'
<1>1. PICK c \in CallState : call' = [call EXCEPT ![r] = c] /\ c.pc = "idle"
  BY FinishedTyped DEF GetFails, Outcome, SkipReasonSet
<1>2. UNCHANGED <<worldVars, cache, pool, degraded, refused>>
      /\ call[r].pc = "get"
  BY DEF GetFails
<1>3. spent' \in [DOMAIN Bounds -> Nat]
  BY SpendTyped DEF GetFails, Bounds
<1> QED
  BY <1>1, <1>2, <1>3, CacheKept, PoolKept, CallStep DEF IInv, TypeOK, Holding

LEMMA DeleteKeeps ==
    ASSUME IInv, NEW r \in Replica, DeleteCorrupt(r) \/ DeleteFails(r)
    PROVE  IInv'
<1> DEFINE c == [call[r] EXCEPT !.pc = "acquire"]
<1>1. c \in CallState /\ c.pc = "acquire" /\ c.user \in User
  BY CallKnown DEF CallState, DeleteCorrupt, DeleteFails
<1>2. call' = [call EXCEPT ![r] = c]
  BY CallTyped DEF DeleteCorrupt, DeleteFails
<1>3. UNCHANGED <<worldVars, pool, degraded, refused>>
      /\ call[r].pc = "delete"
  BY DEF DeleteCorrupt, DeleteFails
<1>4. spent' \in [DOMAIN Bounds -> Nat]
  BY SpendTyped DEF DeleteCorrupt, DeleteFails, Bounds, IInv, TypeOK
<1>5. /\ cache' \in [User -> [value : Answer \cup {Corrupt}, left : 0..CacheTTL]]
      /\ CacheIsRecent'
  <2>1. CASE DeleteCorrupt(r)
    <3>1. call[r].user \in User
      BY <2>1 DEF DeleteCorrupt, IInv, CallWellFormed
    <3> DEFINE e == [cache[call[r].user] EXCEPT !.left = 0]
    <3>4. cache[call[r].user] \in [value : Answer \cup {Corrupt},
                                   left : 0..CacheTTL]
      BY <3>1 DEF IInv, TypeOK
    <3>2. /\ e \in [value : Answer \cup {Corrupt}, left : 0..CacheTTL]
          /\ ~(e.left > 0)
      BY <3>4, EnrichmentAssumption
    <3>5. UNCHANGED worldVars
      BY <1>3
    <3>3. cache' = [cache EXCEPT ![call[r].user] = e]
      BY <2>1 DEF DeleteCorrupt
    <3> HIDE DEF e
    <3> QED
      BY <3>1, <3>2, <3>3, <3>5, CacheReplaced
  <2>2. CASE DeleteFails(r)
    BY <1>3, <2>2, CacheKept DEF DeleteFails
  <2> QED
    BY <2>1, <2>2
<1> HIDE DEF c
<1> QED
  BY <1>1, <1>2, <1>3, <1>4, <1>5, PoolKept, CallStep
     DEF IInv, TypeOK, Holding

\* The slot a call holds is one of the pool.
LEMMA AcquireKeeps ==
    ASSUME IInv, NEW r \in Replica, Acquire(r) PROVE IInv'
<1> DEFINE where == IF Head(pool[r]) = "none" THEN "connect" ELSE "search"
           c == [call[r] EXCEPT !.conn = Head(pool[r]), !.pc = where]
<1>1. pool[r] \in Seq(Slot) /\ pool[r] # << >>
  BY PoolKept DEF Acquire
<1>2. /\ Head(pool[r]) \in Slot
      /\ Tail(pool[r]) \in Seq(Slot)
      /\ Len(Tail(pool[r])) = Len(pool[r]) - 1
      /\ Len(pool[r]) \in Nat
  BY <1>1
<1>3. /\ c \in CallState /\ c.pc \in Holding /\ c.user \in User
      /\ c.pc \in {"connect", "search"}
  BY <1>2, CallKnown DEF CallState, Acquire, Holding
<1>4. call' = [call EXCEPT ![r] = c]
  BY CallTyped DEF Acquire
<1>5. pool' = [pool EXCEPT ![r] = Tail(pool[r])]
  BY DEF Acquire
<1>8. Len(pool[r]) = PoolSize
  <2>1. call[r].pc \notin Holding
    BY DEF Acquire, Holding
  <2>2. Len(pool[r]) + (IF call[r].pc \in Holding THEN 1 ELSE 0) = PoolSize
    BY PoolKept
  <2> QED
    BY <1>2, <2>1, <2>2
<1>6. Len(Tail(pool[r])) + 1 = PoolSize
  BY <1>2, <1>8
<1>7. UNCHANGED <<worldVars, cache, degraded, refused, spent>>
  BY DEF Acquire
<1> HIDE DEF c
<1> QED
  BY <1>2, <1>3, <1>4, <1>5, <1>6, <1>7, CacheKept, CallStep DEF IInv, TypeOK

LEMMA ConnectKeeps ==
    ASSUME IInv, NEW r \in Replica, Connect(r) PROVE IInv'
<1> DEFINE c == [call[r] EXCEPT !.conn = "live", !.pc = "search"]
<1>1. c \in CallState /\ c.pc = "search" /\ c.user \in User
  BY CallKnown DEF CallState, Slot, Connect
<1>2. call' = [call EXCEPT ![r] = c]
  BY CallTyped DEF Connect
<1>3. UNCHANGED <<worldVars, cache, pool, degraded, refused, spent>>
      /\ call[r].pc = "connect"
  BY DEF Connect
<1> HIDE DEF c
<1> QED
  BY <1>1, <1>2, <1>3, CacheKept, PoolKept, CallStep DEF IInv, TypeOK, Holding

\* A slot that is given back makes the pool whole.
LEMMA GivenBack ==
    ASSUME IInv, NEW r \in Replica, NEW slot \in Slot, call[r].pc \in Holding
    PROVE  /\ Append(pool[r], slot) \in Seq(Slot)
           /\ Len(Append(pool[r], slot)) = PoolSize
<1>1. pool[r] \in Seq(Slot) /\ Len(pool[r]) + 1 = PoolSize
  BY PoolKept
<1>2. /\ Append(pool[r], slot) \in Seq(Slot)
      /\ Len(Append(pool[r], slot)) = Len(pool[r]) + 1
  BY <1>1
<1> QED
  BY <1>1, <1>2

\* The counts stay counts when an exception is raised.
LEMMA RaisesTyped ==
    ASSUME IInv, NEW r \in Replica, NEW e \in Transient,
           NEW reachable \in BOOLEAN, Raises(e, reachable), CountRefused(r, e)
    PROVE  refused' \in [Replica -> Nat] /\ spent' \in [DOMAIN Bounds -> Nat]
<1>1. refused' \in [Replica -> Nat]
  BY DEF CountRefused, IInv, TypeOK
<1>2. spent' \in [DOMAIN Bounds -> Nat]
  BY SpendTyped DEF Raises, Bounds, IInv, TypeOK
<1> QED
  BY <1>1, <1>2

LEMMA ConnectFailsKeeps ==
    ASSUME IInv, NEW r \in Replica, ConnectFails(r) PROVE IInv'
<1> PICK e \in Transient :
        Raises(e, up) /\ FinishedWithError(r, e) /\ CountRefused(r, e)
  BY DEF ConnectFails
<1>1. refused' \in [Replica -> Nat] /\ spent' \in [DOMAIN Bounds -> Nat]
  BY RaisesTyped DEF IInv, TypeOK
<1>2. PICK c \in CallState : call' = [call EXCEPT ![r] = c] /\ c.pc = "idle"
  BY FinishedWithErrorTyped
<1>3. degraded' \in [Replica -> BOOLEAN]
  BY FinishedWithErrorTyped
<1>4. pool' = [pool EXCEPT ![r] = Append(pool[r], "none")]
      /\ UNCHANGED <<worldVars, cache>>
  BY DEF ConnectFails
<1>5. /\ Append(pool[r], "none") \in Seq(Slot)
      /\ Len(Append(pool[r], "none")) = PoolSize
  BY GivenBack DEF ConnectFails, Holding, Slot
<1>6. Len(Append(pool[r], "none")) + (IF c.pc \in Holding THEN 1 ELSE 0)
         = PoolSize
  BY <1>2, <1>5, EnrichmentAssumption DEF Holding
<1> QED
  BY <1>1, <1>2, <1>3, <1>4, <1>5, <1>6, CacheKept, CallStep

LEMMA SearchKeeps ==
    ASSUME IInv, NEW r \in Replica, Search(r) PROVE IInv'
<1> DEFINE found == directory[call[r].user]
           c == [call[r] EXCEPT !.pc = "setex", !.conn = "none",
                                !.found = found, !.lag = 0]
<1>1. call[r].user \in User /\ found \in Answer
  BY DEF Search, IInv, CallWellFormed, TypeOK
<1>2. /\ c \in CallState /\ c.pc = "setex" /\ c.user \in User
      /\ c.user = call[r].user /\ c.found = found /\ c.lag = 0
  BY <1>1, CallKnown DEF CallState, Slot
<1>3. since[c.user][c.found] <= c.lag /\ c.lag <= MaxLag
  BY <1>1, <1>2, EnrichmentAssumption DEF IInv, HeldNow
<1>4. call' = [call EXCEPT ![r] = c]
  BY CallTyped DEF Search
<1>5. pool' = [pool EXCEPT ![r] = Append(pool[r], call[r].conn)]
      /\ UNCHANGED <<worldVars, cache, degraded, refused, spent>>
  BY DEF Search
<1>6. /\ Append(pool[r], call[r].conn) \in Seq(Slot)
      /\ Len(Append(pool[r], call[r].conn)) = PoolSize
  BY GivenBack DEF Search, Holding, Slot
<1>7. c.found \in Answer
  BY <1>1, <1>2
<1>8. Len(Append(pool[r], call[r].conn))
         + (IF c.pc \in Holding THEN 1 ELSE 0) = PoolSize
  BY <1>2, <1>6, EnrichmentAssumption DEF Holding
<1> HIDE DEF c, found
<1> QED
  BY <1>2, <1>3, <1>4, <1>5, <1>6, <1>7, <1>8, CacheKept, CallStep
     DEF IInv, TypeOK

LEMMA SearchFailsKeeps ==
    ASSUME IInv, NEW r \in Replica, SearchFails(r) PROVE IInv'
<1> PICK e \in Transient :
        /\ Raises(e, call[r].conn = "live")
        /\ call' = [call EXCEPT ![r].pc = "unbind", ![r].error = e]
        /\ CountRefused(r, e)
  BY DEF SearchFails
<1> DEFINE c == [call[r] EXCEPT !.pc = "unbind", !.error = e]
<1>1. c \in CallState /\ c.pc = "unbind" /\ c.user \in User /\ c.error = e
  BY CallKnown DEF CallState, SearchFails
<1>2. call' = [call EXCEPT ![r] = c]
  BY CallTyped
<1>3. refused' \in [Replica -> Nat] /\ spent' \in [DOMAIN Bounds -> Nat]
  BY RaisesTyped
<1>4. UNCHANGED <<worldVars, cache, pool, degraded>> /\ call[r].pc = "search"
  BY DEF SearchFails
<1> HIDE DEF c
<1> QED
  BY <1>1, <1>2, <1>3, <1>4, CacheKept, PoolKept, CallStep
     DEF IInv, TypeOK, Holding

LEMMA UnbindKeeps ==
    ASSUME IInv, NEW r \in Replica, Unbind(r) PROVE IInv'
<1>6. call[r].error \in Transient
  BY DEF Unbind, IInv, CallWellFormed
<1>1. PICK c \in CallState : call' = [call EXCEPT ![r] = c] /\ c.pc = "idle"
  BY <1>6, FinishedWithErrorTyped DEF Unbind
<1>2. degraded' \in [Replica -> BOOLEAN]
  BY <1>6, FinishedWithErrorTyped DEF Unbind
<1>3. pool' = [pool EXCEPT ![r] = Append(pool[r], "none")]
      /\ UNCHANGED <<worldVars, cache, refused, spent>>
  BY DEF Unbind
<1>4. /\ Append(pool[r], "none") \in Seq(Slot)
      /\ Len(Append(pool[r], "none")) = PoolSize
  BY GivenBack DEF Unbind, Holding, Slot
<1>5. Len(Append(pool[r], "none")) + (IF c.pc \in Holding THEN 1 ELSE 0)
         = PoolSize
  BY <1>1, <1>4, EnrichmentAssumption DEF Holding
<1> QED
  BY <1>1, <1>2, <1>3, <1>4, <1>5, CacheKept, CallStep DEF IInv, TypeOK

\* What a search found is recent enough to be cached.
LEMMA CacheWritten ==
    ASSUME IInv, NEW r \in Replica, call[r].pc = "setex", UNCHANGED worldVars,
           cache' = [cache EXCEPT ![call[r].user] =
                       [value |-> call[r].found, left |-> CacheTTL]]
    PROVE  /\ cache' \in [User -> [value : Answer \cup {Corrupt},
                                   left : 0..CacheTTL]]
           /\ CacheIsRecent'
<1> DEFINE e == [value |-> call[r].found, left |-> CacheTTL]
<1>1. /\ call[r].user \in User /\ call[r].found \in Answer
      /\ since[call[r].user][call[r].found] <= call[r].lag
      /\ call[r].lag <= MaxLag /\ call[r].lag \in Nat
  BY DEF IInv, TypeOK, CallState, CallWellFormed, FlightIsRecent
<1>2. since[call[r].user][call[r].found] \in Nat
  BY <1>1 DEF IInv, TypeOK
<1>3. /\ e \in [value : Answer \cup {Corrupt}, left : 0..CacheTTL]
      /\ since[call[r].user][e.value] <= MaxLag
  BY <1>1, <1>2, EnrichmentAssumption
<1> HIDE DEF e
<1>4. cache' = [cache EXCEPT ![call[r].user] = e]
  BY DEF e
<1> QED
  BY <1>1, <1>3, <1>4, CacheReplaced

LEMMA SetexKeeps ==
    ASSUME IInv, NEW r \in Replica, Setex(r) PROVE IInv'
<1>1. call[r].found \in Answer
  BY DEF Setex, IInv, FlightIsRecent
<1>2. PICK c \in CallState : call' = [call EXCEPT ![r] = c] /\ c.pc = "idle"
  BY <1>1, FinishedTyped DEF Setex, FinishedWithAnswer, Outcome, SkipReasonSet
<1>3. degraded' \in [Replica -> BOOLEAN]
  BY DEF Setex, FinishedWithAnswer, IInv, TypeOK
<1>4. UNCHANGED <<worldVars, pool, refused, spent>> /\ call[r].pc = "setex"
  BY DEF Setex
<1>5. /\ cache' \in [User -> [value : Answer \cup {Corrupt}, left : 0..CacheTTL]]
      /\ CacheIsRecent'
  BY <1>4, CacheWritten DEF Setex
<1> QED
  BY <1>2, <1>3, <1>4, <1>5, PoolKept, CallStep DEF IInv, TypeOK, Holding

LEMMA SetexFailsKeeps ==
    ASSUME IInv, NEW r \in Replica, SetexFails(r) PROVE IInv'
<1>1. PICK c \in CallState : call' = [call EXCEPT ![r] = c] /\ c.pc = "idle"
  BY FinishedTyped DEF SetexFails, Outcome, SkipReasonSet
<1>2. UNCHANGED <<worldVars, pool, degraded, refused>> /\ call[r].pc = "setex"
  BY DEF SetexFails
<1>3. /\ cache' \in [User -> [value : Answer \cup {Corrupt}, left : 0..CacheTTL]]
      /\ CacheIsRecent'
  BY <1>2, CacheWritten, CacheKept DEF SetexFails
<1>4. spent' \in [DOMAIN Bounds -> Nat]
  BY SpendTyped DEF SetexFails, Bounds
<1> QED
  BY <1>1, <1>2, <1>3, <1>4, PoolKept, CallStep DEF IInv, TypeOK, Holding

LEMMA RestartKeeps ==
    ASSUME IInv, NEW r \in Replica, Restart(r) PROVE IInv'
<1>1. /\ call' = [call EXCEPT ![r] = NoCall]
      /\ pool' = [pool EXCEPT ![r] = EmptyPool]
      /\ UNCHANGED <<worldVars, cache, refused>>
      /\ degraded' \in [Replica -> BOOLEAN]
  BY DEF Restart, IInv, TypeOK
<1>2. spent' \in [DOMAIN Bounds -> Nat]
  BY SpendTyped DEF Restart, Bounds
<1>3. NoCall.pc = "idle"
  BY DEF NoCall
<1>4. Len(EmptyPool) + (IF NoCall.pc \in Holding THEN 1 ELSE 0) = PoolSize
  BY <1>3, EmptyPoolSlots, EnrichmentAssumption DEF Holding
<1> QED
  BY <1>1, <1>2, <1>3, <1>4, EmptyPoolSlots, NoCallTyped, CacheKept, CallStep
     DEF IInv, TypeOK

-----------------------------------------------------------------------------
(* The steps of the world.                                                 *)

\* A tick ages what the directory no longer holds, the entries of the cache
\* and the results on their way to it, all by one.
LEMMA TickKeeps == IInv /\ Tick => IInv'
<1> SUFFICES ASSUME IInv, Tick PROVE IInv'
  OBVIOUS
<1>1. UNCHANGED <<directory, up, pool, degraded, refused, spent>>
  BY DEF Tick
<1>2. \A u \in User, v \in Answer :
         /\ since[u][v] \in 0..Ancient /\ since'[u][v] \in 0..Ancient
         /\ since'[u][v] <= since[u][v] + 1
  BY EnrichmentAssumption DEF IInv, TypeOK, Tick, Aged, Ancient
<1>3. \A u \in User :
         /\ cache'[u].value = cache[u].value
         /\ cache[u].left \in 0..CacheTTL
         /\ cache'[u].left = IF cache[u].left > 0 THEN cache[u].left - 1 ELSE 0
  BY DEF IInv, TypeOK, Tick
<1>4. \A r \in Replica :
         /\ call[r] \in CallState /\ call'[r] \in CallState
         /\ call'[r].pc = call[r].pc /\ call'[r].user = call[r].user
         /\ call'[r].found = call[r].found /\ call'[r].error = call[r].error
         /\ call[r].pc = "setex" =>
               call'[r].lag = call[r].lag + 1 /\ call'[r].lag <= MaxLag
  <2> SUFFICES ASSUME NEW r \in Replica
               PROVE  /\ call[r] \in CallState /\ call'[r] \in CallState
                      /\ call'[r].pc = call[r].pc
                      /\ call'[r].user = call[r].user
                      /\ call'[r].found = call[r].found
                      /\ call'[r].error = call[r].error
                      /\ call[r].pc = "setex" =>
                            /\ call'[r].lag = call[r].lag + 1
                            /\ call'[r].lag <= MaxLag
    OBVIOUS
  <2>1. call[r] \in CallState
    BY DEF IInv, TypeOK
  <2>2. call'[r] = IF call[r].pc = "setex"
                   THEN [call[r] EXCEPT !.lag = call[r].lag + 1]
                   ELSE call[r]
    BY DEF Tick
  <2>3. call[r].pc = "setex" => call[r].lag < MaxLag
    BY DEF Tick
  <2> QED
    BY <2>1, <2>2, <2>3, EnrichmentAssumption DEF CallState
<1>5. TypeOK'
  <2>1. since' \in [User -> [Answer -> 0..Ancient]]
    BY EnrichmentAssumption DEF IInv, TypeOK, Tick, Aged, Ancient
  <2>2. cache' \in [User -> [value : Answer \cup {Corrupt}, left : 0..CacheTTL]]
    <3> SUFFICES ASSUME NEW u \in User
                 PROVE  cache'[u] \in [value : Answer \cup {Corrupt},
                                       left : 0..CacheTTL]
      BY DEF Tick
    <3>1. cache[u] \in [value : Answer \cup {Corrupt}, left : 0..CacheTTL]
      BY DEF IInv, TypeOK
    <3>2. cache'[u] = [cache[u] EXCEPT !.left =
                         IF cache[u].left > 0 THEN cache[u].left - 1 ELSE 0]
      BY DEF Tick
    <3> QED
      BY <3>1, <3>2, EnrichmentAssumption
  <2>3. call' \in [Replica -> CallState]
    BY <1>4 DEF Tick
  <2> QED
    BY <1>1, <2>1, <2>2, <2>3 DEF IInv, TypeOK
<1>6. CallWellFormed'
  BY <1>4 DEF IInv, CallWellFormed
<1>7. HeldNow'
  BY <1>1 DEF IInv, TypeOK, Tick, HeldNow
<1>8. FlightIsRecent'
  <2> SUFFICES ASSUME NEW r \in Replica, call'[r].pc = "setex"
               PROVE  /\ call'[r].found \in Answer
                      /\ call'[r].lag <= MaxLag
                      /\ since'[call'[r].user][call'[r].found] <= call'[r].lag
    BY DEF FlightIsRecent
  <2>1. /\ call[r].found \in Answer /\ call[r].user \in User
        /\ since[call[r].user][call[r].found] <= call[r].lag
        /\ call[r].lag \in Nat
    BY <1>4 DEF IInv, FlightIsRecent, CallWellFormed, CallState
  <2>2. /\ since[call[r].user][call[r].found] \in Nat
        /\ since'[call[r].user][call[r].found] \in Nat
        /\ since'[call[r].user][call[r].found]
              <= since[call[r].user][call[r].found] + 1
    BY <1>2, <2>1
  <2> QED
    BY <1>4, <2>1, <2>2
<1>9. CacheIsRecent'
  <2> SUFFICES ASSUME NEW u \in User, Hit(u)', cache'[u].value # Corrupt
               PROVE  since'[u][cache'[u].value] + cache'[u].left
                          <= CacheTTL + MaxLag
    BY DEF CacheIsRecent
  <2>1. cache[u].left > 0 /\ cache[u].value \in Answer
    BY <1>3 DEF IInv, TypeOK, Hit
  <2>2. since[u][cache[u].value] + cache[u].left <= CacheTTL + MaxLag
    BY <1>3, <2>1 DEF IInv, CacheIsRecent, Hit
  <2> QED
    BY <1>2, <1>3, <2>1, <2>2, EnrichmentAssumption
<1>10. SlotsConserved'
  BY <1>1, <1>4 DEF IInv, SlotsConserved
<1> QED
  BY <1>5, <1>6, <1>7, <1>8, <1>9, <1>10 DEF IInv

\* An edit only makes the new value younger.
LEMMA EditKeeps ==
    ASSUME IInv, NEW u \in User, NEW v \in Answer, EditDirectory(u, v)
    PROVE  IInv'
<1>1. UNCHANGED <<up, cache, pool, degraded, call, refused>>
  BY DEF EditDirectory
<1>2. since' \in [User -> [Answer -> 0..Ancient]]
  BY EnrichmentAssumption DEF EditDirectory, IInv, TypeOK, Ancient
<1>3. \A w \in User, x \in Answer :
         /\ since[w][x] \in Nat /\ since'[w][x] \in Nat
         /\ since'[w][x] <= since[w][x]
  BY EnrichmentAssumption DEF EditDirectory, IInv, TypeOK, Ancient
<1>4. TypeOK'
  <2>1. spent' \in [DOMAIN Bounds -> Nat]
    BY SpendTyped DEF EditDirectory, Bounds
  <2>2. directory' \in [User -> Answer]
    BY DEF EditDirectory, IInv, TypeOK
  <2> QED
    BY <1>1, <1>2, <2>1, <2>2 DEF IInv, TypeOK
<1>5. CallWellFormed' /\ SlotsConserved'
  BY <1>1 DEF IInv, CallWellFormed, SlotsConserved
<1>6. HeldNow'
  <2> SUFFICES ASSUME NEW w \in User PROVE since'[w][directory'[w]] = 0
    BY DEF HeldNow
  <2>1. CASE w = u
    BY <2>1 DEF EditDirectory, IInv, TypeOK
  <2>2. CASE w # u
    BY <2>2 DEF EditDirectory, IInv, TypeOK, HeldNow
  <2> QED
    BY <2>1, <2>2
<1>7. FlightIsRecent'
  <2> SUFFICES ASSUME NEW r \in Replica, call[r].pc = "setex"
               PROVE  /\ call[r].found \in Answer
                      /\ call[r].lag <= MaxLag
                      /\ since'[call[r].user][call[r].found] <= call[r].lag
    BY <1>1 DEF FlightIsRecent
  <2>1. /\ call[r].found \in Answer /\ call[r].user \in User
        /\ call[r].lag \in Nat /\ call[r].lag <= MaxLag
        /\ since[call[r].user][call[r].found] <= call[r].lag
    BY DEF IInv, TypeOK, CallState, CallWellFormed, FlightIsRecent
  <2> QED
    BY <1>3, <2>1
<1>8. CacheIsRecent'
  <2> SUFFICES ASSUME NEW w \in User, Hit(w), cache[w].value # Corrupt
               PROVE  since'[w][cache[w].value] + cache[w].left
                          <= CacheTTL + MaxLag
    BY <1>1 DEF CacheIsRecent, Hit
  <2>1. /\ cache[w].value \in Answer /\ cache[w].left \in Nat
        /\ since[w][cache[w].value] + cache[w].left <= CacheTTL + MaxLag
    BY DEF IInv, TypeOK, CacheIsRecent
  <2> QED
    BY <1>3, <2>1, EnrichmentAssumption
<1> QED
  BY <1>4, <1>5, <1>6, <1>7, <1>8 DEF IInv

\* The end of a connection changes what a slot holds, not how many there are.
LEMMA DownKeeps == IInv /\ DirectoryDown => IInv'
<1> SUFFICES ASSUME IInv, DirectoryDown PROVE IInv'
  OBVIOUS
<1>1. UNCHANGED <<directory, since, cache, degraded, refused>>
  BY DEF DirectoryDown
<1>2. \A r \in Replica :
         pool'[r] \in Seq(Slot) /\ Len(pool'[r]) = Len(pool[r])
  <2> SUFFICES ASSUME NEW r \in Replica
               PROVE  pool'[r] \in Seq(Slot) /\ Len(pool'[r]) = Len(pool[r])
    OBVIOUS
  <2>1. pool[r] \in Seq(Slot)
    BY DEF IInv, TypeOK
  <2>2. pool'[r] = [i \in 1..Len(pool[r]) |-> Killed(pool[r][i])]
    BY <2>1 DEF DirectoryDown
  <2>3. \A i \in 1..Len(pool[r]) : Killed(pool[r][i]) \in Slot
    BY <2>1 DEF Killed, Slot
  <2> QED
    BY <2>1, <2>2, <2>3
<1>3. \A r \in Replica :
         /\ call'[r] \in CallState
         /\ call'[r].pc = call[r].pc /\ call'[r].user = call[r].user
         /\ call'[r].found = call[r].found /\ call'[r].lag = call[r].lag
         /\ call'[r].error = call[r].error
  <2> SUFFICES ASSUME NEW r \in Replica
               PROVE  /\ call'[r] \in CallState
                      /\ call'[r].pc = call[r].pc
                      /\ call'[r].user = call[r].user
                      /\ call'[r].found = call[r].found
                      /\ call'[r].lag = call[r].lag
                      /\ call'[r].error = call[r].error
    OBVIOUS
  <2>1. call[r] \in CallState
    BY DEF IInv, TypeOK
  <2>2. call'[r] = [call[r] EXCEPT !.conn = Killed(call[r].conn)]
    BY DEF DirectoryDown
  <2>3. Killed(call[r].conn) \in Slot
    BY <2>1 DEF CallState, Killed, Slot
  <2> QED
    BY <2>1, <2>2, <2>3 DEF CallState
<1>4. TypeOK'
  <2>1. pool' \in [Replica -> Seq(Slot)] /\ call' \in [Replica -> CallState]
    BY <1>2, <1>3 DEF DirectoryDown
  <2>2. spent' \in [DOMAIN Bounds -> Nat]
    BY SpendTyped DEF DirectoryDown, Bounds
  <2>3. up' \in BOOLEAN
    BY DEF DirectoryDown
  <2> QED
    BY <1>1, <2>1, <2>2, <2>3 DEF IInv, TypeOK
<1>5. CallWellFormed' /\ HeldNow' /\ FlightIsRecent' /\ CacheIsRecent'
  BY <1>1, <1>3
     DEF IInv, CallWellFormed, HeldNow, FlightIsRecent, CacheIsRecent, Hit
<1>6. SlotsConserved'
  BY <1>2, <1>3 DEF IInv, SlotsConserved
<1> QED
  BY <1>4, <1>5, <1>6 DEF IInv

LEMMA UpKeeps == IInv /\ DirectoryUp => IInv'
<1> SUFFICES ASSUME IInv, DirectoryUp PROVE IInv'
  OBVIOUS
<1>1. TypeOK'
  BY DEF DirectoryUp, IInv, TypeOK
<1> QED
  BY <1>1 DEF DirectoryUp, IInv, CallWellFormed, HeldNow, FlightIsRecent,
     CacheIsRecent, Hit, SlotsConserved

LEMMA CorruptEntryKeeps ==
    ASSUME IInv, NEW u \in User, CorruptEntry(u) PROVE IInv'
<1>1. UNCHANGED <<worldVars, pool, degraded, call, refused>>
  BY DEF CorruptEntry
<1>2. /\ cache' \in [User -> [value : Answer \cup {Corrupt}, left : 0..CacheTTL]]
      /\ CacheIsRecent'
  <2> DEFINE e == [value |-> Corrupt, left |-> CacheTTL]
  <2>1. e \in [value : Answer \cup {Corrupt}, left : 0..CacheTTL]
        /\ e.value = Corrupt
    BY EnrichmentAssumption
  <2>2. cache' = [cache EXCEPT ![u] = e] /\ UNCHANGED worldVars
    BY DEF CorruptEntry
  <2> HIDE DEF e
  <2> QED
    BY <2>1, <2>2, CacheReplaced
<1>3. spent' \in [DOMAIN Bounds -> Nat]
  BY SpendTyped DEF CorruptEntry, Bounds
<1> QED
  BY <1>1, <1>2, <1>3 DEF worldVars, IInv, TypeOK, CallWellFormed, HeldNow,
     FlightIsRecent, SlotsConserved

-----------------------------------------------------------------------------

\* Every step keeps the invariant.
LEMMA NextIInv == IInv /\ [Next]_vars => IInv'
<1> SUFFICES ASSUME IInv, [Next]_vars PROVE IInv'
  OBVIOUS
<1>1. ASSUME NEW r \in Replica, Login(r) \/ Work(r) \/ Restart(r) PROVE IInv'
  BY <1>1, LoginKeeps, GetHitKeeps, GetMissKeeps, GetFailsKeeps, DeleteKeeps,
     AcquireKeeps, ConnectKeeps, ConnectFailsKeeps, SearchKeeps,
     SearchFailsKeeps, UnbindKeeps, SetexKeeps, SetexFailsKeeps, RestartKeeps
     DEF Work
<1>2. CASE World
  BY <1>2, TickKeeps, DownKeeps, UpKeeps, CorruptEntryKeeps, EditKeeps
     DEF World
<1>3. CASE UNCHANGED vars
  BY <1>3 DEF vars, IInv, TypeOK, CallWellFormed, HeldNow, FlightIsRecent,
     CacheIsRecent, Hit, SlotsConserved
<1> QED
  BY <1>1, <1>2, <1>3 DEF Next

\* IInv is an invariant of the specification.
LEMMA Inductive == Spec => []IInv
BY InitIInv, NextIInv, PTL DEF Spec

(* Type correctness of the enrichment stage.                               *)
THEOREM EnrichmentTypeCorrect == Spec => []TypeOK
<1>1. IInv => TypeOK
  BY DEF IInv
<1> QED
  BY <1>1, Inductive, PTL

(* No failure, no slow replica and no corrupt entry makes the cache hold   *)
(* what the directory did not hold within CacheTTL + MaxLag ticks: errors  *)
(* are not cached, and an older search overwrites a newer one only within  *)
(* that time.                                                              *)
THEOREM CacheStaysRecent == Spec => []CacheIsRecent
<1>1. IInv => CacheIsRecent
  BY DEF IInv
<1> QED
  BY <1>1, Inductive, PTL

(* _pool_search returns a slot on every path, so the pool is never drained *)
(* by failures.                                                            *)
THEOREM NoSlotIsLost == Spec => []SlotsConserved
<1>1. IInv => SlotsConserved
  BY DEF IInv
<1> QED
  BY <1>1, Inductive, PTL

\* A step of one replica does not change the call of another.
LEMMA OtherCallKept ==
    ASSUME IInv, NEW q \in Replica, Login(q) \/ Work(q) \/ Restart(q),
           NEW r \in Replica, r # q
    PROVE  call'[r] = call[r]
<1>1. call \in [Replica -> CallState]
  BY DEF IInv, TypeOK
<1>2. CASE Login(q) \/ Restart(q)
  BY <1>1, <1>2 DEF Login, Skip, Begin, Restart
<1>3. CASE GetHit(q) \/ GetMiss(q) \/ GetFails(q)
  BY <1>1, <1>3 DEF GetHit, GetMiss, GetFails, Finished
<1>4. CASE DeleteCorrupt(q) \/ DeleteFails(q) \/ Acquire(q) \/ Connect(q)
  BY <1>1, <1>4 DEF DeleteCorrupt, DeleteFails, Acquire, Connect
<1>5. CASE ConnectFails(q) \/ Search(q) \/ SearchFails(q) \/ Unbind(q)
  BY <1>1, <1>5
     DEF ConnectFails, Search, SearchFails, Unbind, FinishedWithError, Finished
<1>6. CASE Setex(q) \/ SetexFails(q)
  BY <1>1, <1>6 DEF Setex, SetexFails, FinishedWithAnswer, Finished
<1> QED
  BY <1>2, <1>3, <1>4, <1>5, <1>6 DEF Work

\* The world does not end a call.
LEMMA WorldKeepsCall ==
    ASSUME IInv, World, NEW r \in Replica PROVE call'[r].pc = call[r].pc
<1>1. call[r] \in CallState
  BY DEF IInv, TypeOK
<1>2. CASE Tick
  BY <1>1, <1>2 DEF Tick, CallState
<1>3. CASE DirectoryDown
  BY <1>1, <1>3 DEF DirectoryDown, CallState
<1> QED
  BY <1>2, <1>3 DEF World, DirectoryUp, CorruptEntry, EditDirectory

\* Only a hit and a completed search deliver an answer.
LEMMA OnlyAnswersDelivered ==
    ASSUME IInv, NEW r \in Replica, Login(r) \/ Work(r) \/ Restart(r),
           call[r].pc # "idle", call'[r].pc = "idle",
           call'[r].attrs # NoAnswer
    PROVE  GetHit(r) \/ Setex(r)
<1>1. call \in [Replica -> CallState]
  BY DEF IInv, TypeOK
<1>2. ~Login(r) /\ ~Restart(r)
  <2>1. ~Login(r)
    BY DEF Login, Skip, Begin
  <2>2. Restart(r) => call'[r] = NoCall
    BY <1>1 DEF Restart
  <2> QED
    BY <2>1, <2>2 DEF NoCall
<1>3. ~GetMiss(r) /\ ~GetFails(r)
  BY <1>1 DEF GetMiss, GetFails, Finished, CallState
<1>4. /\ ~DeleteCorrupt(r) /\ ~DeleteFails(r)
      /\ ~Acquire(r) /\ ~Connect(r)
  BY <1>1 DEF DeleteCorrupt, DeleteFails, Acquire, Connect, CallState
<1>5. ~ConnectFails(r) /\ ~Unbind(r)
  <2>1. ASSUME NEW e, FinishedWithError(r, e) PROVE call'[r].attrs = NoAnswer
    BY <1>1, <2>1 DEF FinishedWithError, Finished, CallState
  <2> QED
    BY <2>1 DEF ConnectFails, Unbind
<1>6. ~Search(r) /\ ~SearchFails(r)
  BY <1>1 DEF Search, SearchFails, CallState
<1>7. ~SetexFails(r)
  BY <1>1 DEF SetexFails, Finished, CallState
<1> QED
  BY <1>2, <1>3, <1>4, <1>5, <1>6, <1>7 DEF Work

(* Whatever a replica merges into a login, or takes for a missing entry,   *)
(* is what the directory held for that user less than CacheTTL + MaxLag    *)
(* ticks ago.                                                              *)
THEOREM DeliveriesRecent == Spec => DeliveriesAreRecent
<1>1. ASSUME IInv, [Next]_vars PROVE [DeliveredIsRecent]_vars
  <2> SUFFICES ASSUME Next, NEW r \in Replica, call[r].pc # "idle",
                      call'[r].pc = "idle", call'[r].attrs # NoAnswer
               PROVE  since[call[r].user][call'[r].attrs] < CacheTTL + MaxLag
    BY <1>1 DEF DeliveredIsRecent
  <2>1. call[r] \in CallState /\ call[r].user \in User
    BY <1>1 DEF IInv, TypeOK, CallWellFormed
  <2>2. GetHit(r) \/ Setex(r)
    BY <1>1, OtherCallKept, WorldKeepsCall, OnlyAnswersDelivered DEF Next
  <2>3. CASE GetHit(r)
    <3>1. call'[r].attrs = cache[call[r].user].value
      BY <1>1, <2>1, <2>3 DEF GetHit, Finished, IInv, TypeOK, CallState
    <3>2. /\ cache[call[r].user].left \in Nat
          /\ cache[call[r].user].left > 0
          /\ cache[call[r].user].value \in Answer
          /\ since[call[r].user][cache[call[r].user].value]
                + cache[call[r].user].left <= CacheTTL + MaxLag
      BY <1>1, <2>1, <2>3 DEF GetHit, Hit, IInv, TypeOK, CacheIsRecent
    <3>3. since[call[r].user][cache[call[r].user].value] \in Nat
      BY <1>1, <2>1, <3>2 DEF IInv, TypeOK
    <3> QED
      BY <3>1, <3>2, <3>3, EnrichmentAssumption
  <2>4. CASE Setex(r)
    <3>1. call'[r].attrs = call[r].found
      BY <1>1, <2>1, <2>4
         DEF Setex, FinishedWithAnswer, Finished, IInv, TypeOK, CallState
    <3>2. /\ call[r].found \in Answer
          /\ call[r].lag \in Nat /\ call[r].lag <= MaxLag
          /\ since[call[r].user][call[r].found] <= call[r].lag
      BY <1>1, <2>1, <2>4 DEF Setex, IInv, FlightIsRecent, CallState
    <3>3. since[call[r].user][call[r].found] \in Nat
      BY <1>1, <2>1, <3>2 DEF IInv, TypeOK
    <3> QED
      BY <3>1, <3>2, <3>3, EnrichmentAssumption
  <2> QED
    BY <2>2, <2>3, <2>4
<1> QED
  BY <1>1, Inductive, PTL DEF Spec, DeliveriesAreRecent

-----------------------------------------------------------------------------
(* The queue is first in, first out: errors after an outage are bounded.   *)

\* What DeadAreAhead says of one replica.
DeadAhead(r) ==
    /\ refused[r] <= PoolSize
    /\ call[r].pc = "search" => call[r].conn # "none"
    /\ up => /\ refused[r] + DeadInUse(r) <= PoolSize
             /\ \A i \in DOMAIN pool[r] :
                   pool[r][i] = "dead" =>
                       i + refused[r] + DeadInUse(r) <= PoolSize

LEMMA DeadAheadForAll == DeadAreAhead <=> \A r \in Replica : DeadAhead(r)
BY DEF DeadAreAhead, DeadAhead

LEMMA PoolTyped ==
    ASSUME IInv, NEW r \in Replica
    PROVE  /\ pool \in [Replica -> Seq(Slot)] /\ pool[r] \in Seq(Slot)
           /\ refused \in [Replica -> Nat] /\ refused[r] \in Nat
           /\ call[r] \in CallState
           /\ DeadInUse(r) \in {0, 1}
BY DEF IInv, TypeOK, DeadInUse

\* A step that takes no slot keeps the dead ones where they are: at most it
\* puts one back that is not dead, and at most it meets the one in use.
LEMMA QueueKept ==
    ASSUME IInv, NEW r \in Replica, DeadAhead(r), UNCHANGED up,
           refused'[r] \in Nat, DeadInUse(r)' \in {0, 1},
           refused'[r] + DeadInUse(r)' <= refused[r] + DeadInUse(r),
           refused'[r] # refused[r] => up,
           call'[r].pc = "search" => call'[r].conn # "none",
           \/ pool'[r] = pool[r]
           \/ \E x \in {"none", "live"} : pool'[r] = Append(pool[r], x)
    PROVE  DeadAhead(r)'
<1>1. /\ pool[r] \in Seq(Slot) /\ refused[r] \in Nat
      /\ DeadInUse(r) \in {0, 1}
  BY PoolTyped
<1>2. refused'[r] <= PoolSize
  BY <1>1, EnrichmentAssumption DEF DeadAhead
<1>3. ASSUME NEW i \in DOMAIN pool'[r], pool'[r][i] = "dead"
      PROVE  i \in DOMAIN pool[r] /\ pool[r][i] = "dead" /\ i \in Nat
  <2>1. CASE pool'[r] = pool[r]
    BY <1>1, <1>3, <2>1
  <2>2. ASSUME NEW x \in {"none", "live"}, pool'[r] = Append(pool[r], x)
        PROVE  i \in DOMAIN pool[r] /\ pool[r][i] = "dead" /\ i \in Nat
    BY <1>1, <1>3, <2>2
  <2> QED
    BY <2>1, <2>2
<1>4. ASSUME up
      PROVE  /\ refused'[r] + DeadInUse(r)' <= PoolSize
             /\ \A i \in DOMAIN pool'[r] :
                   pool'[r][i] = "dead" =>
                       i + refused'[r] + DeadInUse(r)' <= PoolSize
  <2>1. /\ refused[r] + DeadInUse(r) <= PoolSize
        /\ \A i \in DOMAIN pool[r] :
              pool[r][i] = "dead" =>
                  i + refused[r] + DeadInUse(r) <= PoolSize
    BY <1>4 DEF DeadAhead
  <2>2. refused'[r] + DeadInUse(r)' <= PoolSize
    BY <1>1, <2>1, EnrichmentAssumption
  <2>3. ASSUME NEW i \in DOMAIN pool'[r], pool'[r][i] = "dead"
        PROVE  i + refused'[r] + DeadInUse(r)' <= PoolSize
    <3>1. i \in Nat /\ i + refused[r] + DeadInUse(r) <= PoolSize
      BY <1>3, <2>1, <2>3
    <3>2. ASSUME NEW a \in Nat, NEW b \in {0, 1}, NEW c \in Nat,
                 NEW d \in {0, 1}, a + b <= c + d, i + c + d <= PoolSize
          PROVE  i + a + b <= PoolSize
      BY <3>1, <3>2, EnrichmentAssumption
    <3> QED
      BY <1>1, <3>1, <3>2
  <2> QED
    BY <2>2, <2>3
<1> QED
  BY <1>2, <1>4 DEF DeadAhead

\* pool.get() moves every slot one place forward; a dead one at the head is
\* the one in use.
LEMMA AcquireAhead ==
    ASSUME IInv, NEW r \in Replica, DeadAhead(r), Acquire(r)
    PROVE  DeadAhead(r)'
<1>1. /\ pool \in [Replica -> Seq(Slot)] /\ pool[r] \in Seq(Slot)
      /\ refused[r] \in Nat /\ call[r] \in CallState
  BY PoolTyped
<1>2. pool[r] # << >> /\ pool'[r] = Tail(pool[r])
  BY <1>1 DEF Acquire
<1>3. /\ call'[r].conn = pool[r][1]
      /\ call'[r].pc = "search" => pool[r][1] # "none"
  BY <1>1, CallTyped DEF Acquire, CallState
<1>4. UNCHANGED <<up, refused>>
  BY DEF Acquire, worldVars
<1>5. DeadInUse(r) = 0
  BY DEF Acquire, DeadInUse
<1>6. DeadInUse(r)' = 1 => pool[r][1] = "dead"
  BY <1>3 DEF DeadInUse
<1>7. DeadInUse(r)' \in {0, 1}
  BY DEF DeadInUse
<1>8. ASSUME up
      PROVE  refused[r] + DeadInUse(r)' <= PoolSize
  <2>1. CASE DeadInUse(r)' = 1
    <3>1. 1 \in DOMAIN pool[r] /\ pool[r][1] = "dead"
      BY <1>1, <1>2, <1>6, <2>1
    <3>2. 1 + refused[r] + 0 <= PoolSize
      BY <1>5, <1>8, <3>1 DEF DeadAhead
    <3> QED
      BY <1>1, <2>1, <3>2, EnrichmentAssumption
  <2>2. CASE DeadInUse(r)' = 0
    BY <1>1, <2>2, EnrichmentAssumption DEF DeadAhead
  <2> QED
    BY <1>7, <2>1, <2>2
<1>9. ASSUME up, NEW i \in DOMAIN pool'[r], pool'[r][i] = "dead"
      PROVE  i + refused[r] + DeadInUse(r)' <= PoolSize
  <2>1. /\ i \in Nat /\ i + 1 \in DOMAIN pool[r]
        /\ pool[r][i + 1] = "dead"
    BY <1>1, <1>2, <1>9
  <2>2. (i + 1) + refused[r] + 0 <= PoolSize
    BY <1>5, <1>9, <2>1 DEF DeadAhead
  <2> HIDE DEF DeadInUse
  <2> QED
    BY <1>1, <1>7, <2>1, <2>2, EnrichmentAssumption
<1> QED
  BY <1>3, <1>4, <1>8, <1>9 DEF DeadAhead

\* A failed connect leaves an empty slot behind, and is not counted: with
\* the server there it is no connection error.
LEMMA ConnectFailsAhead ==
    ASSUME IInv, NEW r \in Replica, DeadAhead(r), ConnectFails(r)
    PROVE  DeadAhead(r)'
<1>1. /\ pool \in [Replica -> Seq(Slot)] /\ refused \in [Replica -> Nat]
      /\ call \in [Replica -> CallState] /\ DeadInUse(r) \in {0, 1}
  BY PoolTyped, CallTyped
<1>2. pool'[r] = Append(pool[r], "none") /\ UNCHANGED up
  BY <1>1 DEF ConnectFails, worldVars
<1>3. refused'[r] = refused[r]
  BY <1>1 DEF ConnectFails, CountRefused, Raises
<1>4. call'[r].pc = "idle"
  BY <1>1 DEF ConnectFails, FinishedWithError, Finished, CallState
<1>5. DeadInUse(r)' = 0
  BY <1>4 DEF DeadInUse
<1>6. /\ refused'[r] \in Nat /\ DeadInUse(r)' \in {0, 1}
      /\ refused'[r] + DeadInUse(r)' <= refused[r] + DeadInUse(r)
  BY <1>1, <1>3, <1>5
<1>7. \E x \in {"none", "live"} : pool'[r] = Append(pool[r], x)
  BY <1>2
<1>8. refused'[r] = refused[r] /\ call'[r].pc # "search" /\ UNCHANGED up
  BY <1>2, <1>3, <1>4
<1> QED
  BY <1>6, <1>7, <1>8, QueueKept

\* A failed search is counted only if the connection was dead, and then
\* that connection is no longer in use.
LEMMA SearchFailsAhead ==
    ASSUME IInv, NEW r \in Replica, DeadAhead(r), SearchFails(r)
    PROVE  DeadAhead(r)'
<1>1. /\ pool \in [Replica -> Seq(Slot)] /\ refused \in [Replica -> Nat]
      /\ call \in [Replica -> CallState] /\ DeadInUse(r) \in {0, 1}
      /\ refused[r] \in Nat
  BY PoolTyped, CallTyped
<1>2. UNCHANGED <<up, pool>> /\ call[r].pc = "search"
  BY DEF SearchFails, worldVars
<1>3. call'[r].pc = "unbind"
  BY <1>1 DEF SearchFails, CallState
<1>4. DeadInUse(r)' = 0
  BY <1>3 DEF DeadInUse
<1>5. \/ refused'[r] = refused[r]
      \/ refused'[r] = refused[r] + 1 /\ up /\ call[r].conn # "live"
  <2>1. PICK error \in Transient :
           Raises(error, call[r].conn = "live") /\ CountRefused(r, error)
    BY DEF SearchFails
  <2>2. /\ up \in BOOLEAN
        /\ up /\ error = "ldap_connection_error" =>
              refused'[r] = refused[r] + 1
        /\ ~(up /\ error = "ldap_connection_error") =>
              refused'[r] = refused[r]
    BY <1>1, <2>1 DEF CountRefused, IInv, TypeOK
  <2>3. error = "ldap_connection_error" => call[r].conn # "live"
    <3>1. \/ ~(call[r].conn = "live")
          \/ error \in Transient \ {"ldap_connection_error"}
      BY <2>1 DEF Raises
    <3> QED
      BY <3>1
  <2> QED
    BY <2>2, <2>3
<1>6. call[r].conn # "live" => DeadInUse(r) = 1
  BY <1>1, <1>2 DEF DeadAhead, DeadInUse, CallState, Slot
<1>7. refused'[r] \in Nat /\ (refused'[r] # refused[r] => up)
  BY <1>1, <1>5
<1>8. refused'[r] + DeadInUse(r)' <= refused[r] + DeadInUse(r)
  BY <1>1, <1>4, <1>5, <1>6
<1> QED
  BY <1>2, <1>3, <1>4, <1>7, <1>8, QueueKept

\* The other steps of a call touch the queue only to put a slot back.
LEMMA OtherWorkAhead ==
    ASSUME IInv, NEW r \in Replica, DeadAhead(r),
           Login(r) \/ Work(r), ~Acquire(r), ~ConnectFails(r), ~SearchFails(r)
    PROVE  DeadAhead(r)'
<1>1. /\ pool \in [Replica -> Seq(Slot)]
      /\ call \in [Replica -> CallState] /\ DeadInUse(r) \in {0, 1}
      /\ refused[r] \in Nat
  BY PoolTyped, CallTyped
<1>2. UNCHANGED <<up, refused>>
  BY DEF Login, Skip, Begin, Work, GetHit, GetMiss, GetFails, DeleteCorrupt,
     DeleteFails, Connect, Search, Unbind, Setex, SetexFails, worldVars
<1>3. \/ pool'[r] = pool[r]
      \/ \E x \in {"none", "live"} : pool'[r] = Append(pool[r], x)
  BY <1>1 DEF Login, Skip, Begin, Work, GetHit, GetMiss, GetFails,
     DeleteCorrupt, DeleteFails, Connect, Search, Unbind, Setex, SetexFails
<1>4. call'[r].pc = "search" => call'[r].conn = "live"
  <2>1. CASE Login(r)
    BY <1>1, <2>1 DEF Login, Skip, Begin, NoCall
  <2>2. CASE GetHit(r) \/ GetMiss(r) \/ GetFails(r) \/ DeleteCorrupt(r)
               \/ DeleteFails(r) \/ Connect(r) \/ Search(r)
    BY <1>1, <2>2 DEF GetHit, GetMiss, GetFails, DeleteCorrupt, DeleteFails,
       Connect, Search, Finished, CallState
  <2>3. CASE Unbind(r) \/ Setex(r) \/ SetexFails(r)
    BY <1>1, <2>3 DEF Unbind, Setex, SetexFails, FinishedWithError,
       FinishedWithAnswer, Finished, CallState
  <2> QED
    BY <2>1, <2>2, <2>3 DEF Work
<1>5. DeadInUse(r)' = 0
  BY <1>4 DEF DeadInUse
<1>6. refused'[r] + DeadInUse(r)' <= refused[r] + DeadInUse(r)
  BY <1>1, <1>2, <1>5
<1> QED
  BY <1>1, <1>2, <1>3, <1>4, <1>5, <1>6, QueueKept

\* A new process has an empty pool.
LEMMA RestartAhead ==
    ASSUME IInv, NEW r \in Replica, DeadAhead(r), Restart(r)
    PROVE  DeadAhead(r)'
<1>1. /\ pool \in [Replica -> Seq(Slot)] /\ call \in [Replica -> CallState]
      /\ refused[r] \in Nat
  BY PoolTyped, CallTyped
<1>2. /\ pool'[r] = EmptyPool /\ call'[r] = NoCall
      /\ UNCHANGED <<up, refused>>
  BY <1>1 DEF Restart, worldVars
<1>3. DeadInUse(r)' = 0 /\ call'[r].pc = "idle"
  BY <1>2 DEF DeadInUse, NoCall
<1>4. \A i \in DOMAIN pool'[r] : pool'[r][i] # "dead"
  BY <1>2 DEF EmptyPool
<1> QED
  BY <1>1, <1>2, <1>3, <1>4, EnrichmentAssumption DEF DeadAhead

\* Nothing a replica does touches the queue of another.
LEMMA OthersQueueKept ==
    ASSUME IInv, NEW q \in Replica, Login(q) \/ Work(q) \/ Restart(q),
           NEW r \in Replica, r # q, DeadAhead(r)
    PROVE  DeadAhead(r)'
<1>1. /\ pool \in [Replica -> Seq(Slot)] /\ refused \in [Replica -> Nat]
      /\ refused[r] \in Nat /\ DeadInUse(r) \in {0, 1}
  BY PoolTyped
<1>2. call'[r] = call[r]
  BY OtherCallKept
<1>3. UNCHANGED up
  BY DEF Login, Skip, Begin, Work, GetHit, GetMiss, GetFails, DeleteCorrupt,
     DeleteFails, Acquire, Connect, ConnectFails, Search, SearchFails, Unbind,
     Setex, SetexFails, Restart, worldVars
<1>4. pool'[r] = pool[r]
  BY <1>1 DEF Login, Skip, Begin, Work, GetHit, GetMiss, GetFails,
     DeleteCorrupt, DeleteFails, Acquire, Connect, ConnectFails, Search,
     SearchFails, Unbind, Setex, SetexFails, Restart
<1>5. refused'[r] = refused[r]
  BY <1>1 DEF Login, Skip, Begin, Work, GetHit, GetMiss, GetFails,
     DeleteCorrupt, DeleteFails, Acquire, Connect, ConnectFails, Search,
     SearchFails, Unbind, Setex, SetexFails, Restart, CountRefused
<1> QED
  BY <1>2, <1>3, <1>4, <1>5 DEF DeadAhead, DeadInUse

\* When the server comes back there are no more dead slots than slots.
LEMMA WorldAhead ==
    ASSUME IInv, World, NEW r \in Replica, DeadAhead(r)
    PROVE  DeadAhead(r)'
<1>1. /\ pool \in [Replica -> Seq(Slot)] /\ pool[r] \in Seq(Slot)
      /\ refused[r] \in Nat /\ DeadInUse(r) \in {0, 1}
      /\ call[r] \in CallState
  BY PoolTyped
<1>2. CASE Tick
  <2>1. call'[r].pc = call[r].pc /\ call'[r].conn = call[r].conn
    BY <1>1, <1>2 DEF Tick, CallState
  <2> QED
    BY <1>2, <2>1 DEF Tick, DeadAhead, DeadInUse
<1>3. CASE DirectoryDown
  <2>1. /\ call'[r].pc = call[r].pc
        /\ call'[r].conn = Killed(call[r].conn)
    BY <1>1, <1>3 DEF DirectoryDown, CallState
  <2> QED
    BY <1>3, <2>1 DEF DirectoryDown, DeadAhead, Killed
<1>4. CASE DirectoryUp
  <2>1. refused'[r] = 0 /\ UNCHANGED <<pool, call>>
    BY <1>4 DEF DirectoryUp
  <2>2. Len(pool[r]) + DeadInUse(r) <= PoolSize
    BY <1>1, EnrichmentAssumption DEF IInv, SlotsConserved, DeadInUse
  <2>3. DeadInUse(r)' = DeadInUse(r)
    BY <2>1 DEF DeadInUse
  <2>4. \A i \in DOMAIN pool[r] : i + 0 + DeadInUse(r) <= PoolSize
    BY <1>1, <2>2, EnrichmentAssumption
  <2>5. DeadInUse(r) <= PoolSize
    BY <1>1, EnrichmentAssumption
  <2>6. call'[r].pc = "search" => call'[r].conn # "none"
    BY <2>1 DEF DeadAhead
  <2>7. refused'[r] <= PoolSize /\ refused'[r] + DeadInUse(r)' <= PoolSize
    BY <1>1, <2>1, <2>3, <2>5, EnrichmentAssumption
  <2>8. \A i \in DOMAIN pool'[r] : i + refused'[r] + DeadInUse(r)' <= PoolSize
    BY <2>1, <2>3, <2>4
  <2> QED
    BY <2>6, <2>7, <2>8 DEF DeadAhead
<1>5. CASE UNCHANGED <<up, pool, call, refused>>
  BY <1>5 DEF DeadAhead, DeadInUse
<1> QED
  BY <1>2, <1>3, <1>4, <1>5 DEF World, CorruptEntry, EditDirectory, worldVars

\* DeadAreAhead holds at the start and is kept by every step.
LEMMA InitDeadAreAhead == Init => DeadAreAhead
<1> SUFFICES ASSUME Init, NEW r \in Replica PROVE DeadAhead(r)
  BY DeadAheadForAll
<1>1. /\ refused[r] = 0 /\ call[r].pc = "idle" /\ pool[r] = EmptyPool
  BY DEF Init, NoCall
<1>2. DeadInUse(r) = 0
  BY <1>1 DEF DeadInUse
<1>3. \A i \in DOMAIN pool[r] : pool[r][i] # "dead"
  BY <1>1 DEF EmptyPool
<1> QED
  BY <1>1, <1>2, <1>3, EnrichmentAssumption DEF DeadAhead

LEMMA NextDeadAreAhead == IInv /\ DeadAreAhead /\ [Next]_vars => DeadAreAhead'
<1> SUFFICES ASSUME IInv, DeadAreAhead, [Next]_vars, NEW r \in Replica
             PROVE  DeadAhead(r)'
  BY DEF DeadAreAhead, DeadAhead
<1>1. DeadAhead(r)
  BY DeadAheadForAll
<1>2. ASSUME NEW q \in Replica, Login(q) \/ Work(q) \/ Restart(q)
      PROVE  DeadAhead(r)'
  <2>1. CASE q = r
    BY <1>1, <1>2, <2>1, AcquireAhead, ConnectFailsAhead, SearchFailsAhead,
       OtherWorkAhead, RestartAhead
  <2>2. CASE q # r
    BY <1>1, <1>2, <2>2, OthersQueueKept
  <2> QED
    BY <2>1, <2>2
<1>3. CASE World
  BY <1>1, <1>3, WorldAhead
<1>4. CASE UNCHANGED vars
  BY <1>1, <1>4 DEF vars, DeadAhead, DeadInUse
<1> QED
  BY <1>2, <1>3, <1>4 DEF Next

(* Once the server is back, a replica reports at most as many connection   *)
(* errors as its pool has slots, however many outages, failures and        *)
(* restarts there were: _pool_search throws a dead connection away when it *)
(* meets it, and the queue brings up every dead one before any slot comes  *)
(* round again.                                                            *)
THEOREM OutageCostsAtMostPoolSize == Spec => []RefusedAtMostPoolSize
<1>1. DeadAreAhead => RefusedAtMostPoolSize
  BY DEF DeadAreAhead, RefusedAtMostPoolSize
<1> QED
  BY <1>1, InitDeadAreAhead, NextDeadAreAhead, Inductive, PTL DEF Spec

=============================================================================
