--------------------------- MODULE ContractProofs ---------------------------
(***************************************************************************)
(* LdapEnrichment implements EnrichmentContract, for every set of replicas *)
(* and users, every size of the pool and every number of failures.  Of the *)
(* steps of a call only the first and the last are visible; what the last  *)
(* one gives is recent because the cache and the results in flight are     *)
(* (IInv).                                                                 *)
(***************************************************************************)
EXTENDS LdapEnrichmentProofs

-----------------------------------------------------------------------------
(* How the steps of LdapEnrichment look from outside.                      *)

LEMMA CallSeen ==
    ASSUME IInv, NEW r \in Replica, NEW c, call' = [call EXCEPT ![r] = c]
    PROVE  /\ Asked' = [Asked EXCEPT ![r] =
                          IF c.pc = "idle" THEN NoUser ELSE c.user]
           /\ Given' = [Given EXCEPT ![r] =
                          [outcome |-> c.done, attrs |-> c.attrs]]
<1>1. call \in [Replica -> CallState]
  BY CallTyped
<1>2. \A q \in Replica : call'[q] = IF q = r THEN c ELSE call[q]
  BY <1>1
<1> DEFINE A(d) == IF d.pc = "idle" THEN NoUser ELSE d.user
           G(d) == [outcome |-> d.done, attrs |-> d.attrs]
<1>3. /\ Asked = [q \in Replica |-> A(call[q])]
      /\ Asked' = [q \in Replica |-> A(call'[q])]
  BY DEF Asked
<1>4. /\ Given = [q \in Replica |-> G(call[q])]
      /\ Given' = [q \in Replica |-> G(call'[q])]
  BY DEF Given
<1> HIDE DEF A, G
<1>5. Asked' = [Asked EXCEPT ![r] = A(c)]
  BY <1>2, <1>3
<1>6. Given' = [Given EXCEPT ![r] = G(c)]
  BY <1>2, <1>4
<1> QED
  BY <1>5, <1>6 DEF A, G

\* A step inside a call is not seen.
LEMMA StepUnseen ==
    ASSUME IInv, NEW r \in Replica, NEW c, call' = [call EXCEPT ![r] = c],
           call[r].pc # "idle", c.pc # "idle", c.user = call[r].user,
           c.done = call[r].done, c.attrs = call[r].attrs,
           UNCHANGED <<worldVars, degraded>>
    PROVE  UNCHANGED Contract!contractVars
<1>1. Asked[r] = c.user /\ Given[r] = [outcome |-> c.done, attrs |-> c.attrs]
  BY DEF Asked, Given
<1>2. /\ Asked' = [Asked EXCEPT ![r] = c.user]
      /\ Given' = [Given EXCEPT ![r] = [outcome |-> c.done, attrs |-> c.attrs]]
  BY CallSeen
<1>3. Asked' = Asked /\ Given' = Given
  <2>1. Asked = [q \in Replica |-> Asked[q]] /\ Given = [q \in Replica |-> Given[q]]
    BY DEF Asked, Given
  <2> QED
    BY <1>1, <1>2, <2>1
<1> QED
  BY <1>3 DEF Contract!contractVars, worldVars

\* The end of a call is its return in the contract.
LEMMA FinishedSeen ==
    ASSUME IInv, NEW r \in Replica, NEW o, NEW a, call[r].pc # "idle",
           Finished(r, o, a), UNCHANGED worldVars
    PROVE  Contract!Return(r, o, a) /\ Asked[r] = call[r].user
<1> DEFINE c == [call[r] EXCEPT !.pc = "idle", !.conn = "none",
                                !.error = "none", !.attrs = a,
                                !.lag = 0, !.done = o]
<1>1. call[r] \in CallState /\ call[r].user \in User
  BY CallKnown
<1>2. call' = [call EXCEPT ![r] = c]
  BY CallTyped DEF Finished
<1>3. c.pc = "idle" /\ c.done = o /\ c.attrs = a
  BY <1>1 DEF CallState
<1> HIDE DEF c
<1>4. /\ Asked' = [Asked EXCEPT ![r] = NoUser]
      /\ Given' = [Given EXCEPT ![r] = [outcome |-> o, attrs |-> a]]
  BY <1>2, <1>3, CallSeen
<1>5. Asked[r] = call[r].user /\ Asked[r] # NoUser
  BY <1>1, EnrichmentAssumption DEF Asked
<1> QED
  BY <1>4, <1>5 DEF Contract!Return, worldVars

\* A call that ends with an exception, whatever becomes of the flag.
LEMMA ErrorSeen ==
    ASSUME IInv, NEW r \in Replica, NEW e \in Transient, call[r].pc # "idle",
           FinishedWithError(r, e), UNCHANGED worldVars
    PROVE  \E reason \in {"ldap_timeout", "ldap_connection_error",
                          "ldap_search_error"} : Contract!Refuse(r, reason)
<1>1. /\ ErrorReason(e) \in {"ldap_timeout", "ldap_connection_error",
                             "ldap_search_error"}
      /\ (ErrorReason(e) = "ldap_connection_error")
            = (e = "ldap_connection_error")
  BY DEF ErrorReason, Transient
<1>2. Contract!Return(r, ErrorReason(e), NoAnswer)
  BY FinishedSeen DEF FinishedWithError
<1>3. degraded' = [degraded EXCEPT ![r] =
                     @ \/ ErrorReason(e) = "ldap_connection_error"]
  BY <1>1 DEF FinishedWithError
<1>4. Contract!Refuse(r, ErrorReason(e))
  BY <1>2, <1>3 DEF Contract!Refuse
<1> QED
  BY <1>1, <1>4

\* A command of Redis that raises ends the call with a search error.
LEMMA RedisErrorSeen ==
    ASSUME IInv, NEW r \in Replica, call[r].pc # "idle",
           Finished(r, "ldap_search_error", NoAnswer),
           UNCHANGED <<worldVars, degraded>>
    PROVE  Contract!Refuse(r, "ldap_search_error")
<1>1. Contract!Return(r, "ldap_search_error", NoAnswer)
  BY FinishedSeen
<1>2. degraded' = [degraded EXCEPT ![r] =
                     @ \/ "ldap_search_error" = "ldap_connection_error"]
  <2>1. degraded \in [Replica -> BOOLEAN]
    BY DEF IInv, TypeOK
  <2>2. [degraded EXCEPT ![r] = degraded[r] \/ FALSE] = degraded
    BY <2>1
  <2> QED
    BY <2>1, <2>2
<1> QED
  BY <1>1, <1>2 DEF Contract!Refuse

-----------------------------------------------------------------------------
(* The simulation, action by action.                                       *)

LEMMA SkipSimulates ==
    ASSUME IInv, NEW r \in Replica, NEW protocol \in Protocol,
           NEW u \in User \cup {NoUser}, Skip(r, protocol, u)
    PROVE  \E reason \in {"ldap_disabled", "ldap_event",
                          "invalid_correlation_key"} : Contract!Skip(r, reason)
<1> DEFINE reason == SkipReason(protocol, u)
           c == [NoCall EXCEPT !.done = reason]
<1>1. reason \in {"ldap_disabled", "ldap_event", "invalid_correlation_key"}
  BY DEF Skip, SkipReason
<1>2. c.pc = "idle" /\ c.done = reason /\ c.attrs = NoAnswer
  BY DEF NoCall
<1>3. call' = [call EXCEPT ![r] = c]
  BY DEF Skip
<1> HIDE DEF c, reason
<1>4. /\ Asked' = [Asked EXCEPT ![r] = NoUser]
      /\ Given' = [Given EXCEPT ![r] = [outcome |-> reason, attrs |-> NoAnswer]]
  BY <1>2, <1>3, CallSeen
<1>5. Asked[r] = NoUser /\ Asked = [q \in Replica |-> Asked[q]]
  BY DEF Skip, Asked
<1>6. Asked' = Asked
  BY <1>4, <1>5
<1>7. Contract!Skip(r, reason)
  BY <1>4, <1>5, <1>6 DEF Skip, Contract!Skip, worldVars
<1> QED
  BY <1>1, <1>7

LEMMA BeginSimulates ==
    ASSUME IInv, NEW r \in Replica, NEW protocol \in Protocol,
           NEW u \in User \cup {NoUser}, Begin(r, protocol, u)
    PROVE  \E v \in User : Contract!Ask(r, v)
<1> DEFINE c == [NoCall EXCEPT !.pc = "get", !.user = u]
<1>1. u \in User
  BY DEF Begin, SkipReason
<1>2. c.pc = "get" /\ c.user = u /\ c.done = "none" /\ c.attrs = NoAnswer
  BY DEF NoCall
<1>3. call' = [call EXCEPT ![r] = c]
  BY DEF Begin
<1> HIDE DEF c
<1>4. /\ Asked' = [Asked EXCEPT ![r] = u]
      /\ Given' = [Given EXCEPT ![r] = Contract!Nothing]
  BY <1>2, <1>3, CallSeen DEF Contract!Nothing
<1>5. Asked[r] = NoUser
  BY DEF Begin, Asked
<1>6. Contract!Ask(r, u)
  BY <1>4, <1>5 DEF Begin, Contract!Ask, worldVars
<1> QED
  BY <1>1, <1>6

LEMMA GetHitSimulates ==
    ASSUME IInv, NEW r \in Replica, GetHit(r)
    PROVE  \E v \in Answer : Contract!GiveRemembered(r, v)
<1> DEFINE u == call[r].user
           v == cache[u].value
<1>1. call[r].pc # "idle" /\ u \in User
  BY CallKnown DEF GetHit
<1>2. /\ cache[u].left \in Nat /\ cache[u].left > 0
      /\ v \in Answer
      /\ since[u][v] \in Nat
      /\ since[u][v] + cache[u].left <= CacheTTL + MaxLag
  BY <1>1 DEF GetHit, Hit, IInv, TypeOK, CacheIsRecent
<1>3. since[u][v] < CacheTTL + MaxLag
  BY <1>2, EnrichmentAssumption
<1>4. Contract!Return(r, IF v = NoEntry THEN "no_ldap_match"
                         ELSE "applied_cache_hit", v) /\ Asked[r] = u
  BY <1>1, FinishedSeen DEF GetHit
<1>5. Contract!GiveRemembered(r, v)
  BY <1>3, <1>4 DEF GetHit, Contract!GiveRemembered
<1> QED
  BY <1>2, <1>5

LEMMA SetexSimulates ==
    ASSUME IInv, NEW r \in Replica, Setex(r)
    PROVE  \E v \in Answer : Contract!GiveLive(r, v)
<1> DEFINE u == call[r].user
           v == call[r].found
<1>1. call[r].pc # "idle" /\ u \in User /\ call[r] \in CallState
  BY CallKnown DEF Setex
<1>2. /\ v \in Answer
      /\ call[r].lag \in Nat /\ call[r].lag <= MaxLag
      /\ since[u][v] <= call[r].lag
  BY <1>1 DEF Setex, IInv, FlightIsRecent, CallState
<1>3. since[u][v] \in Nat
  BY <1>1, <1>2 DEF IInv, TypeOK
<1>4. since[u][v] <= MaxLag
  BY <1>2, <1>3, EnrichmentAssumption
<1>5. Contract!Return(r, IF v = NoEntry THEN "no_ldap_match" ELSE "applied", v)
      /\ Asked[r] = u
  BY <1>1, FinishedSeen DEF Setex, FinishedWithAnswer
<1>6. Contract!GiveLive(r, v)
  BY <1>4, <1>5 DEF Setex, FinishedWithAnswer, Contract!GiveLive
<1> QED
  BY <1>2, <1>6

\* The other steps of a call: it fails, or goes on unseen.
LEMMA OtherWorkSimulates ==
    ASSUME IInv, NEW r \in Replica, Work(r), ~GetHit(r), ~Setex(r)
    PROVE  \/ UNCHANGED Contract!contractVars
           \/ \E reason \in {"ldap_timeout", "ldap_connection_error",
                             "ldap_search_error"} : Contract!Refuse(r, reason)
<1>1. call[r] \in CallState /\ call \in [Replica -> CallState]
  BY CallKnown, CallTyped
<1>2. call[r].pc # "idle"
  BY DEF Work, GetMiss, GetFails, DeleteCorrupt, DeleteFails, Acquire, Connect,
         ConnectFails, Search, SearchFails, Unbind, SetexFails
<1>3. CASE GetMiss(r) \/ DeleteCorrupt(r) \/ DeleteFails(r) \/ Acquire(r)
             \/ Connect(r)
  <2>1. PICK p \in {"delete", "acquire", "connect", "search"}, s \in Slot :
          call' = [call EXCEPT ![r] = [call[r] EXCEPT !.pc = p, !.conn = s]]
    <3>1. CASE GetMiss(r) \/ DeleteCorrupt(r) \/ DeleteFails(r)
      <4>1. PICK p \in {"delete", "acquire"} :
              call' = [call EXCEPT ![r] = [call[r] EXCEPT !.pc = p]]
        BY <1>1, <3>1 DEF GetMiss, DeleteCorrupt, DeleteFails
      <4>2. /\ call[r].conn \in Slot
            /\ [call[r] EXCEPT !.pc = p]
                  = [call[r] EXCEPT !.pc = p, !.conn = call[r].conn]
        BY <1>1 DEF CallState
      <4> QED
        BY <4>1, <4>2
    <3>2. CASE Acquire(r)
      <4>1. Head(pool[r]) \in Slot
        BY <3>2 DEF Acquire, IInv, TypeOK
      <4>2. PICK p \in {"connect", "search"} :
              call' = [call EXCEPT ![r] =
                         [call[r] EXCEPT !.conn = Head(pool[r]), !.pc = p]]
        BY <1>1, <3>2 DEF Acquire
      <4>3. [call[r] EXCEPT !.conn = Head(pool[r]), !.pc = p]
              = [call[r] EXCEPT !.pc = p, !.conn = Head(pool[r])]
        BY <1>1 DEF CallState
      <4> QED
        BY <4>1, <4>2, <4>3
    <3>3. CASE Connect(r)
      BY <1>1, <3>3 DEF Connect, Slot
    <3> QED
      BY <1>3, <3>1, <3>2, <3>3
  <2>2. UNCHANGED <<worldVars, degraded>>
    BY <1>3 DEF GetMiss, DeleteCorrupt, DeleteFails, Acquire, Connect
  <2> DEFINE c == [call[r] EXCEPT !.pc = p, !.conn = s]
  <2>3. /\ c.pc # "idle" /\ c.user = call[r].user
        /\ c.done = call[r].done /\ c.attrs = call[r].attrs
    BY <1>1 DEF CallState
  <2> HIDE DEF c
  <2> QED
    BY <1>2, <2>1, <2>2, <2>3, StepUnseen DEF c
<1>4. CASE Search(r)
  <2> DEFINE c == [call[r] EXCEPT !.pc = "setex", !.conn = "none",
                                  !.found = directory[call[r].user], !.lag = 0]
  <2>1. /\ c.pc # "idle" /\ c.user = call[r].user
        /\ c.done = call[r].done /\ c.attrs = call[r].attrs
    BY <1>1 DEF CallState
  <2>2. call' = [call EXCEPT ![r] = c] /\ UNCHANGED <<worldVars, degraded>>
    BY <1>1, <1>4 DEF Search
  <2> HIDE DEF c
  <2> QED
    BY <1>2, <2>1, <2>2, StepUnseen
<1>5. CASE SearchFails(r)
  <2>1. PICK e \in Transient :
          call' = [call EXCEPT ![r].pc = "unbind", ![r].error = e]
    BY <1>5 DEF SearchFails
  <2> DEFINE c == [call[r] EXCEPT !.pc = "unbind", !.error = e]
  <2>2. /\ c.pc # "idle" /\ c.user = call[r].user
        /\ c.done = call[r].done /\ c.attrs = call[r].attrs
    BY <1>1 DEF CallState
  <2>3. call' = [call EXCEPT ![r] = c] /\ UNCHANGED <<worldVars, degraded>>
    BY <1>1, <1>5, <2>1 DEF SearchFails
  <2> HIDE DEF c
  <2> QED
    BY <1>2, <2>2, <2>3, StepUnseen
<1>6. CASE ConnectFails(r) \/ Unbind(r)
  <2>1. PICK e \in Transient : FinishedWithError(r, e) /\ UNCHANGED worldVars
    BY <1>6 DEF ConnectFails, Unbind, IInv, CallWellFormed
  <2> QED
    BY <1>2, <2>1, ErrorSeen
<1>7. CASE GetFails(r) \/ SetexFails(r)
  BY <1>2, <1>7, RedisErrorSeen DEF GetFails, SetexFails
<1> QED
  BY <1>3, <1>4, <1>5, <1>6, <1>7 DEF Work

LEMMA RestartSimulates ==
    ASSUME IInv, NEW r \in Replica, Restart(r) PROVE Contract!Restart(r)
<1>1. NoCall.pc = "idle" /\ NoCall.done = "none" /\ NoCall.attrs = NoAnswer
  BY DEF NoCall
<1>2. call' = [call EXCEPT ![r] = NoCall]
  BY DEF Restart
<1>3. /\ Asked' = [Asked EXCEPT ![r] = NoUser]
      /\ Given' = [Given EXCEPT ![r] = [outcome |-> "none", attrs |-> NoAnswer]]
  <2>1. /\ Asked' = [Asked EXCEPT ![r] =
                       IF NoCall.pc = "idle" THEN NoUser ELSE NoCall.user]
        /\ Given' = [Given EXCEPT ![r] =
                       [outcome |-> NoCall.done, attrs |-> NoCall.attrs]]
    BY <1>2, CallSeen
  <2> QED
    BY <1>1, <2>1
<1>4. Given' = [Given EXCEPT ![r] = Contract!Nothing]
  BY <1>3 DEF Contract!Nothing
<1> QED
  BY <1>3, <1>4 DEF Restart, Contract!Restart, worldVars

\* The world changes what the directory has and how old that is; outages
\* and corrupt entries are not seen.
LEMMA WorldSimulates ==
    ASSUME IInv, World
    PROVE  \/ UNCHANGED Contract!contractVars
           \/ Contract!Age
           \/ \E u \in User, v \in Answer : Contract!Edit(u, v)
<1>1. UNCHANGED <<Asked, Given, degraded>>
  <2>1. \A r \in Replica : /\ call'[r].pc = call[r].pc
                           /\ call'[r].user = call[r].user
                           /\ call'[r].done = call[r].done
                           /\ call'[r].attrs = call[r].attrs
    <3> SUFFICES ASSUME NEW r \in Replica
                 PROVE  /\ call'[r].pc = call[r].pc
                        /\ call'[r].user = call[r].user
                        /\ call'[r].done = call[r].done
                        /\ call'[r].attrs = call[r].attrs
      OBVIOUS
    <3>1. call[r] \in CallState
      BY CallKnown
    <3>2. CASE Tick
      BY <3>1, <3>2 DEF Tick, CallState
    <3>3. CASE DirectoryDown
      BY <3>1, <3>3 DEF DirectoryDown, CallState
    <3> QED
      BY <3>2, <3>3 DEF World, DirectoryUp, CorruptEntry, EditDirectory
  <2>2. UNCHANGED degraded
    BY DEF World, Tick, DirectoryDown, DirectoryUp, CorruptEntry, EditDirectory
  <2> QED
    BY <2>1, <2>2 DEF Asked, Given
<1>2. CASE Tick
  BY <1>1, <1>2 DEF Tick, Aged, Contract!Age
<1>3. ASSUME NEW u \in User, NEW v \in Answer, EditDirectory(u, v)
      PROVE  Contract!Edit(u, v)
  BY <1>1, <1>3 DEF EditDirectory, Contract!Edit
<1>4. CASE DirectoryDown \/ DirectoryUp \/ \E u \in User : CorruptEntry(u)
  BY <1>1, <1>4
     DEF DirectoryDown, DirectoryUp, CorruptEntry, worldVars, Contract!contractVars
<1> QED
  BY <1>2, <1>3, <1>4 DEF World

-----------------------------------------------------------------------------

(* The enrichment keeps its contract: each login gets one outcome, about   *)
(* its own user and as recent as that outcome promises, and the degraded   *)
(* flag changes only with a connection error or an answer of the directory *)
(* itself, whatever the cache, the pool and the outages do.                *)
THEOREM EnrichmentKeepsContract == Spec => ImplementsContract
<1>1. Init => Contract!Init
  BY DEF Init, NoCall, Asked, Given, Contract!Init, Contract!Nothing
<1>2. ASSUME IInv, [Next]_vars
      PROVE  [Contract!Next]_(Contract!contractVars)
  <2>1. ASSUME NEW r \in Replica, Login(r) \/ Work(r) \/ Restart(r)
        PROVE  [Contract!Next]_(Contract!contractVars)
    <3>1. CASE Login(r)
      BY <1>2, <3>1, SkipSimulates, BeginSimulates DEF Login, Contract!Next
    <3>2. CASE GetHit(r) \/ Setex(r)
      BY <1>2, <3>2, GetHitSimulates, SetexSimulates DEF Contract!Next
    <3>3. CASE Work(r) /\ ~GetHit(r) /\ ~Setex(r)
      BY <1>2, <3>3, OtherWorkSimulates DEF Contract!Next
    <3>4. CASE Restart(r)
      BY <1>2, <3>4, RestartSimulates DEF Contract!Next
    <3> QED
      BY <2>1, <3>1, <3>2, <3>3, <3>4
  <2>2. CASE World
    BY <1>2, <2>2, WorldSimulates DEF Contract!Next
  <2>3. CASE UNCHANGED vars
    BY <2>3 DEF vars, Asked, Given, Contract!contractVars
  <2> QED
    BY <1>2, <2>1, <2>2, <2>3 DEF Next
<1> QED
  BY <1>1, <1>2, Inductive, PTL DEF Spec, ImplementsContract, Contract!Spec
=============================================================================
