---------------------------- MODULE ScenesProofs ----------------------------
(***************************************************************************)
(* Theorems about DemoVerification.  The first two say what a run that     *)
(* passes verify_results has shown, for every configuration and every      *)
(* content of the directory; they are about scene 6, the login that        *)
(* disagrees with its entry.  The third derives the figures of all six     *)
(* scenes from what the repository ships, and with them the verdict.       *)
(***************************************************************************)
EXTENDS DemoVerification, FiniteSetTheorems, SequenceTheorems, TLAPS

\* The lemmas on numbers and small sets.
Small == INSTANCE ResolutionProofs WITH
    Config <- {}, Login <- {}, Directory <- {}, config <- << >>,
    login <- << >>, results <- << >>, status <- "pending", out <- << >>

Both == {"oidc", "ldap"}

(* The instance brings its own name for the cardinality of a set.          *)
LEMMA SameCardinality ==
    ASSUME NEW c, NEW i, NEW found, NEW S
    PROVE  Scene(c, i, found)!Cardinality(S) = Cardinality(S)
  BY DEF Scene!Cardinality, Cardinality

LEMMA PairIsTwo ==
    ASSUME NEW x, NEW y, x # y
    PROVE  IsFiniteSet({x, y}) /\ Cardinality({x, y}) = 2
<1>1. IsFiniteSet({x}) /\ Cardinality({x}) = 1
  BY FS_Singleton
<1>2. y \notin {x} /\ {x, y} = {x} \cup {y}
  OBVIOUS
<1>3. IsFiniteSet({x} \cup {y}) /\ Cardinality({x} \cup {y}) = 1 + 1
  BY <1>1, <1>2, FS_AddElement
<1> QED
  BY <1>2, <1>3

LEMMA BothAreTwo == Cardinality(Both) # 1
<1>1. IsFiniteSet({"oidc"}) /\ Cardinality({"oidc"}) = 1
  BY FS_Singleton
<1>2. "ldap" \notin {"oidc"} /\ Both = {"oidc"} \cup {"ldap"}
  BY DEF Both
<1>3. Cardinality({"oidc"} \cup {"ldap"}) = 2
  BY <1>1, <1>2, FS_AddElement
<1> QED
  BY <1>2, <1>3

-----------------------------------------------------------------------------
(* The sequence of scenes.                                                 *)

LEMMA SixScenes ==
    /\ Len(SCENES) = 6
    /\ SCENES[6].protocol = "oidc"
    /\ SCENES[6].user = "diana"
    /\ SCENES[6].claims.groups = {"engineering", "oncall"}
  BY DEF SCENES, LoginOf, Claims

LEMMA InitStoryInv == Init => StoryInv
  BY DEF Init, StoryInv

LEMMA AppendOutcome ==
    ASSUME StoryInv, UNCHANGED <<config, directory, verified, problems>>,
           NEW n \in Nat, n = Len(results) + 1, n <= Len(SCENES),
           \/ UNCHANGED failed
           \/ failed' = failed \cup {n} /\ SCENES[n].protocol # "ldap",
           results' = Append(results, Outcome(n)')
    PROVE  StoryInv'
<1> DEFINE All == {Outcome(i) : i \in 1..Len(SCENES)}
           new == Outcome(n)'
<1>1. n \in 1..Len(SCENES) /\ n \in Nat /\ DOMAIN results = 1..(n - 1)
  BY SixScenes DEF StoryInv
<1>2. ASSUME NEW i \in DOMAIN results PROVE results[i] = Outcome(i)'
  <2>1. i \in failed' <=> i \in failed
    BY <1>1
  <2>2. Outcome(i)' = Outcome(i)
    BY <2>1 DEF Outcome, Found, Reason
  <2> QED
    BY <2>2 DEF StoryInv
<1>3. new \in All'
  BY <1>1
<1> HIDE DEF All, new
<1>4. results \in Seq(All')
  <2>1. ASSUME NEW i \in 1..(n - 1) PROVE results[i] \in All'
    <3>1. i \in DOMAIN results /\ i \in 1..Len(SCENES)
      BY <1>1, <2>1, SixScenes
    <3>2. results[i] = Outcome(i)'
      BY <1>2, <3>1
    <3> QED
      BY <3>1, <3>2 DEF All
  <2>2. results = [i \in 1..(n - 1) |-> results[i]]
    BY <1>1 DEF StoryInv
  <2>3. results \in [1..(n - 1) -> All']
    BY <2>1, <2>2
  <2>4. n - 1 \in Nat
    BY <1>1
  <2> QED
    BY <2>3, <2>4, SeqDef
<1>5. /\ results' \in Seq(All') /\ DOMAIN results' = 1..n /\ Len(results') = n
      /\ results'[n] = new
      /\ \A i \in DOMAIN results : results'[i] = results[i]
  BY <1>3, <1>4 DEF new
<1>6. \A i \in DOMAIN results' : results'[i] = Outcome(i)'
  BY <1>1, <1>2, <1>5 DEF new
<1>7. failed' \subseteq {i \in DOMAIN results' : SCENES[i].protocol # "ldap"}
  BY <1>1, <1>5 DEF StoryInv
<1>8. ~verified
  BY SixScenes DEF StoryInv
<1> QED
  BY <1>1, <1>5, <1>6, <1>7, <1>8 DEF StoryInv, All

LEMMA NextStoryInv == StoryInv /\ [Next]_vars => StoryInv'
<1> SUFFICES ASSUME StoryInv, [Next]_vars PROVE StoryInv'
  OBVIOUS
<1>0. PICK n \in Nat : n = Len(results) + 1 /\ n \notin failed
  BY DEF StoryInv
<1>1. CASE NormalizeScene
  <2>1. Outcome(n)' = NormalizedAttributes(config, n, Found(n), Reason(n))
    BY <1>0, <1>1 DEF NormalizeScene, Outcome, Found, Reason
  <2> QED
    BY <1>0, <1>1, <2>1, AppendOutcome DEF NormalizeScene
<1>2. CASE NormalizeSceneDegraded
  <2>1. Outcome(n)' = NormalizedAttributes(config, n, << >>, "ldap_error")
    BY <1>0, <1>2 DEF NormalizeSceneDegraded, Outcome
  <2> QED
    BY <1>0, <1>2, <2>1, AppendOutcome DEF NormalizeSceneDegraded
<1>3. ASSUME UNCHANGED <<config, directory, results, failed>>
      PROVE  \A i : Outcome(i)' = Outcome(i)
  BY <1>3 DEF Outcome, Found, Reason
<1>4. CASE Verify
  BY <1>3, <1>4 DEF Verify, StoryInv
<1>5. CASE UNCHANGED vars
  BY <1>3, <1>5 DEF vars, StoryInv
<1> QED
  BY <1>1, <1>2, <1>4, <1>5 DEF Next

LEMMA SpecStoryInv == Spec => []StoryInv
  BY InitStoryInv, NextStoryInv, PTL DEF Spec

-----------------------------------------------------------------------------
(* Scene 6 with an entry: what is resolved, and from which sources.        *)

LEMMA SixExtracted ==
    ASSUME NEW c, NEW found, found # << >>
    PROVE  /\ DOMAIN Scene(c, 6, found)!Extracted = Both
           /\ Scene(c, 6, found)!Extracted["oidc"].groups
                 = {"engineering", "oncall"}
           /\ Scene(c, 6, found)!Extracted["ldap"].groups
                 = Scene(c, 6, found)!reduce_member_of(found[1].groups)
<1>1. DOMAIN Scene(c, 6, found)!Extracted = Both
  BY SixScenes DEF Scene!Extracted, Both
<1>2. /\ Scene(c, 6, found)!Extracted["oidc"] =
            Scene(c, 6, found)!extract("oidc", SCENES[6].claims)
      /\ Scene(c, 6, found)!Extracted["ldap"] =
            Scene(c, 6, found)!extract("ldap", found[1])
  BY SixScenes DEF Scene!Extracted
<1>3. Scene(c, 6, found)!extract("oidc", SCENES[6].claims).groups =
        {"engineering", "oncall"}
  BY SixScenes DEF Scene!extract, Scene!NotAString
<1>4. Scene(c, 6, found)!extract("ldap", found[1]).groups =
        Scene(c, 6, found)!reduce_member_of(found[1].groups)
  BY DEF Scene!extract
<1> QED
  BY <1>1, <1>2, <1>3, <1>4

LEMMA SixSources ==
    ASSUME NEW c, NEW found, found # << >>, NEW attr
    PROVE  LET map == Scene(c, 6, found)!attribute_sources(attr) IN
           /\ DOMAIN map \subseteq Both
           /\ \A s \in DOMAIN map :
                 map[s] = Scene(c, 6, found)!Extracted[s][attr]
           /\ \A s \in Both \ DOMAIN map :
                 Scene(c, 6, found)!Extracted[s][attr] =
                    Scene(c, 6, found)!Missing(attr)
  BY SixExtracted DEF Scene!attribute_sources

LEMMA SixWeights ==
    ASSUME NEW c \in Config, NEW found, NEW attr, NEW s
    PROVE  Scene(c, 6, found)!weight_for(attr, s) \in Int
  BY ConfigAssumption
  DEF Scene!weight_for, Scene!Floor, Scene!WellFormed

LEMMA SixHeaviest ==
    ASSUME NEW c \in Config, NEW found, NEW attr, NEW S \in SUBSET Both, S # {}
    PROVE  Scene(c, 6, found)!heaviest(attr, S) \in S
<1> DEFINE W(s) == Scene(c, 6, found)!weight_for(attr, s)
           m == Scene(c, 6, found)!max_weight(attr, S)
<1>1. \A s \in S : W(s) \in Int
  BY SixWeights
<1>2. \E t \in S : \A s \in S : W(t) >= W(s)
  <2>1. CASE S = Both
    <3>1. PICK o \in Int, l \in Int : o = W("oidc") /\ l = W("ldap")
      BY <1>1, <2>1 DEF Both
    <3>2. o >= l \/ l >= o
      OBVIOUS
    <3> QED
      BY <2>1, <3>1, <3>2 DEF Both
  <2>2. CASE \E t \in S : S = {t}
    BY <1>1, <2>2
  <2> QED
    BY <2>1, <2>2 DEF Both
<1>3. \E w \in {W(s) : s \in S} : \A s \in S : w >= W(s)
  BY <1>2
<1>4. m \in {W(s) : s \in S}
  BY <1>3 DEF Scene!max_weight
<1> QED
  BY <1>4 DEF Scene!heaviest

(* The winner of a conflict is one of its sources.                         *)
LEMMA SixWinner ==
    ASSUME NEW c \in Config, NEW found, NEW attr, NEW S \in SUBSET Both, S # {}
    PROVE  Scene(c, 6, found)!pick_winner(attr, S) \in S
<1> DEFINE list == Scene(c, 6, found)!priority_for(attr)
           listed == {i \in DOMAIN list : list[i] \in S}
<1>1. CASE listed = {}
  BY <1>1, SixHeaviest DEF Scene!pick_winner
<1>2. CASE listed # {}
  <2>1. list \in Seq(STRING)
    <3>1. << >> \in Seq(STRING)
      OBVIOUS
    <3> QED
      BY <3>1, ConfigAssumption DEF Scene!priority_for, Scene!WellFormed
  <2>2. listed \in SUBSET Nat
    <3> HIDE DEF list
    <3> QED
      BY <2>1
  <2>3. (CHOOSE i \in listed : \A j \in listed : i <= j) \in listed
    <3> HIDE DEF listed
    <3>1. \E i \in listed : \A j \in listed : i <= j
      BY <1>2, <2>2, Small!LeastNat
    <3> QED
      BY <3>1
  <2> QED
    BY <1>2, <2>3 DEF Scene!pick_winner
<1> QED
  BY <1>1, <1>2

(* A conflict has both sources, and its outcome is what the winner says.   *)
LEMMA SixConflict ==
    ASSUME NEW c \in Config, NEW found, found # << >>,
           NEW attr \in {"display_name", "department"},
           attr \in DOMAIN Scene(c, 6, found)!details,
           Scene(c, 6, found)!details[attr].resolution = "priority"
    PROVE  LET d      == Scene(c, 6, found)!details[attr]
               winner == Scene(c, 6, found)!pick_winner(attr, Both)
           IN  /\ d.sources = {winner}
               /\ d.value = Scene(c, 6, found)!Extracted[winner][attr]
<1> DEFINE map == Scene(c, 6, found)!attribute_sources(attr)
           winner == Scene(c, 6, found)!pick_winner(attr, DOMAIN map)
<1>1. /\ DOMAIN map # {}
      /\ Scene(c, 6, found)!details[attr] =
            Scene(c, 6, found)!resolve_scalar(attr, map)
  BY DEF Scene!details
<1>2. Cardinality({map[s] : s \in DOMAIN map}) # 1
  <2> SUFFICES ASSUME Cardinality({map[s] : s \in DOMAIN map}) = 1
               PROVE  FALSE
    OBVIOUS
  <2>1. Scene(c, 6, found)!resolve_scalar(attr, map).resolution
          \in {"single_source", "unanimous"}
    <3> HIDE DEF map
    <3> QED
      BY SameCardinality DEF Scene!resolve_scalar
  <2> QED
    BY <1>1, <2>1
<1>3. /\ Scene(c, 6, found)!details[attr].sources = {winner}
      /\ Scene(c, 6, found)!details[attr].value = map[winner]
  BY <1>1, <1>2, SameCardinality DEF Scene!resolve_scalar
<1>4. DOMAIN map = Both
  <2>1. DOMAIN map \subseteq Both
    BY SixSources
  <2>2. ASSUME NEW t, DOMAIN map = {t} PROVE FALSE
    <3>1. {map[s] : s \in DOMAIN map} = {map[t]}
      BY <2>2
    <3> QED
      BY <1>2, <3>1, FS_Singleton
  <2> HIDE DEF map
  <2> QED
    BY <1>1, <2>1, <2>2 DEF Both
<1>5. winner \in DOMAIN map
  BY <1>4, SixWinner DEF Both
<1>6. map[winner] = Scene(c, 6, found)!Extracted[winner][attr]
  BY <1>5, SixSources
<1> QED
  BY <1>3, <1>4, <1>6

(* Groups that are strictly more than the token's are those of both        *)
(* sources, and are united unless the directory has all of the token's.    *)
LEMMA SixGroups ==
    ASSUME NEW c \in Config, NEW found, found # << >>,
           "groups" \in DOMAIN Scene(c, 6, found)!details,
           NEW token, token = {"engineering", "oncall"},
           token \subseteq Scene(c, 6, found)!details["groups"].value,
           token # Scene(c, 6, found)!details["groups"].value
    PROVE  LET own   == Scene(c, 6, found)!Extracted["oidc"].groups
               entry == Scene(c, 6, found)!Extracted["ldap"].groups
           IN  /\ Scene(c, 6, found)!details["groups"].value = own \cup entry
               /\ \/ Scene(c, 6, found)!merge_strategy_for("groups") = "union"
                  \/ token \subseteq entry
<1> DEFINE map == Scene(c, 6, found)!attribute_sources("groups")
           own == Scene(c, 6, found)!Extracted["oidc"].groups
           entry == Scene(c, 6, found)!Extracted["ldap"].groups
           merged == Scene(c, 6, found)!apply_merge_strategy(map)
           strategy == Scene(c, 6, found)!merge_strategy_for("groups")
           value == Scene(c, 6, found)!details["groups"].value
<1>1. own = token
  BY SixExtracted
<1>2. /\ DOMAIN map \subseteq Both
      /\ \A s \in DOMAIN map :
            map[s] = Scene(c, 6, found)!Extracted[s].groups
      /\ \A s \in Both \ DOMAIN map :
            Scene(c, 6, found)!Extracted[s].groups = {}
  BY SixSources DEF Scene!Missing
<1>3. "oidc" \in DOMAIN map /\ map["oidc"] = token
  BY <1>1, <1>2 DEF Both
<1>4. value = Scene(c, 6, found)!resolve_groups(map).value
  BY DEF Scene!details
<1>5. "ldap" \in DOMAIN map
  <2> SUFFICES ASSUME "ldap" \notin DOMAIN map PROVE FALSE
    OBVIOUS
  <2>1. DOMAIN map = {"oidc"}
    BY <1>2, <1>3 DEF Both
  <2>2. Cardinality(DOMAIN map) = 1
    BY <2>1, FS_Singleton
  <2>3. value = map[CHOOSE s \in DOMAIN map : TRUE]
    <3> HIDE DEF map, value
    <3> QED
      BY <1>4, <2>2, SameCardinality DEF Scene!resolve_groups
  <2>4. (CHOOSE s \in DOMAIN map : TRUE) = "oidc"
    BY <2>1
  <2> QED
    BY <1>3, <2>3, <2>4
<1>6. DOMAIN map = Both /\ map["ldap"] = entry
  BY <1>2, <1>3, <1>5 DEF Both
<1>7. Cardinality(DOMAIN map) # 1
  BY <1>6, BothAreTwo
<1>8. value = merged
  <2> HIDE DEF map, value
  <2> QED
    BY <1>4, <1>7, SameCardinality DEF Scene!resolve_groups
<1>9. strategy \in {"union", "intersection", "priority"}
  BY ConfigAssumption DEF Scene!merge_strategy_for, Scene!WellFormed
<1>10. UNION {map[s] : s \in DOMAIN map} = token \cup entry
  BY <1>3, <1>6 DEF Both
<1>11. CASE strategy = "union"
  BY <1>1, <1>8, <1>10, <1>11 DEF Scene!apply_merge_strategy
<1>12. CASE strategy = "intersection"
  <2>1. merged \subseteq map["oidc"]
    BY <1>3, <1>12 DEF Scene!apply_merge_strategy
  <2> QED
    BY <1>3, <1>8, <2>1
<1>13. CASE strategy = "priority"
  <2>1. \E s \in Both : merged = map[s]
    <3> DEFINE list == Scene(c, 6, found)!priority_for("groups")
               listed == {i \in DOMAIN list : list[i] \in DOMAIN map}
    <3>1. CASE listed = {}
      BY <1>5, <1>13, <3>1 DEF Scene!apply_merge_strategy, Both
    <3>2. CASE listed # {}
      <4>1. list \in Seq(STRING)
        <5>1. << >> \in Seq(STRING)
          OBVIOUS
        <5> QED
          BY <5>1, ConfigAssumption DEF Scene!priority_for, Scene!WellFormed
      <4>2. listed \in SUBSET Nat
        <5> HIDE DEF list
        <5> QED
          BY <4>1
      <4>3. (CHOOSE i \in listed : \A j \in listed : i <= j) \in listed
        <5> HIDE DEF listed
        <5>1. \E i \in listed : \A j \in listed : i <= j
          BY <3>2, <4>2, Small!LeastNat
        <5> QED
          BY <5>1
      <4> QED
        BY <1>6, <1>13, <3>2, <4>3 DEF Scene!apply_merge_strategy
    <3> QED
      BY <3>1, <3>2
  <2>2. merged # map["oidc"]
    BY <1>3, <1>8
  <2>3. merged = entry
    BY <1>6, <2>1, <2>2 DEF Both
  <2>4. value = entry /\ token \subseteq entry
    BY <1>8, <2>3
  <2> QED
    BY <1>1, <2>4
<1> QED
  BY <1>9, <1>11, <1>12, <1>13

-----------------------------------------------------------------------------
(* The theorems.                                                           *)

(* What a run without problems says of scene 6.                            *)
LEMMA PassedSix ==
    ASSUME StoryInv, verified, problems = {}
    PROVE  /\ directory["diana"] # << >>
           /\ results[6].details = Scene(config, 6, directory["diana"])!details
           /\ WonBy(results[6], "display_name", "oidc")
           /\ WonBy(results[6], "department", "ldap")
           /\ AddsGroups(results[6], SCENES[6].claims.groups)
<1>1. /\ Len(results) = 6
      /\ problems = verify_results(results)
      /\ results[6] = Outcome(6)
  BY SixScenes DEF StoryInv
<1>2. Check5(results) = {} /\ Check7(results) = {}
  BY <1>1 DEF verify_results
<1>3. results[6].applied
  <2>1. 6 \in 5..6
    OBVIOUS
  <2> QED
    BY <1>2, <2>1 DEF Check5
<1>4. PICK found \in {<< >>, Found(6)} : \E reason :
        results[6] = NormalizedAttributes(config, 6, found, reason)
  BY <1>1 DEF Outcome
<1>5. /\ results[6].details = Scene(config, 6, found)!details
      /\ results[6].applied = (found # << >>)
  BY <1>4 DEF NormalizedAttributes
<1>6. Found(6) = directory["diana"]
  BY SixScenes DEF Found
<1>7. found = directory["diana"] /\ found # << >>
  BY <1>3, <1>4, <1>5, <1>6
<1>8. /\ WonBy(results[6], "display_name", "oidc")
      /\ WonBy(results[6], "department", "ldap")
      /\ AddsGroups(results[6], SCENES[6].claims.groups)
  <2>1. 6 \notin Check7(results)
    BY <1>2
  <2> QED
    BY <2>1 DEF Check7
<1> QED
  BY <1>5, <1>7, <1>8

LEMMA PassedConflict ==
    ASSUME StoryInv, verified, problems = {},
           NEW attr \in {"display_name", "department"}, NEW source,
           WonBy(results[6], attr, source)
    PROVE  LET found == directory["diana"] IN
           /\ source = Scene(config, 6, found)!pick_winner(attr, Both)
           /\ results[6].details[attr].value =
                 Scene(config, 6, found)!Extracted[source][attr]
<1> DEFINE found == directory["diana"]
<1>1. found # << >> /\ results[6].details = Scene(config, 6, found)!details
  BY PassedSix
<1>2. /\ attr \in DOMAIN results[6].details
      /\ results[6].details[attr].resolution = "priority"
      /\ results[6].details[attr].sources = {source}
  BY DEF WonBy, Has
<1>3. config \in Config
  BY DEF StoryInv
<1>4. LET d      == Scene(config, 6, found)!details[attr]
          winner == Scene(config, 6, found)!pick_winner(attr, Both)
      IN  /\ d.sources = {winner}
          /\ d.value = Scene(config, 6, found)!Extracted[winner][attr]
  BY <1>1, <1>2, <1>3, SixConflict
<1> QED
  BY <1>1, <1>2, <1>4

LEMMA PassedGroups ==
    ASSUME StoryInv, verified, problems = {}
    PROVE  LET found == directory["diana"]
               own   == Scene(config, 6, found)!Extracted["oidc"].groups
               entry == Scene(config, 6, found)!Extracted["ldap"].groups
           IN  /\ results[6].details["groups"].value = own \cup entry
               /\ \/ Scene(config, 6, found)!merge_strategy_for("groups")
                        = "union"
                  \/ SCENES[6].claims.groups \subseteq entry
<1> DEFINE found == directory["diana"]
<1>1. found # << >> /\ results[6].details = Scene(config, 6, found)!details
  BY PassedSix
<1>2. /\ "groups" \in DOMAIN results[6].details
      /\ SCENES[6].claims.groups \subseteq results[6].details["groups"].value
      /\ SCENES[6].claims.groups # results[6].details["groups"].value
  BY PassedSix DEF AddsGroups, Has
<1>3. config \in Config
  BY DEF StoryInv
<1> QED
  BY <1>1, <1>2, <1>3, SixScenes, SixGroups

(* Passing the verification means that data was merged, with any           *)
(* configuration and any directory: verify_results looks at details and    *)
(* figures only, and they cannot be had without the merge.                 *)
THEOREM PassingShowsMergedData == Spec => []PassedIsMerged
<1>1. ASSUME StoryInv PROVE PassedIsMerged
  <2> SUFFICES ASSUME verified, problems = {}
               PROVE  LET found == directory["diana"]
                          own   == Scene(config, 6, found)!Extracted["oidc"]
                          entry == Scene(config, 6, found)!Extracted["ldap"]
                          shown == results[6].details
                      IN  /\ shown["department"].value = entry.department
                          /\ shown["display_name"].value = own.display_name
                          /\ shown["groups"].value = own.groups \cup entry.groups
    BY DEF PassedIsMerged
  <2>1. /\ WonBy(results[6], "display_name", "oidc")
        /\ WonBy(results[6], "department", "ldap")
    BY <1>1, PassedSix
  <2>2. results[6].details["department"].value =
          Scene(config, 6, directory["diana"])!Extracted["ldap"].department
    BY <1>1, <2>1, PassedConflict
  <2>3. results[6].details["display_name"].value =
          Scene(config, 6, directory["diana"])!Extracted["oidc"].display_name
    BY <1>1, <2>1, PassedConflict
  <2>4. results[6].details["groups"].value =
          Scene(config, 6, directory["diana"])!Extracted["oidc"].groups
            \cup Scene(config, 6, directory["diana"])!Extracted["ldap"].groups
    BY <1>1, PassedGroups
  <2> QED
    BY <2>2, <2>3, <2>4
<1> QED
  BY <1>1, SpecStoryInv, PTL

(* A configuration that drifted where the story depends on it is reported, *)
(* with any directory that does not hide it.                               *)
THEOREM DriftNeverPasses == Spec => []DriftIsReported
<1>1. ASSUME StoryInv PROVE DriftIsReported
  <2> DEFINE found == directory["diana"]
             Winner(attr) ==
                Scene(config, 6, found)!pick_winner(attr, {"oidc", "ldap"})
             strategy == Scene(config, 6, found)!merge_strategy_for("groups")
             token == SCENES[6].claims.groups
  <2>1. SUFFICES ASSUME verified, problems = {}
                 PROVE  /\ Winner("department") = "ldap"
                        /\ Winner("display_name") = "oidc"
                        /\ \/ strategy = "union"
                           \/ /\ found # << >>
                              /\ token \subseteq Scene(config, 6, found)!
                                    reduce_member_of(found[1].groups)
    BY DEF DriftIsReported
  <2>2. /\ found # << >>
        /\ WonBy(results[6], "display_name", "oidc")
        /\ WonBy(results[6], "department", "ldap")
    BY <1>1, <2>1, PassedSix
  <2>3. Winner("department") = "ldap" /\ Winner("display_name") = "oidc"
    BY <1>1, <2>1, <2>2, PassedConflict DEF Both
  <2>4. strategy = "union" \/
        token \subseteq Scene(config, 6, found)!reduce_member_of(found[1].groups)
    BY <1>1, <2>1, <2>2, PassedGroups, SixExtracted
  <2> QED
    BY <2>2, <2>3, <2>4
<1> QED
  BY <1>1, SpecStoryInv, PTL

-----------------------------------------------------------------------------
(* The figures of the story: the shipped configuration and directory.      *)

(* The tables of normalization_values, on the claims of the scenes.        *)
LEMMA Departments ==
    ASSUME NEW c, NEW i, NEW found
    PROVE  /\ \A s \in {"eng", "Engineering", "r&d"} :
                 Scene(c, i, found)!normalize_department(s) = "Engineering"
           /\ Scene(c, i, found)!normalize_department("Marketing") = "Marketing"
           /\ Scene(c, i, found)!normalize_department("Sorcery") = "Sorcery"
           /\ Scene(c, i, found)!was_department_mapped("Engineering")
           /\ Scene(c, i, found)!was_department_mapped("Marketing")
           /\ ~Scene(c, i, found)!was_department_mapped("Sorcery")
<1> DEFINE K(s) == Scene(c, i, found)!Key(s)
           L == Scene(c, i, found)!LowerCase
           T == Scene(c, i, found)!DEPARTMENT_CANONICAL
<1>1. /\ K("eng") = "eng" /\ K("Engineering") = "engineering"
      /\ K("r&d") = "r&d" /\ K("Marketing") = "marketing"
      /\ K("Sorcery") = "sorcery"
  <2>1. "eng" \in L /\ "r&d" \in L
    BY DEF Scene!LowerCase, Scene!DEPARTMENT_CANONICAL
  <2>2. {"Engineering", "Marketing", "Sorcery"} \cap L = {}
    BY DEF Scene!LowerCase, Scene!DEPARTMENT_CANONICAL,
           Scene!EMPLOYEE_TYPE_CANONICAL, Scene!Empty, Scene!LongSales
  <2> HIDE DEF L
  <2> QED
    BY <2>1, <2>2 DEF Scene!Key, L
<1>2. /\ "eng" \in DOMAIN T /\ T["eng"] = "Engineering"
      /\ "engineering" \in DOMAIN T /\ T["engineering"] = "Engineering"
  BY DEF Scene!DEPARTMENT_CANONICAL
<1>3. /\ "r&d" \in DOMAIN T /\ T["r&d"] = "Engineering"
      /\ "marketing" \in DOMAIN T /\ T["marketing"] = "Marketing"
  BY DEF Scene!DEPARTMENT_CANONICAL
<1>4. "sorcery" \notin DOMAIN T
  BY DEF Scene!DEPARTMENT_CANONICAL
<1> HIDE DEF T, K
<1>5. /\ \A s \in {"eng", "Engineering", "r&d"} :
            Scene(c, i, found)!normalize_department(s) = "Engineering"
      /\ Scene(c, i, found)!normalize_department("Marketing") = "Marketing"
  BY <1>1, <1>2, <1>3
     DEF Scene!normalize_department, Scene!Absent, Scene!NotAString, T, K
<1>6. Scene(c, i, found)!normalize_department("Sorcery") = "Sorcery"
  BY <1>1, <1>4
     DEF Scene!normalize_department, Scene!Absent, Scene!NotAString, Scene!Title,
         Scene!Empty, Scene!LongSales, T, K
<1> QED
  BY <1>1, <1>2, <1>3, <1>4, <1>5, <1>6
     DEF Scene!was_department_mapped, T, K

LEMMA EmployeeTypes ==
    ASSUME NEW c, NEW i, NEW found
    PROVE  /\ Scene(c, i, found)!normalize_employee_type("E") = "FTE"
           /\ Scene(c, i, found)!normalize_employee_type("FTE") = "FTE"
           /\ Scene(c, i, found)!normalize_employee_type("C") = "contractor"
           /\ Scene(c, i, found)!normalize_employee_type("vendor") = "vendor"
           /\ Scene(c, i, found)!normalize_employee_type("wizard")
                 = Scene(c, i, found)!Absent
<1> DEFINE K(s) == Scene(c, i, found)!Key(s)
           L == Scene(c, i, found)!LowerCase
           T == Scene(c, i, found)!EMPLOYEE_TYPE_CANONICAL
<1>1. /\ K("E") = "e" /\ K("FTE") = "fte" /\ K("C") = "c"
      /\ K("vendor") = "vendor" /\ K("wizard") = "wizard"
  <2>1. "vendor" \in L /\ "wizard" \in L
    BY DEF Scene!LowerCase, Scene!EMPLOYEE_TYPE_CANONICAL
  <2>2. {"E", "FTE", "C"} \cap L = {}
    BY DEF Scene!LowerCase, Scene!DEPARTMENT_CANONICAL,
           Scene!EMPLOYEE_TYPE_CANONICAL, Scene!Empty, Scene!LongSales
  <2> HIDE DEF L
  <2> QED
    BY <2>1, <2>2 DEF Scene!Key, L
<1>2. /\ "e" \in DOMAIN T /\ T["e"] = "FTE"
      /\ "fte" \in DOMAIN T /\ T["fte"] = "FTE"
  BY DEF Scene!EMPLOYEE_TYPE_CANONICAL
<1>3. /\ "c" \in DOMAIN T /\ T["c"] = "contractor"
      /\ "vendor" \in DOMAIN T /\ T["vendor"] = "vendor"
      /\ "wizard" \notin DOMAIN T
  BY DEF Scene!EMPLOYEE_TYPE_CANONICAL
<1> HIDE DEF T, K
<1> QED
  BY <1>1, <1>2, <1>3
     DEF Scene!normalize_employee_type, Scene!Absent, Scene!NotAString, T, K

LEMMA ShippedWeights ==
    ASSUME NEW i, NEW found
    PROVE  LET W(attr, s) == Scene(Shipped, i, found)!weight_for(attr, s) IN
           /\ /\ W("display_name", "oidc") = 70
              /\ W("display_name", "saml") = 75
              /\ W("display_name", "ldap") = 85
           /\ /\ W("primary_email", "oidc") = 95
              /\ W("primary_email", "saml") = 75
              /\ W("primary_email", "ldap") = 65
           /\ /\ W("department", "oidc") = 70
              /\ W("department", "saml") = 50
              /\ W("department", "ldap") = 90
           /\ /\ W("employee_type", "oidc") = 60
              /\ W("employee_type", "saml") = 80
              /\ W("employee_type", "ldap") = 95
           /\ /\ W("groups", "oidc") = 80
              /\ W("groups", "saml") = 60
              /\ W("groups", "ldap") = 70
<1>1. /\ DOMAIN Shipped.attributes =
            {"display_name", "primary_email", "department", "employee_type",
             "groups"}
      /\ Shipped.source_weights = Weights(80, 60, 70)
      /\ Shipped.attributes["display_name"].weights = Weights(70, 75, 85)
      /\ Shipped.attributes["primary_email"].weights = Weights(95, 75, 65)
      /\ Shipped.attributes["department"].weights = Weights(70, 50, 90)
      /\ Shipped.attributes["employee_type"].weights = Weights(60, 80, 95)
      /\ Shipped.attributes["groups"].weights = << >>
  BY DEF Shipped, Entry
<1>2. ASSUME NEW o, NEW s, NEW l
      PROVE  /\ DOMAIN Weights(o, s, l) = {"oidc", "saml", "ldap"}
             /\ Weights(o, s, l)["oidc"] = o
             /\ Weights(o, s, l)["saml"] = s
             /\ Weights(o, s, l)["ldap"] = l
  BY DEF Weights
<1>3. DOMAIN << >> = {}
  OBVIOUS
<1> QED
  BY <1>1, <1>2, <1>3 DEF Scene!weight_for

(* A login that nothing was found for: its own protocol is the source of   *)
(* everything.                                                             *)
Nothing(found) == found = << >>

Own(c, i, found) ==
    Scene(c, i, found)!extract(SCENES[i].protocol, SCENES[i].claims)

Present(c, i, found, attr) ==
    Own(c, i, found)[attr] # Scene(c, i, found)!Missing(attr)

FromOwn(c, i, found, attr) ==
    Scene(c, i, found)!attribute_sources(attr) =
        [s \in {SCENES[i].protocol} |-> Own(c, i, found)[attr]]

LEMMA AloneExtracted ==
    ASSUME NEW c, NEW i, NEW found, Nothing(found)
    PROVE  LET E == Scene(c, i, found)!Extracted IN
           DOMAIN E = {SCENES[i].protocol} /\ E[SCENES[i].protocol] = Own(c, i, found)
  BY DEF Scene!Extracted, Own, Nothing

LEMMA AlonePresent ==
    ASSUME NEW c, NEW i, NEW found, Nothing(found), NEW attr,
           Present(c, i, found, attr)
    PROVE  FromOwn(c, i, found, attr)
<1> DEFINE E == Scene(c, i, found)!Extracted
<1>1. DOMAIN E = {SCENES[i].protocol} /\ E[SCENES[i].protocol] = Own(c, i, found)
  BY AloneExtracted
<1> HIDE DEF E
<1> QED
  BY <1>1 DEF Scene!attribute_sources, E, Present, FromOwn

LEMMA AloneMissing ==
    ASSUME NEW c, NEW i, NEW found, Nothing(found), NEW attr,
           ~Present(c, i, found, attr)
    PROVE  DOMAIN Scene(c, i, found)!attribute_sources(attr) = {}
<1> DEFINE E == Scene(c, i, found)!Extracted
<1>1. DOMAIN E = {SCENES[i].protocol} /\ E[SCENES[i].protocol] = Own(c, i, found)
  BY AloneExtracted
<1> HIDE DEF E
<1> QED
  BY <1>1 DEF Scene!attribute_sources, E, Present

LEMMA AloneScalar ==
    ASSUME NEW c, NEW i, NEW found, Nothing(found),
           NEW attr \in {"display_name", "primary_email", "department",
                         "employee_type"},
           Own(c, i, found)[attr] # Scene(c, i, found)!Absent
    PROVE  LET S == Scene(c, i, found)!details
               w == Scene(c, i, found)!weight_for(attr, SCENES[i].protocol)
           IN  /\ attr \in DOMAIN S
               /\ S[attr].resolution = "single_source"
               /\ w \in Int =>
                     S[attr].confidence = Scene(c, i, found)!
                                penalized(attr, 10 * w, Own(c, i, found)[attr])
<1> DEFINE map == Scene(c, i, found)!attribute_sources(attr)
           s == SCENES[i].protocol
           own == Own(c, i, found)[attr]
           W(t) == Scene(c, i, found)!weight_for(attr, t)
<1>0. Present(c, i, found, attr)
  BY DEF Scene!Missing, Present
<1>1. DOMAIN map = {s} /\ map[s] = own
  <2>0. FromOwn(c, i, found, attr)
    BY <1>0, AlonePresent
  <2>1. map = [t \in {s} |-> Own(c, i, found)[attr]]
    BY <2>0 DEF FromOwn
  <2> HIDE DEF map
  <2> QED
    BY <2>1
<1>2. /\ attr \in DOMAIN Scene(c, i, found)!details
      /\ Scene(c, i, found)!details[attr] =
            Scene(c, i, found)!resolve_scalar(attr, map)
  BY <1>1 DEF Scene!details, Scene!Attribute, Scene!Scalar
<1> HIDE DEF map, s, own
<1>3. /\ {map[t] : t \in DOMAIN map} = {own}
      /\ (CHOOSE v \in {own} : TRUE) = own
  BY <1>1
<1>4. /\ Scene(c, i, found)!Cardinality({map[t] : t \in DOMAIN map}) = 1
      /\ Scene(c, i, found)!Cardinality(DOMAIN map) = 1
  BY <1>1, <1>3, FS_Singleton, SameCardinality
<1>5. /\ Scene(c, i, found)!details[attr].resolution = "single_source"
      /\ Scene(c, i, found)!details[attr].confidence =
            Scene(c, i, found)!penalized(attr,
                10 * Scene(c, i, found)!max_weight(attr, {s}), own)
  <2> DEFINE r == Scene(c, i, found)!resolve_scalar(attr, map)
  <2>1. r.resolution = "single_source"
    BY <1>4 DEF Scene!resolve_scalar
  <2>2. r.confidence = Scene(c, i, found)!penalized(attr,
                10 * Scene(c, i, found)!max_weight(attr, DOMAIN map),
                CHOOSE v \in {map[t] : t \in DOMAIN map} : TRUE)
    BY <1>4 DEF Scene!resolve_scalar
  <2> HIDE DEF r
  <2> QED
    BY <1>1, <1>2, <1>3, <2>1, <2>2 DEF r
<1>6. W(s) \in Int => Scene(c, i, found)!max_weight(attr, {s}) = W(s)
  <2> SUFFICES ASSUME W(s) \in Int
               PROVE  (CHOOSE w \in {W(t) : t \in {s}} :
                          \A t \in {s} : w >= W(t)) = W(s)
    BY DEF Scene!max_weight
  <2>1. \A t \in {s} : W(s) >= W(t)
    OBVIOUS
  <2>2. {W(t) : t \in {s}} = {W(s)}
    OBVIOUS
  <2> HIDE DEF W
  <2> QED
    BY <2>1, <2>2
<1> QED
  BY <1>2, <1>5, <1>6 DEF own, s

LEMMA AloneGroups ==
    ASSUME NEW c, NEW i, NEW found, Nothing(found), Own(c, i, found).groups # {}
    PROVE  LET S == Scene(c, i, found)!details IN
           /\ "groups" \in DOMAIN S
           /\ S["groups"].resolution = "list_merge"
           /\ S["groups"].sources = {SCENES[i].protocol}
           /\ S["groups"].confidence =
                 10 * Scene(c, i, found)!weight_for("groups", SCENES[i].protocol)
<1> DEFINE map == Scene(c, i, found)!attribute_sources("groups")
           s == SCENES[i].protocol
<1>0. Present(c, i, found, "groups")
  BY DEF Scene!Missing, Present
<1>1. DOMAIN map = {s}
  <2>0. FromOwn(c, i, found, "groups")
    BY <1>0, AlonePresent
  <2>1. map = [t \in {s} |-> Own(c, i, found)["groups"]]
    BY <2>0 DEF FromOwn
  <2> HIDE DEF map
  <2> QED
    BY <2>1
<1>2. /\ "groups" \in DOMAIN Scene(c, i, found)!details
      /\ Scene(c, i, found)!details["groups"] =
            Scene(c, i, found)!resolve_groups(map)
  BY <1>1 DEF Scene!details, Scene!Attribute, Scene!Scalar
<1> HIDE DEF map, s
<1>3. /\ Scene(c, i, found)!Cardinality(DOMAIN map) = 1
      /\ (CHOOSE t \in DOMAIN map : TRUE) = s
  BY <1>1, FS_Singleton, SameCardinality
<1>4. Scene(c, i, found)!resolve_groups(map) =
        [resolution |-> "list_merge", value |-> map[s],
         confidence |-> 10 * Scene(c, i, found)!weight_for("groups", s),
         sources |-> {s}, losers |-> << >>]
  BY <1>3 DEF Scene!resolve_groups
<1> QED
  BY <1>2, <1>4 DEF s

(* A missing attribute has no detail, and every detail is of one source.   *)
LEMMA AloneDetails ==
    ASSUME NEW c, NEW i, NEW found, Nothing(found)
    PROVE  LET S == Scene(c, i, found)!details IN
           /\ \A attr : ~Present(c, i, found, attr) => attr \notin DOMAIN S
           /\ \A attr \in DOMAIN S : SingleSource(attr, S[attr])
<1> DEFINE S == Scene(c, i, found)!details
<1>1. ASSUME NEW attr, ~Present(c, i, found, attr)
      PROVE  attr \notin DOMAIN S
  BY <1>1, AloneMissing DEF Scene!details
<1>2. ASSUME NEW attr \in DOMAIN S PROVE SingleSource(attr, S[attr])
  <2>1. /\ attr \in {"display_name", "primary_email", "department",
                     "employee_type", "groups"}
        /\ Present(c, i, found, attr)
    BY <1>1, <1>2 DEF Scene!details, Scene!Attribute, Scene!Scalar
  <2>2. CASE attr = "groups"
    <3>1. /\ S[attr].resolution = "list_merge"
          /\ S[attr].sources = {SCENES[i].protocol}
      BY <2>1, <2>2, AloneGroups DEF Scene!Missing, Present
    <3>2. Cardinality({SCENES[i].protocol}) = 1
      BY FS_Singleton
    <3>3. Cardinality(S[attr].sources) = 1
      BY <3>1, <3>2
    <3> HIDE DEF S
    <3> QED
      BY <2>2, <3>1, <3>3 DEF SingleSource
  <2>3. CASE attr # "groups"
    BY <2>1, <2>3, AloneScalar DEF Scene!Missing, Present, SingleSource
  <2> QED
    BY <2>2, <2>3
<1> QED
  BY <1>1, <1>2

(* What the logins of the first four scenes say.                           *)
LEMMA FourProtocols ==
    /\ SCENES[1].protocol = "oidc" /\ SCENES[2].protocol = "saml"
    /\ SCENES[3].protocol = "ldap" /\ SCENES[4].protocol = "saml"
    /\ SCENES[1].user = "frank" /\ SCENES[2].user = "frank"
    /\ SCENES[4].user = "mallory"
  BY DEF SCENES, LoginOf, Claims

LEMMA FourOwn ==
    ASSUME NEW c, NEW found
    PROVE  /\ Own(c, 1, found).department = "Engineering"
           /\ Own(c, 2, found).department = "Engineering"
           /\ Own(c, 3, found).department = "Engineering"
           /\ Own(c, 4, found).department = "Sorcery"
           /\ Own(c, 1, found).employee_type = "FTE"
           /\ Own(c, 2, found).employee_type = "FTE"
           /\ Own(c, 3, found).employee_type = "contractor"
           /\ Own(c, 4, found).employee_type = Scene(c, 4, found)!Absent
<1>1. ASSUME NEW i
      PROVE  /\ Own(c, i, found).department =
                   Scene(c, i, found)!normalize_department(SCENES[i].claims.department)
             /\ Own(c, i, found).employee_type =
                   Scene(c, i, found)!normalize_employee_type(
                                                SCENES[i].claims.employee_type)
  BY DEF Own, Scene!extract
<1>2. /\ SCENES[1].claims.department = "eng"
      /\ SCENES[2].claims.department = "Engineering"
      /\ SCENES[3].claims.department = "r&d"
      /\ SCENES[4].claims.department = "Sorcery"
  BY DEF SCENES, LoginOf, Claims
<1>3. /\ SCENES[1].claims.employee_type = "E"
      /\ SCENES[2].claims.employee_type = "FTE"
      /\ SCENES[3].claims.employee_type = "C"
      /\ SCENES[4].claims.employee_type = "wizard"
  BY DEF SCENES, LoginOf, Claims
<1>4. /\ Own(c, 1, found).department = "Engineering"
      /\ Own(c, 2, found).department = "Engineering"
      /\ Own(c, 3, found).department = "Engineering"
      /\ Own(c, 4, found).department = "Sorcery"
  BY <1>1, <1>2, Departments
<1>5. /\ Own(c, 1, found).employee_type = "FTE"
      /\ Own(c, 2, found).employee_type = "FTE"
      /\ Own(c, 3, found).employee_type = "contractor"
      /\ Own(c, 4, found).employee_type = Scene(c, 4, found)!Absent
  BY <1>1, <1>3, EmployeeTypes
<1> QED
  BY <1>4, <1>5

LEMMA FourPresent ==
    ASSUME NEW c, NEW found, NEW i \in {1, 2, 3, 4}
    PROVE  /\ Own(c, i, found).display_name # Scene(c, i, found)!Absent
           /\ Own(c, i, found).primary_email # Scene(c, i, found)!Absent
           /\ Own(c, i, found).groups # {}
<1>1. /\ Own(c, i, found).display_name =
            Scene(c, i, found)!coerce_str(SCENES[i].claims.display_name)
      /\ Own(c, i, found).primary_email =
            Scene(c, i, found)!coerce_str(SCENES[i].claims.primary_email)
  BY DEF Own, Scene!extract
<1>2. /\ SCENES[i].claims.display_name \in
            {"Frank Castle", "Grace Hopper", "Mallory Quinn"}
      /\ SCENES[i].claims.primary_email \in
            {"frank@corp.com", "grace@corp.com", "mallory@corp.com"}
  <2>1. /\ SCENES[1].claims.display_name = "Frank Castle"
        /\ SCENES[2].claims.display_name = "Frank Castle"
        /\ SCENES[3].claims.display_name = "Grace Hopper"
        /\ SCENES[4].claims.display_name = "Mallory Quinn"
    BY DEF SCENES, LoginOf, Claims
  <2>2. /\ SCENES[1].claims.primary_email = "frank@corp.com"
        /\ SCENES[2].claims.primary_email = "frank@corp.com"
        /\ SCENES[3].claims.primary_email = "grace@corp.com"
        /\ SCENES[4].claims.primary_email = "mallory@corp.com"
    BY DEF SCENES, LoginOf, Claims
  <2> QED
    BY <2>1, <2>2
<1>3. /\ Own(c, i, found).display_name # Scene(c, i, found)!Absent
      /\ Own(c, i, found).primary_email # Scene(c, i, found)!Absent
  BY <1>1, <1>2 DEF Scene!coerce_str, Scene!Absent, Scene!NotAString
<1>4. Own(c, i, found).groups # {}
  <2>1. CASE i = 3
    <3>1. Own(c, 3, found).groups =
            Scene(c, 3, found)!reduce_member_of(Dns({"engineering", "admins"}))
      <4>1. SCENES[3].claims.groups = Dns({"engineering", "admins"})
        BY DEF SCENES, LoginOf, Claims
      <4> QED
        BY <4>1, FourProtocols DEF Own, Scene!extract
    <3>2. "engineering" \in
            Scene(c, 3, found)!reduce_member_of(Dns({"engineering", "admins"}))
      <4>1. [cn |-> "engineering"] \in Dns({"engineering", "admins"})
        BY DEF Dns
      <4>2. [cn |-> "engineering"].cn = "engineering"
        OBVIOUS
      <4>3. "engineering" # Scene(c, 3, found)!Absent
        BY DEF Scene!Absent
      <4> QED
        BY <4>1, <4>2, <4>3 DEF Scene!reduce_member_of
    <3> QED
      BY <2>1, <3>1, <3>2
  <2>2. CASE i # 3
    <3>1. SCENES[i].protocol # "ldap"
      BY <2>2, FourProtocols
    <3>2. Own(c, i, found).groups =
            SCENES[i].claims.groups \ {Scene(c, i, found)!NotAString}
      BY <3>1 DEF Own, Scene!extract
    <3>3. \/ "engineering" \in SCENES[i].claims.groups
          \/ "temp-access" \in SCENES[i].claims.groups
      <4>1. /\ "engineering" \in SCENES[1].claims.groups
            /\ "engineering" \in SCENES[2].claims.groups
            /\ "temp-access" \in SCENES[4].claims.groups
        BY DEF SCENES, LoginOf, Claims
      <4> QED
        BY <2>2, <4>1
    <3>4. {"engineering", "temp-access"} \cap {Scene(c, i, found)!NotAString} = {}
      BY DEF Scene!NotAString
    <3> QED
      BY <3>2, <3>3, <3>4
  <2> QED
    BY <2>1, <2>2
<1> QED
  BY <1>3, <1>4

(* The confidence of a result is the weighted sum of its details'.         *)
Figures(na, n, e, d, t, g) ==
    /\ n \in 0..1000 /\ Conf(na, "display_name") = n
    /\ e \in 0..1000 /\ Conf(na, "primary_email") = e
    /\ d \in 0..1000 /\ Conf(na, "department") = d
    /\ t \in 0..1000 /\ Conf(na, "employee_type") = t
    /\ g \in 0..1000 /\ Conf(na, "groups") = g

WeightedSum(n, e, d, t, g) == 15 * n + 25 * e + 20 * d + 25 * t + 15 * g

LEMMA Weighed ==
    ASSUME NEW c, NEW i, NEW found, NEW reason, NEW na,
           na = NormalizedAttributes(c, i, found, reason),
           NEW n, NEW e, NEW d, NEW t, NEW g, Figures(na, n, e, d, t, g)
    PROVE  na.confidence = WeightedSum(n, e, d, t, g)
<1> DEFINE C(attr) == Scene(c, i, found)!Contribution(na.details, attr)
           I == Scene(c, i, found)!ATTRIBUTE_IMPORTANCE
           sum == C("display_name") + C("primary_email") + C("department")
                    + C("employee_type") + C("groups")
<1>0. /\ n \in 0..1000 /\ Conf(na, "display_name") = n
      /\ e \in 0..1000 /\ Conf(na, "primary_email") = e
      /\ d \in 0..1000 /\ Conf(na, "department") = d
      /\ t \in 0..1000 /\ Conf(na, "employee_type") = t
      /\ g \in 0..1000 /\ Conf(na, "groups") = g
  BY DEF Figures
<1>1. na.confidence = IF sum > 100000 THEN 100000
                      ELSE IF sum < 0 THEN 0 ELSE sum
  BY DEF NormalizedAttributes, Scene!normalization_confidence
<1>2. /\ I["display_name"] = 15 /\ I["primary_email"] = 25
      /\ I["department"] = 20 /\ I["employee_type"] = 25 /\ I["groups"] = 15
  BY DEF Scene!ATTRIBUTE_IMPORTANCE
<1>3. ASSUME NEW attr, NEW k \in Int, NEW v \in Int,
             I[attr] = k, Conf(na, attr) = v
      PROVE  C(attr) = k * v
  <2> HIDE DEF I
  <2>1. CASE attr \in DOMAIN na.details
    <3>1. C(attr) = I[attr] * na.details[attr].confidence
      BY <2>1 DEF Scene!Contribution, I
    <3>2. na.details[attr].confidence = v
      BY <1>3, <2>1 DEF Conf, Has
    <3> QED
      BY <1>3, <3>1, <3>2
  <2>2. CASE attr \notin DOMAIN na.details
    <3>1. C(attr) = 0
      BY <2>2 DEF Scene!Contribution
    <3>2. v = 0
      BY <1>3, <2>2 DEF Conf, Has
    <3> QED
      BY <3>1, <3>2
  <2> QED
    BY <2>1, <2>2
<1> HIDE DEF C, I
<1>4. /\ C("display_name") = 15 * n /\ C("primary_email") = 25 * e
      /\ C("department") = 20 * d /\ C("employee_type") = 25 * t
      /\ C("groups") = 15 * g
  BY <1>0, <1>2, <1>3
<1> QED
  BY <1>0, <1>1, <1>4 DEF WeightedSum

(* What was found is what is shown.                                        *)
LEMMA Shown ==
    ASSUME NEW c, NEW i, NEW found, NEW reason, NEW na,
           na = NormalizedAttributes(c, i, found, reason)
    PROVE  /\ na.details = Scene(c, i, found)!details
           /\ na.applied = (found # << >>)
           /\ na.skip_reason = reason
  BY DEF NormalizedAttributes

(* The details of a scene without an entry, from its weights.              *)
Weighs(c, i, found, attr, w) ==
    w \in 0..100 /\ Scene(c, i, found)!weight_for(attr, SCENES[i].protocol) = w

Penalty(c, i, found, attr, w) ==
    Scene(c, i, found)!penalized(attr, 10 * w, Own(c, i, found)[attr])

LEMMA AloneConf ==
    ASSUME NEW c, NEW i, NEW found, Nothing(found), NEW reason, NEW na,
           na = NormalizedAttributes(c, i, found, reason),
           NEW attr \in {"display_name", "primary_email", "department",
                         "employee_type"},
           Own(c, i, found)[attr] # Scene(c, i, found)!Absent,
           NEW w, Weighs(c, i, found, attr, w)
    PROVE  Has(na, attr) /\ Conf(na, attr) = Penalty(c, i, found, attr, w)
<1> DEFINE S == Scene(c, i, found)!details
<1>1. na.details = S
  BY Shown
<1>2. /\ attr \in DOMAIN S
      /\ S[attr].confidence =
            Scene(c, i, found)!penalized(attr, 10 * w, Own(c, i, found)[attr])
  BY AloneScalar DEF Weighs
<1> HIDE DEF S
<1> QED
  BY <1>1, <1>2 DEF Conf, Has, Penalty

LEMMA AloneGroupsConf ==
    ASSUME NEW c, NEW i, NEW found, Nothing(found), NEW reason, NEW na,
           na = NormalizedAttributes(c, i, found, reason),
           Own(c, i, found).groups # {}, NEW w,
           Weighs(c, i, found, "groups", w)
    PROVE  Has(na, "groups") /\ Conf(na, "groups") = 10 * w
<1> DEFINE S == Scene(c, i, found)!details
<1>1. na.details = S
  BY Shown
<1>2. "groups" \in DOMAIN S /\ S["groups"].confidence = 10 * w
  BY AloneGroups DEF Weighs
<1> HIDE DEF S
<1> QED
  BY <1>1, <1>2 DEF Conf, Has

LEMMA AloneShown ==
    ASSUME NEW c, NEW i, NEW found, Nothing(found), NEW reason, NEW na,
           na = NormalizedAttributes(c, i, found, reason)
    PROVE  /\ ~na.applied /\ na.skip_reason = reason
           /\ \A attr \in DOMAIN na.details : SingleSource(attr, na.details[attr])
<1> DEFINE S == Scene(c, i, found)!details
<1>1. na.details = S /\ na.applied = (found # << >>) /\ na.skip_reason = reason
  BY Shown
<1>2. \A attr \in DOMAIN S : SingleSource(attr, S[attr])
  BY AloneDetails
<1>3. ~na.applied
  BY <1>1 DEF Nothing
<1> HIDE DEF S
<1> QED
  BY <1>1, <1>2, <1>3

(* The figures of scenes 1 to 3, and of scene 4, whose department is       *)
(* unmapped and whose employee type is unknown.                            *)
OwnWeights(i, found, n, e, d, t, g) ==
    LET W(attr) == Scene(Shipped, i, found)!weight_for(attr, SCENES[i].protocol) IN
    /\ n \in 0..100 /\ W("display_name") = n
    /\ e \in 0..100 /\ W("primary_email") = e
    /\ d \in 20..100 /\ W("department") = d
    /\ t \in 0..100 /\ W("employee_type") = t
    /\ g \in 0..100 /\ W("groups") = g

AloneAt(na, i, n, e, d, t, g) ==
    /\ Has(na, "department")
    /\ i # 4 => Conf(na, "department") = 10 * d
    /\ i = 4 => Conf(na, "department") = 10 * d - 200
    /\ Has(na, "employee_type") <=> i # 4
    /\ i # 4 => na.confidence = 150 * n + 250 * e + 200 * d + 250 * t + 150 * g
    /\ i = 4 => na.confidence = 150 * n + 250 * e + 200 * d - 4000 + 150 * g

LEMMA AloneFigures ==
    ASSUME NEW i \in {1, 2, 3, 4}, NEW found, Nothing(found), NEW reason, NEW na,
           na = NormalizedAttributes(Shipped, i, found, reason),
           NEW n, NEW e, NEW d, NEW t, NEW g, OwnWeights(i, found, n, e, d, t, g)
    PROVE  AloneAt(na, i, n, e, d, t, g)
<1> DEFINE P(attr, x) == Penalty(Shipped, i, found, attr, x)
           none == Scene(Shipped, i, found)!Absent
           w(attr) == Scene(Shipped, i, found)!weight_for(attr, SCENES[i].protocol)
<1>0. /\ n \in 0..100 /\ w("display_name") = n
      /\ e \in 0..100 /\ w("primary_email") = e
      /\ d \in 20..100 /\ w("department") = d /\ d \in 0..100
      /\ t \in 0..100 /\ w("employee_type") = t
      /\ g \in 0..100 /\ w("groups") = g
  BY DEF OwnWeights
<1>7. /\ Weighs(Shipped, i, found, "display_name", n)
      /\ Weighs(Shipped, i, found, "primary_email", e)
      /\ Weighs(Shipped, i, found, "department", d)
      /\ Weighs(Shipped, i, found, "employee_type", t)
      /\ Weighs(Shipped, i, found, "groups", g)
  BY <1>0 DEF Weighs
<1>1. Conf(na, "display_name") = 10 * n
  <2>1. Own(Shipped, i, found)["display_name"] # none
    BY FourPresent
  <2>2. Conf(na, "display_name") = P("display_name", n)
    BY <1>7, <2>1, AloneConf
  <2> QED
    BY <2>2 DEF Scene!penalized, Penalty
<1>2. Conf(na, "primary_email") = 10 * e
  <2>1. Own(Shipped, i, found)["primary_email"] # none
    BY FourPresent
  <2>2. Conf(na, "primary_email") = P("primary_email", e)
    BY <1>7, <2>1, AloneConf
  <2> QED
    BY <2>2 DEF Scene!penalized, Penalty
<1>3. Conf(na, "groups") = 10 * g
  <2>1. Own(Shipped, i, found).groups # {}
    BY FourPresent
  <2> QED
    BY <1>7, <2>1, AloneGroupsConf
<1>4. /\ Has(na, "department")
      /\ i # 4 => Conf(na, "department") = 10 * d
      /\ i = 4 => Conf(na, "department") = 10 * d - 200
  <2>1. Own(Shipped, i, found)["department"] = IF i = 4 THEN "Sorcery"
                                               ELSE "Engineering"
    BY FourOwn
  <2>2. Own(Shipped, i, found)["department"] # none
    BY <2>1 DEF Scene!Absent
  <2>3. /\ Has(na, "department")
        /\ Conf(na, "department") = P("department", d)
    BY <1>7, <2>2, AloneConf
  <2>4. /\ Scene(Shipped, i, found)!was_department_mapped("Engineering")
        /\ ~Scene(Shipped, i, found)!was_department_mapped("Sorcery")
    BY Departments
  <2>5. CASE i = 4
    <3>1. Conf(na, "department") =
            Scene(Shipped, i, found)!penalized("department", 10 * d, "Sorcery")
      BY <2>1, <2>3, <2>5 DEF Penalty
    <3> QED
      BY <1>0, <2>3, <2>4, <2>5, <3>1 DEF Scene!penalized, Scene!Clamped
  <2>6. CASE i # 4
    <3>1. Conf(na, "department") =
            Scene(Shipped, i, found)!penalized("department", 10 * d, "Engineering")
      BY <2>1, <2>3, <2>6 DEF Penalty
    <3> QED
      BY <1>0, <2>3, <2>4, <2>6, <3>1 DEF Scene!penalized, Scene!Clamped
  <2> QED
    BY <2>5, <2>6
<1>5. CASE i # 4
  <2>1. Own(Shipped, i, found)["employee_type"] \in {"FTE", "contractor"}
    BY <1>5, FourOwn
  <2>2. Own(Shipped, i, found)["employee_type"] # none
    BY <2>1 DEF Scene!Absent
  <2>3. /\ Has(na, "employee_type")
        /\ Conf(na, "employee_type") = P("employee_type", t)
    BY <1>7, <2>2, AloneConf
  <2>4. Conf(na, "employee_type") = 10 * t
    BY <2>3 DEF Scene!penalized, Penalty
  <2>5. Figures(na, 10 * n, 10 * e, 10 * d, 10 * t, 10 * g)
    BY <1>0, <1>1, <1>2, <1>3, <1>4, <1>5, <2>4 DEF Figures
  <2>6. na.confidence = WeightedSum(10 * n, 10 * e, 10 * d, 10 * t, 10 * g)
    BY <2>5, Weighed
  <2> QED
    BY <1>0, <1>4, <1>5, <2>3, <2>6 DEF WeightedSum, AloneAt
<1>6. CASE i = 4
  <2>1. ~Present(Shipped, i, found, "employee_type")
    BY <1>6, FourOwn DEF Present, Scene!Missing
  <2>2. "employee_type" \notin DOMAIN Scene(Shipped, i, found)!details
    BY <2>1, AloneDetails
  <2>3. ~Has(na, "employee_type") /\ Conf(na, "employee_type") = 0
    BY <2>2, Shown DEF Conf, Has
  <2>4. Figures(na, 10 * n, 10 * e, 10 * d - 200, 0, 10 * g)
    BY <1>0, <1>1, <1>2, <1>3, <1>4, <1>6, <2>3 DEF Figures
  <2>5. na.confidence = WeightedSum(10 * n, 10 * e, 10 * d - 200, 0, 10 * g)
    BY <2>4, Weighed
  <2> QED
    BY <1>0, <1>4, <1>6, <2>3, <2>5 DEF WeightedSum, AloneAt
<1> QED
  BY <1>5, <1>6

(* The entries of the shipped directory: both are engineers' there.        *)
Engineer(found, n, e, t) ==
    found = << Claims(n, e, "Engineering", t, Dns({"engineering", "vpn-users"})) >>

Alice(found) == Engineer(found, "Alice Smith", "alice@corp.com", "FTE")

Diana(found) == Engineer(found, "Diana Prince", "diana@corp.com", "vendor")

LEMMA EngineerFound ==
    ASSUME NEW found, NEW n, NEW e, NEW t, Engineer(found, n, e, t)
    PROVE  found # << >>
  BY DEF Engineer

LEMMA SeededEntries ==
    /\ Nothing(Seeded["frank"]) /\ Nothing(Seeded["mallory"])
    /\ Alice(Seeded["alice"])
    /\ Diana(Seeded["diana"])
  BY DEF Seeded, Nothing, Engineer, Alice, Diana

LEMMA LastProtocols ==
    /\ SCENES[5].protocol = "oidc" /\ SCENES[6].protocol = "oidc"
    /\ SCENES[5].user = "alice" /\ SCENES[6].user = "diana"
  BY DEF SCENES, LoginOf, Claims

(* A login with an entry: both sources have the attribute.                 *)
Theirs(c, i, found) == Scene(c, i, found)!extract("ldap", found[1])

FromBoth(c, i, found, attr) ==
    Scene(c, i, found)!attribute_sources(attr) =
        [s \in Both |-> IF s = "oidc" THEN Own(c, i, found)[attr]
                        ELSE Theirs(c, i, found)[attr]]

InBoth(c, i, found, attr) ==
    /\ found # << >>
    /\ Own(c, i, found)[attr] # Scene(c, i, found)!Missing(attr)
    /\ Theirs(c, i, found)[attr] # Scene(c, i, found)!Missing(attr)

LEMMA BothSources ==
    ASSUME NEW c, NEW i, SCENES[i].protocol = "oidc", NEW found, NEW attr,
           InBoth(c, i, found, attr)
    PROVE  FromBoth(c, i, found, attr)
<1> DEFINE E == Scene(c, i, found)!Extracted
<1>1. /\ DOMAIN E = Both
      /\ E["oidc"] = Own(c, i, found) /\ E["ldap"] = Theirs(c, i, found)
  BY DEF Scene!Extracted, Own, Theirs, Both, InBoth
<1> HIDE DEF E
<1>2. {s \in DOMAIN E : E[s][attr] # Scene(c, i, found)!Missing(attr)} = Both
  BY <1>1 DEF InBoth, Both
<1>3. Scene(c, i, found)!attribute_sources(attr) = [s \in Both |-> E[s][attr]]
  BY <1>2 DEF Scene!attribute_sources, E
<1> QED
  BY <1>1, <1>3 DEF FromBoth, Both

(* The map of an attribute that both have, and the detail made of it.      *)
LEMMA BothScalar ==
    ASSUME NEW c, NEW i, SCENES[i].protocol = "oidc", NEW found,
           NEW attr \in {"display_name", "primary_email", "department",
                         "employee_type"},
           InBoth(c, i, found, attr)
    PROVE  \E map :
             /\ DOMAIN map = Both
             /\ map["oidc"] = Own(c, i, found)[attr]
             /\ map["ldap"] = Theirs(c, i, found)[attr]
             /\ attr \in DOMAIN Scene(c, i, found)!details
             /\ Scene(c, i, found)!details[attr] =
                   Scene(c, i, found)!resolve_scalar(attr, map)
<1> DEFINE map == Scene(c, i, found)!attribute_sources(attr)
<1>1. FromBoth(c, i, found, attr)
  BY BothSources
<1>2. /\ DOMAIN map = Both
      /\ map["oidc"] = Own(c, i, found)[attr]
      /\ map["ldap"] = Theirs(c, i, found)[attr]
  BY <1>1 DEF FromBoth, Both
<1>3. DOMAIN map # {}
  BY <1>2 DEF Both
<1>4. /\ attr \in DOMAIN Scene(c, i, found)!details
      /\ Scene(c, i, found)!details[attr] =
            Scene(c, i, found)!resolve_scalar(attr, map)
  BY <1>3 DEF Scene!details, Scene!Attribute, Scene!Scalar
<1> HIDE DEF map
<1> QED
  BY <1>2, <1>4

(* m is the greater of the weights of the token and of the directory.      *)
Heaviest(c, i, found, attr, o, l, m) ==
    /\ o \in 0..100 /\ Scene(c, i, found)!weight_for(attr, "oidc") = o
    /\ l \in 0..100 /\ Scene(c, i, found)!weight_for(attr, "ldap") = l
    /\ m \in {o, l} /\ m >= o /\ m >= l

LEMMA AgreedConf ==
    ASSUME NEW c, NEW i, SCENES[i].protocol = "oidc", NEW found, NEW reason, NEW na,
           na = NormalizedAttributes(c, i, found, reason),
           NEW attr \in {"display_name", "primary_email", "department",
                         "employee_type"},
           InBoth(c, i, found, attr),
           Own(c, i, found)[attr] = Theirs(c, i, found)[attr],
           NEW o, NEW l, NEW m, Heaviest(c, i, found, attr, o, l, m)
    PROVE  /\ Has(na, attr)
           /\ na.details[attr].resolution = "unanimous"
           /\ Conf(na, attr) =
                 Scene(c, i, found)!penalized(attr, 10 * m, Own(c, i, found)[attr])
<1> DEFINE S == Scene(c, i, found)!details
           v == Own(c, i, found)[attr]
           W(s) == Scene(c, i, found)!weight_for(attr, s)
<1>1. PICK map : /\ DOMAIN map = Both
                 /\ map["oidc"] = v /\ map["ldap"] = v
                 /\ attr \in DOMAIN S
                 /\ S[attr] = Scene(c, i, found)!resolve_scalar(attr, map)
  BY BothScalar
<1> HIDE DEF S, v
<1>2. /\ {map[s] : s \in DOMAIN map} = {v}
      /\ (CHOOSE x \in {map[s] : s \in DOMAIN map} : TRUE) = v
  <2>1. {map[s] : s \in DOMAIN map} = {v}
    BY <1>1 DEF Both
  <2> QED
    BY <2>1
<1>3. /\ Scene(c, i, found)!Cardinality({map[s] : s \in DOMAIN map}) = 1
      /\ Scene(c, i, found)!Cardinality(DOMAIN map) # 1
  BY <1>1, <1>2, FS_Singleton, SameCardinality, BothAreTwo
<1>4. Scene(c, i, found)!max_weight(attr, Both) = m
  <2>1. /\ W("oidc") = o /\ W("ldap") = l
        /\ o \in Int /\ l \in Int /\ m \in {o, l} /\ m >= o /\ m >= l
    BY DEF Heaviest
  <2> HIDE DEF W
  <2>2. {W(s) : s \in Both} = {o, l}
    BY <2>1 DEF Both
  <2>3. \A w : (\A s \in Both : w >= W(s)) <=> w >= o /\ w >= l
    BY <2>1 DEF Both
  <2>4. \A w \in {o, l} : w >= o /\ w >= l => w = m
    BY <2>1
  <2>5. (CHOOSE w \in {W(s) : s \in Both} : \A s \in Both : w >= W(s)) = m
    BY <2>1, <2>2, <2>3, <2>4
  <2> QED
    BY <2>5 DEF Scene!max_weight, W
<1>5. LET r == Scene(c, i, found)!resolve_scalar(attr, map) IN
      /\ r.resolution = "unanimous"
      /\ r.confidence = Scene(c, i, found)!penalized(attr,
                10 * Scene(c, i, found)!max_weight(attr, DOMAIN map),
                CHOOSE x \in {map[s] : s \in DOMAIN map} : TRUE)
  BY <1>3 DEF Scene!resolve_scalar
<1>6. /\ S[attr].resolution = "unanimous"
      /\ S[attr].confidence = Scene(c, i, found)!penalized(attr, 10 * m, v)
  BY <1>1, <1>2, <1>4, <1>5
<1>7. na.details = S
  BY Shown DEF S
<1> QED
  BY <1>1, <1>6, <1>7 DEF Conf, Has, v

LEMMA ConflictConf ==
    ASSUME NEW c, NEW i, SCENES[i].protocol = "oidc", NEW found, NEW reason, NEW na,
           na = NormalizedAttributes(c, i, found, reason),
           NEW attr \in {"display_name", "primary_email", "department",
                         "employee_type"},
           InBoth(c, i, found, attr),
           Own(c, i, found)[attr] # Theirs(c, i, found)[attr],
           NEW winner \in Both,
           Scene(c, i, found)!pick_winner(attr, Both) = winner,
           NEW w \in 0..100, Scene(c, i, found)!weight_for(attr, winner) = w
    PROVE  /\ WonBy(na, attr, winner)
           /\ Conf(na, attr) =
                 Scene(c, i, found)!penalized(attr, 8 * w,
                    IF winner = "oidc" THEN Own(c, i, found)[attr]
                    ELSE Theirs(c, i, found)[attr])
<1> DEFINE S == Scene(c, i, found)!details
           x == Own(c, i, found)[attr]
           y == Theirs(c, i, found)[attr]
           v == IF winner = "oidc" THEN x ELSE y
<1>1. PICK map : /\ DOMAIN map = Both
                 /\ map["oidc"] = x /\ map["ldap"] = y
                 /\ attr \in DOMAIN S
                 /\ S[attr] = Scene(c, i, found)!resolve_scalar(attr, map)
  BY BothScalar
<1>2. x # y
  OBVIOUS
<1> HIDE DEF S, x, y
<1>3. {map[s] : s \in DOMAIN map} = {x, y}
  BY <1>1 DEF Both
<1>4. Scene(c, i, found)!Cardinality({map[s] : s \in DOMAIN map}) # 1
  <2>1. Cardinality({x, y}) = 2
    BY <1>2, PairIsTwo
  <2> DEFINE V == {map[s] : s \in DOMAIN map}
  <2>2. Scene(c, i, found)!Cardinality(V) = Cardinality(V)
    BY SameCardinality
  <2>3. Cardinality(V) # 1
    <3> HIDE DEF V
    <3>1. V = {x, y}
      BY <1>3 DEF V
    <3> QED
      BY <2>1, <3>1
  <2> QED
    BY <2>2, <2>3
<1>5. LET r == Scene(c, i, found)!resolve_scalar(attr, map)
          u == Scene(c, i, found)!pick_winner(attr, DOMAIN map)
      IN  /\ r.resolution = "priority"
          /\ r.sources = {u}
          /\ r.confidence = Scene(c, i, found)!penalized(attr,
                8 * Scene(c, i, found)!weight_for(attr, u), map[u])
  BY <1>4 DEF Scene!resolve_scalar
<1>6. map[winner] = v
  BY <1>1 DEF Both
<1>7. /\ S[attr].resolution = "priority" /\ S[attr].sources = {winner}
      /\ S[attr].confidence = Scene(c, i, found)!penalized(attr, 8 * w, v)
  BY <1>1, <1>5, <1>6
<1>8. na.details = S
  BY Shown DEF S
<1> QED
  BY <1>1, <1>7, <1>8 DEF Conf, Has, WonBy, x, y

(* A group is shared if both sources have it.                              *)
LEMMA SharedByBoth ==
    ASSUME NEW map, DOMAIN map = Both, NEW g
    PROVE  Cardinality({s \in DOMAIN map : g \in map[s]}) > 1 <=>
               g \in map["oidc"] /\ g \in map["ldap"]
<1> DEFINE H == {s \in DOMAIN map : g \in map[s]}
<1>1. CASE g \in map["oidc"] /\ g \in map["ldap"]
  <2>1. H = {"oidc", "ldap"}
    BY <1>1 DEF Both
  <2>2. Cardinality(H) = 2
    BY <2>1, PairIsTwo
  <2> QED
    BY <1>1, <2>2
<1>2. CASE g \in map["oidc"] /\ g \notin map["ldap"]
  <2>1. H = {"oidc"}
    BY <1>2 DEF Both
  <2>2. Cardinality(H) = 1
    BY <2>1, FS_Singleton
  <2> QED
    BY <1>2, <2>2
<1>3. CASE g \notin map["oidc"] /\ g \in map["ldap"]
  <2>1. H = {"ldap"}
    BY <1>3 DEF Both
  <2>2. Cardinality(H) = 1
    BY <2>1, FS_Singleton
  <2> QED
    BY <1>3, <2>2
<1>4. CASE g \notin map["oidc"] /\ g \notin map["ldap"]
  <2>1. H = {}
    BY <1>4 DEF Both
  <2>2. Cardinality(H) = 0
    BY <2>1, FS_EmptySet
  <2> QED
    BY <1>4, <2>2
<1> QED
  BY <1>1, <1>2, <1>3, <1>4

LEMMA UnitedGroups ==
    ASSUME NEW i, SCENES[i].protocol = "oidc", NEW found,
           InBoth(Shipped, i, found, "groups"), NEW reason, NEW na,
           na = NormalizedAttributes(Shipped, i, found, reason),
           NEW own, Own(Shipped, i, found).groups = own,
           NEW theirs, Theirs(Shipped, i, found).groups = theirs,
           NEW all \in Nat, Cardinality(own \cup theirs) = all,
           NEW shared \in Nat, Cardinality(own \cap theirs) = shared
    PROVE  /\ Has(na, "groups")
           /\ na.details["groups"].resolution = "list_merge"
           /\ na.details["groups"].value = own \cup theirs
           /\ Conf(na, "groups") = 700 + ((300 * shared) \div all)
<1> DEFINE S == Scene(Shipped, i, found)!details
           map == Scene(Shipped, i, found)!attribute_sources("groups")
           merged == Scene(Shipped, i, found)!apply_merge_strategy(map)
<1>1. DOMAIN map = Both /\ map["oidc"] = own /\ map["ldap"] = theirs
  <2>1. FromBoth(Shipped, i, found, "groups")
    BY BothSources
  <2> QED
    BY <2>1 DEF FromBoth, Both
<1>2. /\ "groups" \in DOMAIN S
      /\ S["groups"] = Scene(Shipped, i, found)!resolve_groups(map)
  <2>1. DOMAIN map # {}
    BY <1>1 DEF Both
  <2> QED
    BY <2>1 DEF Scene!details, Scene!Attribute, Scene!Scalar
<1>3. merged = own \cup theirs
  <2>1. Scene(Shipped, i, found)!merge_strategy_for("groups") = "union"
    BY DEF Scene!merge_strategy_for, Shipped, Entry
  <2>2. merged = UNION {map[s] : s \in DOMAIN map}
    BY <2>1 DEF Scene!apply_merge_strategy
  <2> HIDE DEF map, merged
  <2> QED
    BY <1>1, <2>2 DEF Both
<1>4. own \cup theirs # {}
  BY DEF InBoth, Scene!Missing
<1>5. Scene(Shipped, i, found)!Cardinality(DOMAIN map) # 1
  BY <1>1, BothAreTwo, SameCardinality
<1>6. Scene(Shipped, i, found)!shared_groups(map, merged) = shared
  <2> HIDE DEF map, merged
  <2>1. {g \in merged : Cardinality({s \in DOMAIN map : g \in map[s]}) > 1} =
           own \cap theirs
    <3>1. ASSUME NEW g
          PROVE  Cardinality({s \in DOMAIN map : g \in map[s]}) > 1 <=>
                    g \in own /\ g \in theirs
      BY <1>1, SharedByBoth
    <3> QED
      BY <1>3, <3>1
  <2>2. Scene(Shipped, i, found)!shared_groups(map, merged) =
          Cardinality({g \in merged :
                          Cardinality({s \in DOMAIN map : g \in map[s]}) > 1})
    BY SameCardinality DEF Scene!shared_groups
  <2> QED
    BY <2>1, <2>2
<1>7. Scene(Shipped, i, found)!Cardinality(merged) = all
  BY <1>3, SameCardinality
<1>8. LET r == Scene(Shipped, i, found)!resolve_groups(map) IN
      /\ r.resolution = "list_merge" /\ r.value = merged
      /\ r.confidence = 700 + (IF merged = {} THEN 0
             ELSE (300 * Scene(Shipped, i, found)!shared_groups(map, merged))
                    \div Scene(Shipped, i, found)!Cardinality(merged))
  BY <1>5 DEF Scene!resolve_groups
<1>9. na.details = S
  BY Shown
<1> HIDE DEF S, map, merged
<1>10. /\ S["groups"].resolution = "list_merge"
       /\ S["groups"].value = own \cup theirs
       /\ S["groups"].confidence = 700 + ((300 * shared) \div all)
  BY <1>2, <1>3, <1>4, <1>6, <1>7, <1>8
<1> QED
  BY <1>2, <1>9, <1>10 DEF Conf, Has

(* What the logins of scenes 5 and 6 say, and the entries.                 *)
AliceSays(r) ==
    /\ r.display_name = "Alice Smith"
    /\ r.primary_email = "alice@corp.com"
    /\ r.department = "Engineering"
    /\ r.employee_type = "FTE"
    /\ r.groups = {"engineering", "vpn-users", "product-admins"}

DianaSays(r) ==
    /\ r.display_name = "Di Prince"
    /\ r.primary_email = "diana@corp.com"
    /\ r.department = "Marketing"
    /\ r.employee_type = "vendor"
    /\ r.groups = {"engineering", "oncall"}

LEMMA LastOwn ==
    ASSUME NEW c, NEW found
    PROVE  AliceSays(Own(c, 5, found)) /\ DianaSays(Own(c, 6, found))
<1>1. ASSUME NEW i
      PROVE  /\ Own(c, i, found).display_name =
                   Scene(c, i, found)!coerce_str(SCENES[i].claims.display_name)
             /\ Own(c, i, found).primary_email =
                   Scene(c, i, found)!coerce_str(SCENES[i].claims.primary_email)
             /\ Own(c, i, found).department =
                   Scene(c, i, found)!normalize_department(SCENES[i].claims.department)
             /\ Own(c, i, found).employee_type =
                   Scene(c, i, found)!normalize_employee_type(
                                                SCENES[i].claims.employee_type)
             /\ SCENES[i].protocol = "oidc" =>
                   Own(c, i, found).groups =
                     SCENES[i].claims.groups \ {Scene(c, i, found)!NotAString}
  BY DEF Own, Scene!extract
<1>2. /\ SCENES[5].claims.display_name = "Alice Smith"
      /\ SCENES[5].claims.primary_email = "alice@corp.com"
      /\ SCENES[5].claims.department = "eng"
      /\ SCENES[5].claims.employee_type = "FTE"
      /\ SCENES[5].claims.groups = {"engineering", "vpn-users", "product-admins"}
  BY DEF SCENES, LoginOf, Claims
<1>3. /\ SCENES[6].claims.display_name = "Di Prince"
      /\ SCENES[6].claims.primary_email = "diana@corp.com"
      /\ SCENES[6].claims.department = "Marketing"
      /\ SCENES[6].claims.employee_type = "vendor"
      /\ SCENES[6].claims.groups = {"engineering", "oncall"}
  BY DEF SCENES, LoginOf, Claims
<1>4. /\ Own(c, 5, found).display_name = "Alice Smith"
      /\ Own(c, 5, found).primary_email = "alice@corp.com"
      /\ Own(c, 6, found).display_name = "Di Prince"
      /\ Own(c, 6, found).primary_email = "diana@corp.com"
  BY <1>1, <1>2, <1>3 DEF Scene!coerce_str, Scene!NotAString
<1>5. /\ Own(c, 5, found).department = "Engineering"
      /\ Own(c, 6, found).department = "Marketing"
  <2>1. /\ Own(c, 5, found).department =
              Scene(c, 5, found)!normalize_department("eng")
        /\ Own(c, 6, found).department =
              Scene(c, 6, found)!normalize_department("Marketing")
    BY <1>1, <1>2, <1>3
  <2> QED
    BY <2>1, Departments
<1>6. /\ Own(c, 5, found).employee_type = "FTE"
      /\ Own(c, 6, found).employee_type = "vendor"
  <2>1. /\ Own(c, 5, found).employee_type =
              Scene(c, 5, found)!normalize_employee_type("FTE")
        /\ Own(c, 6, found).employee_type =
              Scene(c, 6, found)!normalize_employee_type("vendor")
    BY <1>1, <1>2, <1>3
  <2> QED
    BY <2>1, EmployeeTypes
<1>7. /\ Own(c, 5, found).groups = {"engineering", "vpn-users", "product-admins"}
      /\ Own(c, 6, found).groups = {"engineering", "oncall"}
  <2>1. \A j : Scene(c, j, found)!NotAString \notin
               {"engineering", "vpn-users", "product-admins", "oncall"}
    BY DEF Scene!NotAString
  <2>2. /\ Own(c, 5, found).groups =
             {"engineering", "vpn-users", "product-admins"}
               \ {Scene(c, 5, found)!NotAString}
        /\ Own(c, 6, found).groups =
             {"engineering", "oncall"} \ {Scene(c, 6, found)!NotAString}
    <3>1. /\ Own(c, 5, found).groups =
               SCENES[5].claims.groups \ {Scene(c, 5, found)!NotAString}
          /\ Own(c, 6, found).groups =
               SCENES[6].claims.groups \ {Scene(c, 6, found)!NotAString}
      BY LastProtocols DEF Own, Scene!extract
    <3> QED
      BY <1>2, <1>3, <3>1
  <2> QED
    BY <2>1, <2>2
<1> QED
  BY <1>4, <1>5, <1>6, <1>7 DEF AliceSays, DianaSays

EntryRead(c, i, found, n, e, t) ==
    /\ found # << >>
    /\ Theirs(c, i, found).display_name = Scene(c, i, found)!coerce_str(n)
    /\ Theirs(c, i, found).primary_email = Scene(c, i, found)!coerce_str(e)
    /\ Theirs(c, i, found).department = "Engineering"
    /\ Theirs(c, i, found).employee_type =
          Scene(c, i, found)!normalize_employee_type(t)
    /\ Theirs(c, i, found).groups = {"engineering", "vpn-users"}

LEMMA EntryValues ==
    ASSUME NEW c, NEW i, NEW n, NEW e, NEW t, NEW found, Engineer(found, n, e, t)
    PROVE  EntryRead(c, i, found, n, e, t)
<1> DEFINE dns == Dns({"engineering", "vpn-users"})
<1>1. found # << >> /\ found[1] = Claims(n, e, "Engineering", t, dns)
  BY DEF Engineer
<1>2. LET r == Claims(n, e, "Engineering", t, dns) IN
      /\ r.display_name = n /\ r.primary_email = e
      /\ r.department = "Engineering" /\ r.employee_type = t
      /\ r.groups = dns
  BY DEF Claims
<1>3. /\ Theirs(c, i, found).display_name = Scene(c, i, found)!coerce_str(n)
      /\ Theirs(c, i, found).primary_email = Scene(c, i, found)!coerce_str(e)
      /\ Theirs(c, i, found).department =
            Scene(c, i, found)!normalize_department("Engineering")
      /\ Theirs(c, i, found).employee_type =
            Scene(c, i, found)!normalize_employee_type(t)
      /\ Theirs(c, i, found).groups = Scene(c, i, found)!reduce_member_of(dns)
  BY <1>1, <1>2 DEF Theirs, Scene!extract
<1>4. Theirs(c, i, found).department = "Engineering"
  BY <1>3, Departments
<1>5. Scene(c, i, found)!reduce_member_of(dns) = {"engineering", "vpn-users"}
  <2>1. Scene(c, i, found)!Absent \notin {"engineering", "vpn-users"}
    BY DEF Scene!Absent
  <2>2. {dn.cn : dn \in dns} = {"engineering", "vpn-users"}
    <3>1. dns = {[cn |-> "engineering"], [cn |-> "vpn-users"]}
      BY DEF Dns
    <3>2. /\ [cn |-> "engineering"].cn = "engineering"
          /\ [cn |-> "vpn-users"].cn = "vpn-users"
      OBVIOUS
    <3> HIDE DEF dns
    <3> QED
      BY <3>1, <3>2
  <2>3. Scene(c, i, found)!reduce_member_of(dns) =
          {dn.cn : dn \in dns} \ {Scene(c, i, found)!Absent}
    BY DEF Scene!reduce_member_of
  <2> QED
    BY <2>1, <2>2, <2>3
<1> QED
  BY <1>1, <1>3, <1>4, <1>5 DEF EntryRead

LEMMA AliceTheirs ==
    ASSUME NEW c, NEW found, Alice(found)
    PROVE  /\ found # << >>
           /\ Theirs(c, 5, found).display_name = "Alice Smith"
           /\ Theirs(c, 5, found).primary_email = "alice@corp.com"
           /\ Theirs(c, 5, found).department = "Engineering"
           /\ Theirs(c, 5, found).employee_type = "FTE"
           /\ Theirs(c, 5, found).groups = {"engineering", "vpn-users"}
<1>1. /\ Scene(c, 5, found)!coerce_str("Alice Smith") = "Alice Smith"
      /\ Scene(c, 5, found)!coerce_str("alice@corp.com") = "alice@corp.com"
  BY DEF Scene!coerce_str, Scene!NotAString
<1>2. Scene(c, 5, found)!normalize_employee_type("FTE") = "FTE"
  BY EmployeeTypes
<1>3. Engineer(found, "Alice Smith", "alice@corp.com", "FTE")
  BY DEF Alice
<1>4. /\ found # << >>
      /\ Theirs(c, 5, found).display_name =
            Scene(c, 5, found)!coerce_str("Alice Smith")
      /\ Theirs(c, 5, found).primary_email =
            Scene(c, 5, found)!coerce_str("alice@corp.com")
      /\ Theirs(c, 5, found).department = "Engineering"
      /\ Theirs(c, 5, found).employee_type =
            Scene(c, 5, found)!normalize_employee_type("FTE")
      /\ Theirs(c, 5, found).groups = {"engineering", "vpn-users"}
  <2>1. EntryRead(c, 5, found, "Alice Smith", "alice@corp.com", "FTE")
    BY <1>3, EntryValues
  <2> QED
    BY <2>1 DEF EntryRead
<1> QED
  BY <1>1, <1>2, <1>4

LEMMA DianaTheirs ==
    ASSUME NEW c, NEW found, Diana(found)
    PROVE  /\ found # << >>
           /\ Theirs(c, 6, found).display_name = "Diana Prince"
           /\ Theirs(c, 6, found).primary_email = "diana@corp.com"
           /\ Theirs(c, 6, found).department = "Engineering"
           /\ Theirs(c, 6, found).employee_type = "vendor"
           /\ Theirs(c, 6, found).groups = {"engineering", "vpn-users"}
<1>1. /\ Scene(c, 6, found)!coerce_str("Diana Prince") = "Diana Prince"
      /\ Scene(c, 6, found)!coerce_str("diana@corp.com") = "diana@corp.com"
  BY DEF Scene!coerce_str, Scene!NotAString
<1>2. Scene(c, 6, found)!normalize_employee_type("vendor") = "vendor"
  BY EmployeeTypes
<1>3. Engineer(found, "Diana Prince", "diana@corp.com", "vendor")
  BY DEF Diana
<1>4. /\ found # << >>
      /\ Theirs(c, 6, found).display_name =
            Scene(c, 6, found)!coerce_str("Diana Prince")
      /\ Theirs(c, 6, found).primary_email =
            Scene(c, 6, found)!coerce_str("diana@corp.com")
      /\ Theirs(c, 6, found).department = "Engineering"
      /\ Theirs(c, 6, found).employee_type =
            Scene(c, 6, found)!normalize_employee_type("vendor")
      /\ Theirs(c, 6, found).groups = {"engineering", "vpn-users"}
  <2>1. EntryRead(c, 6, found, "Diana Prince", "diana@corp.com", "vendor")
    BY <1>3, EntryValues
  <2> QED
    BY <2>1 DEF EntryRead
<1> QED
  BY <1>1, <1>2, <1>4

(* With the shipped configuration the token wins the name and the          *)
(* directory wins the department.                                          *)
LEMMA FirstWins ==
    ASSUME NEW c, NEW i, NEW found, NEW attr, NEW first \in Both, NEW x, NEW y,
           Scene(c, i, found)!priority_for(attr) = << first, x, y >>
    PROVE  Scene(c, i, found)!pick_winner(attr, Both) = first
<1> DEFINE p == Scene(c, i, found)!priority_for(attr)
           listed == {k \in DOMAIN p : p[k] \in Both}
<1>1. /\ 1 \in listed /\ p[1] = first
      /\ \A k \in listed : k \in Int /\ k >= 1
  OBVIOUS
<1>2. Scene(c, i, found)!pick_winner(attr, Both) =
        IF listed = {} THEN Scene(c, i, found)!heaviest(attr, Both)
        ELSE p[CHOOSE k \in listed : \A j \in listed : k <= j]
  BY DEF Scene!pick_winner
<1> HIDE DEF listed, p
<1>3. (CHOOSE k \in listed : \A j \in listed : k <= j) = 1
  BY <1>1
<1> QED
  BY <1>1, <1>2, <1>3

LEMMA ShippedWinners ==
    ASSUME NEW i, NEW found
    PROVE  /\ Scene(Shipped, i, found)!pick_winner("display_name", Both) = "oidc"
           /\ Scene(Shipped, i, found)!pick_winner("department", Both) = "ldap"
<1>1. /\ Scene(Shipped, i, found)!priority_for("display_name") =
            << "oidc", "saml", "ldap" >>
      /\ Scene(Shipped, i, found)!priority_for("department") =
            << "ldap", "oidc", "saml" >>
  BY DEF Scene!priority_for, Shipped, Entry
<1> QED
  BY <1>1, FirstWins DEF Both

(* An attribute on which the token and the directory agree, and one on     *)
(* which they do not.                                                      *)
Agrees(i, found, attr) ==
    /\ SCENES[i].protocol = "oidc"
    /\ InBoth(Shipped, i, found, attr)
    /\ Own(Shipped, i, found)[attr] = Theirs(Shipped, i, found)[attr]
    /\ attr = "department" => Own(Shipped, i, found)[attr] = "Engineering"

Differs(i, found, attr) ==
    /\ SCENES[i].protocol = "oidc"
    /\ InBoth(Shipped, i, found, attr)
    /\ Own(Shipped, i, found)[attr] # Theirs(Shipped, i, found)[attr]
    /\ attr = "department" => Theirs(Shipped, i, found)[attr] = "Engineering"

AgreedAt(na, attr, conf) ==
    /\ Has(na, attr)
    /\ na.details[attr].resolution = "unanimous"
    /\ Conf(na, attr) = conf

LEMMA AgreedShipped ==
    ASSUME NEW i, NEW found, NEW reason, NEW na,
           na = NormalizedAttributes(Shipped, i, found, reason)
    PROVE  /\ Agrees(i, found, "display_name") => AgreedAt(na, "display_name", 850)
           /\ Agrees(i, found, "primary_email") => AgreedAt(na, "primary_email", 950)
           /\ Agrees(i, found, "department") => AgreedAt(na, "department", 900)
           /\ Agrees(i, found, "employee_type") => AgreedAt(na, "employee_type", 950)
<1> DEFINE W(attr, s) == Scene(Shipped, i, found)!weight_for(attr, s)
           P(attr, conf) == Scene(Shipped, i, found)!penalized(attr, conf,
                                      Own(Shipped, i, found)[attr])
<1>1. /\ W("display_name", "oidc") = 70 /\ W("display_name", "ldap") = 85
      /\ W("primary_email", "oidc") = 95 /\ W("primary_email", "ldap") = 65
      /\ W("department", "oidc") = 70 /\ W("department", "ldap") = 90
      /\ W("employee_type", "oidc") = 60 /\ W("employee_type", "ldap") = 95
  BY ShippedWeights
<1>2. ASSUME NEW attr \in {"display_name", "primary_email", "department",
                           "employee_type"},
             Agrees(i, found, attr), NEW o, NEW l, NEW m,
             Heaviest(Shipped, i, found, attr, o, l, m)
      PROVE  AgreedAt(na, attr, 10 * m)
  <2>0. /\ SCENES[i].protocol = "oidc" /\ InBoth(Shipped, i, found, attr)
        /\ Own(Shipped, i, found)[attr] = Theirs(Shipped, i, found)[attr]
    BY <1>2 DEF Agrees
  <2>1. /\ Has(na, attr)
        /\ na.details[attr].resolution = "unanimous"
        /\ Conf(na, attr) = P(attr, 10 * m)
    BY <1>2, <2>0, AgreedConf
  <2>2. P(attr, 10 * m) = 10 * m
    <3>1. Scene(Shipped, i, found)!was_department_mapped("Engineering")
      BY Departments
    <3>2. attr = "department" => Scene(Shipped, i, found)!was_department_mapped(
                                    Own(Shipped, i, found)[attr])
      BY <1>2, <3>1 DEF Agrees
    <3>3. 10 * m \in 0..1000
      BY <1>2 DEF Heaviest
    <3> QED
      BY <3>2, <3>3 DEF Scene!penalized, Scene!Clamped
  <2> QED
    BY <2>1, <2>2 DEF AgreedAt
<1>8. /\ Heaviest(Shipped, i, found, "display_name", 70, 85, 85)
      /\ Heaviest(Shipped, i, found, "primary_email", 95, 65, 95)
      /\ Heaviest(Shipped, i, found, "department", 70, 90, 90)
      /\ Heaviest(Shipped, i, found, "employee_type", 60, 95, 95)
  BY <1>1 DEF Heaviest
<1>3. Agrees(i, found, "display_name") => AgreedAt(na, "display_name", 10 * 85)
  BY <1>2, <1>8
<1>4. Agrees(i, found, "primary_email") => AgreedAt(na, "primary_email", 10 * 95)
  BY <1>2, <1>8
<1>5. Agrees(i, found, "department") => AgreedAt(na, "department", 10 * 90)
  BY <1>2, <1>8
<1>6. Agrees(i, found, "employee_type") => AgreedAt(na, "employee_type", 10 * 95)
  BY <1>2, <1>8
<1>7. 10 * 85 = 850 /\ 10 * 95 = 950 /\ 10 * 90 = 900
  OBVIOUS
<1> QED
  BY <1>3, <1>4, <1>5, <1>6, <1>7

LEMMA DiffersShipped ==
    ASSUME NEW i, NEW found, NEW reason, NEW na,
           na = NormalizedAttributes(Shipped, i, found, reason)
    PROVE  /\ Differs(i, found, "display_name") =>
                 /\ WonBy(na, "display_name", "oidc")
                 /\ Conf(na, "display_name") = 560
           /\ Differs(i, found, "department") =>
                 /\ WonBy(na, "department", "ldap")
                 /\ Conf(na, "department") = 720
<1>1. ASSUME Differs(i, found, "display_name")
      PROVE  /\ WonBy(na, "display_name", "oidc")
             /\ Conf(na, "display_name") = 560
  <2>1. /\ Scene(Shipped, i, found)!pick_winner("display_name", Both) = "oidc"
        /\ Scene(Shipped, i, found)!weight_for("display_name", "oidc") = 70
    BY ShippedWinners, ShippedWeights
  <2>2. /\ WonBy(na, "display_name", "oidc")
        /\ Conf(na, "display_name") =
              Scene(Shipped, i, found)!penalized("display_name", 8 * 70,
                                   Own(Shipped, i, found)["display_name"])
    BY <1>1, <2>1, ConflictConf DEF Differs, Both
  <2> QED
    BY <2>2 DEF Scene!penalized
<1>2. ASSUME Differs(i, found, "department")
      PROVE  /\ WonBy(na, "department", "ldap")
             /\ Conf(na, "department") = 720
  <2>1. /\ Scene(Shipped, i, found)!pick_winner("department", Both) = "ldap"
        /\ Scene(Shipped, i, found)!weight_for("department", "ldap") = 90
    BY ShippedWinners, ShippedWeights
  <2>2. /\ WonBy(na, "department", "ldap")
        /\ Conf(na, "department") =
              Scene(Shipped, i, found)!penalized("department", 8 * 90,
                                   Theirs(Shipped, i, found)["department"])
    BY <1>2, <2>1, ConflictConf DEF Differs, Both
  <2>3. Scene(Shipped, i, found)!was_department_mapped(
                                   Theirs(Shipped, i, found)["department"])
    <3>1. Scene(Shipped, i, found)!was_department_mapped("Engineering")
      BY Departments
    <3> QED
      BY <1>2, <3>1 DEF Differs
  <2> QED
    BY <2>2, <2>3 DEF Scene!penalized, Scene!Clamped
<1> QED
  BY <1>1, <1>2

(* A source that read the attributes has them all.                         *)
Full(c, i, found, r) ==
    /\ r.display_name # Scene(c, i, found)!Absent
    /\ r.primary_email # Scene(c, i, found)!Absent
    /\ r.department # Scene(c, i, found)!Absent
    /\ r.employee_type # Scene(c, i, found)!Absent
    /\ r.groups # {}

LEMMA FullInBoth ==
    ASSUME NEW c, NEW i, NEW found, found # << >>,
           Full(c, i, found, Own(c, i, found)),
           Full(c, i, found, Theirs(c, i, found))
    PROVE  /\ InBoth(c, i, found, "display_name")
           /\ InBoth(c, i, found, "primary_email")
           /\ InBoth(c, i, found, "department")
           /\ InBoth(c, i, found, "employee_type")
           /\ InBoth(c, i, found, "groups")
  BY DEF Full, InBoth, Scene!Missing

(* Scene 5: agreement on everything but one group.                         *)
LEMMA AliceFigures ==
    ASSUME NEW found, Alice(found), NEW reason, NEW na,
           na = NormalizedAttributes(Shipped, 5, found, reason)
    PROVE  /\ AgreedAt(na, "display_name", 850)
           /\ AgreedAt(na, "primary_email", 950)
           /\ AgreedAt(na, "department", 900)
           /\ AgreedAt(na, "employee_type", 950)
           /\ Has(na, "groups") /\ Conf(na, "groups") = 900
           /\ na.confidence = 91750
<1> DEFINE own == Own(Shipped, 5, found)
           theirs == Theirs(Shipped, 5, found)
<1>0. AliceSays(own)
  BY LastOwn
<1>1. Full(Shipped, 5, found, own)
  <2>1. /\ own.display_name = "Alice Smith"
        /\ own.primary_email = "alice@corp.com"
        /\ own.department = "Engineering"
        /\ own.employee_type = "FTE"
        /\ own.groups = {"engineering", "vpn-users", "product-admins"}
    BY <1>0 DEF AliceSays
  <2> HIDE DEF own
  <2> QED
    BY <2>1 DEF Full, Scene!Absent
<1>2. Full(Shipped, 5, found, theirs)
  <2>1. /\ theirs.display_name = "Alice Smith"
        /\ theirs.primary_email = "alice@corp.com"
        /\ theirs.department = "Engineering"
        /\ theirs.employee_type = "FTE"
        /\ theirs.groups = {"engineering", "vpn-users"}
    BY AliceTheirs
  <2> HIDE DEF theirs
  <2> QED
    BY <2>1 DEF Full, Scene!Absent
<1>3. /\ found # << >>
      /\ own.display_name = theirs.display_name
      /\ own.primary_email = theirs.primary_email
      /\ own.department = theirs.department /\ own.department = "Engineering"
      /\ own.employee_type = theirs.employee_type
  <2>1. /\ own.display_name = "Alice Smith" /\ own.primary_email = "alice@corp.com"
        /\ own.department = "Engineering" /\ own.employee_type = "FTE"
    BY <1>0 DEF AliceSays
  <2>2. /\ found # << >>
        /\ theirs.display_name = "Alice Smith"
        /\ theirs.primary_email = "alice@corp.com"
        /\ theirs.department = "Engineering"
        /\ theirs.employee_type = "FTE"
    BY AliceTheirs
  <2> HIDE DEF own, theirs
  <2> QED
    BY <2>1, <2>2
<1>4. /\ Agrees(5, found, "display_name")
      /\ Agrees(5, found, "primary_email")
      /\ Agrees(5, found, "department")
      /\ Agrees(5, found, "employee_type")
      /\ InBoth(Shipped, 5, found, "groups")
  BY <1>1, <1>2, <1>3, FullInBoth, LastProtocols DEF Agrees
<1>5. /\ AgreedAt(na, "display_name", 850)
      /\ AgreedAt(na, "primary_email", 950)
      /\ AgreedAt(na, "department", 900)
      /\ AgreedAt(na, "employee_type", 950)
  BY <1>4, AgreedShipped
<1>6. Has(na, "groups") /\ Conf(na, "groups") = 900
  <2> DEFINE o == {"engineering", "vpn-users", "product-admins"}
             t == {"engineering", "vpn-users"}
  <2>1. own.groups = o /\ theirs.groups = t
    BY <1>0, AliceTheirs DEF AliceSays
  <2>2. Cardinality(o \cup t) = 3
    <3>1. o \cup t = t \cup {"product-admins"} /\ "product-admins" \notin t
      OBVIOUS
    <3>2. IsFiniteSet(t) /\ Cardinality(t) = 2
      BY PairIsTwo
    <3> HIDE DEF o, t
    <3>3. Cardinality(t \cup {"product-admins"}) = 2 + 1
      BY <3>1, <3>2, FS_AddElement
    <3> QED
      BY <3>1, <3>3
  <2>3. Cardinality(o \cap t) = 2
    <3>1. o \cap t = t
      OBVIOUS
    <3>2. Cardinality(t) = 2
      BY PairIsTwo
    <3> QED
      BY <3>1, <3>2
  <2> HIDE DEF o, t
  <2>4. Has(na, "groups") /\ Conf(na, "groups") = 700 + ((300 * 2) \div 3)
    BY <1>4, <2>1, <2>2, <2>3, LastProtocols, UnitedGroups
  <2> QED
    BY <2>4
<1>7. Figures(na, 850, 950, 900, 950, 900)
  BY <1>5, <1>6 DEF Figures, AgreedAt
<1>8. na.confidence = WeightedSum(850, 950, 900, 950, 900)
  BY <1>7, Weighed
<1>9. na.confidence = 91750
  BY <1>8 DEF WeightedSum
<1> QED
  BY <1>5, <1>6, <1>9

(* Scene 6: the token's name, the directory's department, and one of three *)
(* groups in both.                                                         *)
LEMMA DianaFigures ==
    ASSUME NEW found, Diana(found), NEW reason, NEW na,
           na = NormalizedAttributes(Shipped, 6, found, reason)
    PROVE  /\ WonBy(na, "display_name", "oidc")
           /\ WonBy(na, "department", "ldap")
           /\ AddsGroups(na, SCENES[6].claims.groups)
           /\ Has(na, "groups") /\ Conf(na, "groups") = 800
           /\ na.confidence = 82300
<1> DEFINE own == Own(Shipped, 6, found)
           theirs == Theirs(Shipped, 6, found)
<1>0. DianaSays(own)
  BY LastOwn
<1>1. Full(Shipped, 6, found, own)
  <2>1. /\ own.display_name = "Di Prince"
        /\ own.primary_email = "diana@corp.com"
        /\ own.department = "Marketing"
        /\ own.employee_type = "vendor"
        /\ own.groups = {"engineering", "oncall"}
    BY <1>0 DEF DianaSays
  <2> HIDE DEF own
  <2> QED
    BY <2>1 DEF Full, Scene!Absent
<1>2. Full(Shipped, 6, found, theirs)
  <2>1. /\ theirs.display_name = "Diana Prince"
        /\ theirs.primary_email = "diana@corp.com"
        /\ theirs.department = "Engineering"
        /\ theirs.employee_type = "vendor"
        /\ theirs.groups = {"engineering", "vpn-users"}
    BY DianaTheirs
  <2> HIDE DEF theirs
  <2> QED
    BY <2>1 DEF Full, Scene!Absent
<1>3. /\ found # << >>
      /\ own.display_name # theirs.display_name
      /\ own.primary_email = theirs.primary_email
      /\ own.department # theirs.department /\ theirs.department = "Engineering"
      /\ own.employee_type = theirs.employee_type
  <2>1. /\ own.display_name = "Di Prince" /\ own.primary_email = "diana@corp.com"
        /\ own.department = "Marketing" /\ own.employee_type = "vendor"
    BY <1>0 DEF DianaSays
  <2>2. /\ found # << >>
        /\ theirs.display_name = "Diana Prince"
        /\ theirs.primary_email = "diana@corp.com"
        /\ theirs.department = "Engineering"
        /\ theirs.employee_type = "vendor"
    BY DianaTheirs
  <2> HIDE DEF own, theirs
  <2> QED
    BY <2>1, <2>2
<1>4. /\ Differs(6, found, "display_name")
      /\ Agrees(6, found, "primary_email")
      /\ Differs(6, found, "department")
      /\ Agrees(6, found, "employee_type")
      /\ InBoth(Shipped, 6, found, "groups")
  BY <1>1, <1>2, <1>3, FullInBoth, LastProtocols DEF Agrees, Differs
<1>5. /\ AgreedAt(na, "primary_email", 950)
      /\ AgreedAt(na, "employee_type", 950)
  BY <1>4, AgreedShipped
<1>6. /\ WonBy(na, "display_name", "oidc") /\ Conf(na, "display_name") = 560
      /\ WonBy(na, "department", "ldap") /\ Conf(na, "department") = 720
  BY <1>4, DiffersShipped
<1>7. /\ Has(na, "groups") /\ Conf(na, "groups") = 800
      /\ AddsGroups(na, {"engineering", "oncall"})
  <2> DEFINE o == {"engineering", "oncall"}
             t == {"engineering", "vpn-users"}
  <2>1. own.groups = o /\ theirs.groups = t
    BY <1>0, DianaTheirs DEF DianaSays
  <2>2. Cardinality(o \cup t) = 3
    <3>1. o \cup t = o \cup {"vpn-users"} /\ "vpn-users" \notin o
      OBVIOUS
    <3>2. IsFiniteSet(o) /\ Cardinality(o) = 2
      BY PairIsTwo
    <3> HIDE DEF o, t
    <3>3. Cardinality(o \cup {"vpn-users"}) = 2 + 1
      BY <3>1, <3>2, FS_AddElement
    <3> QED
      BY <3>1, <3>3
  <2>3. Cardinality(o \cap t) = 1
    <3>1. o \cap t = {"engineering"}
      OBVIOUS
    <3>2. Cardinality({"engineering"}) = 1
      BY FS_Singleton
    <3> QED
      BY <3>1, <3>2
  <2>4. o \subseteq o \cup t /\ o # o \cup t
    OBVIOUS
  <2> HIDE DEF o, t
  <2>5. /\ Has(na, "groups") /\ Conf(na, "groups") = 700 + ((300 * 1) \div 3)
        /\ na.details["groups"].value = o \cup t
    BY <1>4, <2>1, <2>2, <2>3, LastProtocols, UnitedGroups
  <2>6. Conf(na, "groups") = 800
    BY <2>5
  <2>7. AddsGroups(na, o)
    BY <2>4, <2>5 DEF AddsGroups
  <2> QED
    BY <2>5, <2>6, <2>7 DEF o
<1>8. Figures(na, 560, 950, 720, 950, 800)
  BY <1>5, <1>6, <1>7 DEF Figures, AgreedAt
<1>9. na.confidence = WeightedSum(560, 950, 720, 950, 800)
  BY <1>8, Weighed
<1>10. na.confidence = 82300
  BY <1>9 DEF WeightedSum
<1> QED
  BY <1>6, <1>7, <1>10, SixScenes

-----------------------------------------------------------------------------
(* The checks, on the results of the shipped configuration and directory.  *)

(* A result of the token alone, with any reason that the outcome gives.    *)
Alone(na, i) ==
    \E reason : /\ na = NormalizedAttributes(Shipped, i, << >>, reason)
                /\ i = 3 => reason = "ldap_event"

LEMMA FourFigures ==
    ASSUME NEW i \in {1, 2, 3, 4}, NEW na, Alone(na, i)
    PROVE  /\ ~na.applied
           /\ \A attr \in DOMAIN na.details : SingleSource(attr, na.details[attr])
           /\ i = 3 => na.skip_reason = "ldap_event"
           /\ Has(na, "department")
           /\ i = 2 => Conf(na, "department") = 500
           /\ i = 4 => Conf(na, "department") = 300 /\ ~Has(na, "employee_type")
           /\ i = 1 => na.confidence = 75250
           /\ i = 2 => na.confidence = 69000
           /\ i = 3 => na.confidence = 81250
           /\ i = 4 => na.confidence = 45000
<1>1. PICK reason : /\ na = NormalizedAttributes(Shipped, i, << >>, reason)
                    /\ i = 3 => reason = "ldap_event"
  BY DEF Alone
<1>2. Nothing(<< >>)
  BY DEF Nothing
<1>3. /\ ~na.applied /\ na.skip_reason = reason
      /\ \A attr \in DOMAIN na.details : SingleSource(attr, na.details[attr])
  BY <1>1, <1>2, AloneShown
<1> DEFINE W(attr, s) == Scene(Shipped, i, << >>)!weight_for(attr, s)
<1>4. /\ W("display_name", "oidc") = 70 /\ W("display_name", "saml") = 75
      /\ W("display_name", "ldap") = 85
      /\ W("primary_email", "oidc") = 95 /\ W("primary_email", "saml") = 75
      /\ W("primary_email", "ldap") = 65
      /\ W("department", "oidc") = 70 /\ W("department", "saml") = 50
      /\ W("department", "ldap") = 90
      /\ W("employee_type", "oidc") = 60 /\ W("employee_type", "saml") = 80
      /\ W("employee_type", "ldap") = 95
      /\ W("groups", "oidc") = 80 /\ W("groups", "saml") = 60
      /\ W("groups", "ldap") = 70
  BY ShippedWeights
<1>5. ASSUME NEW n, NEW e, NEW d, NEW t, NEW g, OwnWeights(i, << >>, n, e, d, t, g)
      PROVE  AloneAt(na, i, n, e, d, t, g)
  BY <1>1, <1>2, <1>5, AloneFigures
<1>6. CASE i = 1
  <2>1. OwnWeights(i, << >>, 70, 95, 70, 60, 80)
    BY <1>4, <1>6, FourProtocols DEF OwnWeights
  <2>2. AloneAt(na, i, 70, 95, 70, 60, 80)
    BY <1>5, <2>1
  <2> QED
    BY <1>3, <1>6, <2>2 DEF AloneAt
<1>7. CASE i = 2
  <2>1. OwnWeights(i, << >>, 75, 75, 50, 80, 60)
    BY <1>4, <1>7, FourProtocols DEF OwnWeights
  <2>2. AloneAt(na, i, 75, 75, 50, 80, 60)
    BY <1>5, <2>1
  <2> QED
    BY <1>3, <1>7, <2>2 DEF AloneAt
<1>8. CASE i = 3
  <2>1. OwnWeights(i, << >>, 85, 65, 90, 95, 70)
    BY <1>4, <1>8, FourProtocols DEF OwnWeights
  <2>2. AloneAt(na, i, 85, 65, 90, 95, 70)
    BY <1>5, <2>1
  <2> QED
    BY <1>1, <1>3, <1>8, <2>2 DEF AloneAt
<1>9. CASE i = 4
  <2>1. OwnWeights(i, << >>, 75, 75, 50, 80, 60)
    BY <1>4, <1>9, FourProtocols DEF OwnWeights
  <2>2. AloneAt(na, i, 75, 75, 50, 80, 60)
    BY <1>5, <2>1
  <2> QED
    BY <1>3, <1>9, <2>2 DEF AloneAt
<1> QED
  BY <1>6, <1>7, <1>8, <1>9

(* Scenes without an entry, and scenes whose lookup failed.                *)
LEMMA StoryOutcomes ==
    ASSUME StoryInv, verified, config = Shipped, directory = Seeded
    PROVE  /\ \A i \in {1, 2, 3, 4} : Alone(results[i], i)
           /\ \A i \in {5, 6} : i \in failed => Alone(results[i], i)
           /\ 5 \notin failed =>
                 results[5] = NormalizedAttributes(Shipped, 5, Seeded["alice"], Reason(5))
           /\ 6 \notin failed =>
                 results[6] = NormalizedAttributes(Shipped, 6, Seeded["diana"], Reason(6))
<1>1. /\ \A i \in 1..6 : results[i] = Outcome(i)
      /\ failed \subseteq {i \in DOMAIN results : SCENES[i].protocol # "ldap"}
  BY SixScenes DEF StoryInv
<1>2. \A i \in failed : /\ Outcome(i) = NormalizedAttributes(Shipped, i, << >>,
                                                           "ldap_error")
                         /\ i # 3
  BY <1>1, FourProtocols DEF Outcome
<1>3. \A i : i \notin failed =>
         Outcome(i) = NormalizedAttributes(Shipped, i, Found(i), Reason(i))
  BY DEF Outcome
<1>4. /\ Found(1) = << >> /\ Found(2) = << >> /\ Found(3) = << >> /\ Found(4) = << >>
      /\ Found(5) = Seeded["alice"] /\ Found(6) = Seeded["diana"]
  BY FourProtocols, LastProtocols, SeededEntries DEF Found, Nothing
<1>5. Reason(3) = "ldap_event"
  BY FourProtocols DEF Reason
<1>6. \A i \in failed \cap (1..6) : Alone(results[i], i)
  BY <1>1, <1>2 DEF Alone
<1>7. \A i \in {1, 2, 3, 4} : i \notin failed => Alone(results[i], i)
  BY <1>1, <1>3, <1>4, <1>5 DEF Alone
<1> QED
  BY <1>1, <1>3, <1>4, <1>6, <1>7

LEMMA StoryChecks ==
    ASSUME NEW r, \A i \in {1, 2, 3, 4} : Alone(r[i], i)
    PROVE  Check1(r) \cup Check2(r) \cup Check3(r) \cup Check4(r) = {}
<1>1. \A i \in 1..4 : /\ ~r[i].applied
                      /\ \A attr \in DOMAIN r[i].details :
                            SingleSource(attr, r[i].details[attr])
  BY FourFigures
<1>2. /\ r[3].skip_reason = "ldap_event"
      /\ Has(r[4], "department") /\ ~Has(r[4], "employee_type")
      /\ Conf(r[2], "department") = 500 /\ Conf(r[4], "department") = 300
      /\ r[1].confidence = 75250 /\ r[2].confidence = 69000
      /\ r[3].confidence = 81250 /\ r[4].confidence = 45000
  BY FourFigures
<1>3. Check1(r) = {}
  BY <1>1 DEF Check1
<1>4. Check2(r) = {}
  BY <1>1, <1>2 DEF Check2
<1>5. Check3(r) = {}
  BY <1>2 DEF Check3
<1>6. Check4(r) = {}
  BY <1>2 DEF Check4
<1> QED
  BY <1>3, <1>4, <1>5, <1>6

(* The demo tells its story exactly if alice and diana were looked up: the *)
(* figures of verify_results hold for what the service computes from the   *)
(* shipped configuration and the seeded directory, and it never passes a   *)
(* run in which the lookup of one of the two failed.                       *)
THEOREM StoryIsTold == Spec => []StoryHoldsIffEnriched
<1>1. ASSUME StoryInv PROVE StoryHoldsIffEnriched
  <2> SUFFICES ASSUME verified, config = Shipped, directory = Seeded
               PROVE  problems = {} <=> failed \cap {5, 6} = {}
    BY DEF StoryHoldsIffEnriched
  <2>1. /\ \A i \in {1, 2, 3, 4} : Alone(results[i], i)
        /\ \A i \in {5, 6} : i \in failed => Alone(results[i], i)
        /\ 5 \notin failed =>
             results[5] = NormalizedAttributes(Shipped, 5, Seeded["alice"], Reason(5))
        /\ 6 \notin failed =>
             results[6] = NormalizedAttributes(Shipped, 6, Seeded["diana"], Reason(6))
    BY <1>1, StoryOutcomes
  <2>2. problems = Check5(results) \cup Check6(results) \cup Check7(results)
    BY <1>1, <2>1, StoryChecks DEF StoryInv, verify_results
  <2>3. ASSUME NEW i \in {5, 6}, i \in failed PROVE i \in Check5(results)
    <3>1. PICK reason :
            results[i] = NormalizedAttributes(Shipped, i, << >>, reason)
      BY <2>1, <2>3 DEF Alone
    <3>2. ~results[i].applied
      <4> DEFINE none == << >>
      <4>1. results[i].applied = (none # << >>)
        BY <3>1 DEF NormalizedAttributes
      <4> QED
        BY <4>1
    <3> QED
      BY <2>3, <3>2 DEF Check5
  <2>4. ASSUME failed \cap {5, 6} = {} PROVE problems = {}
    <3>0. /\ results[5] = NormalizedAttributes(Shipped, 5, Seeded["alice"], Reason(5))
          /\ results[6] = NormalizedAttributes(Shipped, 6, Seeded["diana"], Reason(6))
      BY <2>1, <2>4
    <3>1. /\ AgreedAt(results[5], "display_name", 850)
          /\ AgreedAt(results[5], "primary_email", 950)
          /\ AgreedAt(results[5], "department", 900)
          /\ AgreedAt(results[5], "employee_type", 950)
          /\ Has(results[5], "groups") /\ Conf(results[5], "groups") = 900
          /\ results[5].confidence = 91750
      BY <3>0, SeededEntries, AliceFigures
    <3>2. /\ WonBy(results[6], "display_name", "oidc")
          /\ WonBy(results[6], "department", "ldap")
          /\ AddsGroups(results[6], SCENES[6].claims.groups)
          /\ Has(results[6], "groups") /\ Conf(results[6], "groups") = 800
          /\ results[6].confidence = 82300
      BY <3>0, SeededEntries, DianaFigures
    <3>3. results[5].applied /\ results[6].applied
      <4>1. Seeded["alice"] # << >> /\ Seeded["diana"] # << >>
        BY SeededEntries, EngineerFound DEF Alice, Diana
      <4>2. /\ results[5].applied = (Seeded["alice"] # << >>)
            /\ results[6].applied = (Seeded["diana"] # << >>)
        BY <3>0 DEF NormalizedAttributes
      <4> QED
        BY <4>1, <4>2
    <3>4. Check5(results) = {}
      <4>1. results[5].details["department"].resolution # "single_source"
        BY <3>1 DEF AgreedAt
      <4>2. results[6].details["department"].resolution # "single_source"
        BY <3>2 DEF WonBy
      <4>3. /\ "department" \in DOMAIN results[5].details
            /\ "department" \in DOMAIN results[6].details
        BY <3>1, <3>2 DEF AgreedAt, WonBy, Has
      <4>4. \A i \in 5..6 : i = 5 \/ i = 6
        OBVIOUS
      <4> QED
        BY <3>3, <4>1, <4>2, <4>3, <4>4 DEF Check5
    <3>5. Check6(results) = {}
      <4>1. ASSUME NEW attr \in DOMAIN results[5].details, attr # "groups"
            PROVE  results[5].details[attr].resolution # "priority"
        <5>1. attr \in {"display_name", "primary_email", "department",
                        "employee_type"}
          <6> DEFINE S == Scene(Shipped, 5, Seeded["alice"])!details
          <6>1. results[5].details = S
            BY <3>0, Shown
          <6>2. DOMAIN S \subseteq {"display_name", "primary_email", "department",
                                    "employee_type", "groups"}
            BY DEF Scene!details, Scene!Attribute, Scene!Scalar
          <6> HIDE DEF S
          <6> QED
            BY <4>1, <6>1, <6>2
        <5> QED
          BY <3>1, <5>1 DEF AgreedAt
      <4>2. results[1].confidence = 75250
        BY <2>1, FourFigures
      <4> QED
        BY <3>1, <4>1, <4>2 DEF Check6, corroborated
    <3>6. Check7(results) = {}
      BY <3>1, <3>2 DEF Check7, corroborated
    <3> QED
      BY <2>2, <3>4, <3>5, <3>6
  <2> QED
    BY <2>2, <2>3, <2>4
<1> QED
  BY <1>1, SpecStoryInv, PTL
=============================================================================
