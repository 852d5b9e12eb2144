--------------------------- MODULE ResolutionProofs ---------------------------
(***************************************************************************)
(* Theorems about AttributeResolution: for every configuration, login and  *)
(* directory entry, and not only the ones the run enumerates.              *)
(***************************************************************************)
EXTENDS AttributeResolution, FiniteSetTheorems, WellFoundedInduction, TLAPS

-----------------------------------------------------------------------------
(* What the provers have to be told about numbers and small sets.          *)

(* A set of natural numbers that is not empty has a least element.         *)
LEMMA LeastNat ==
    ASSUME NEW S \in SUBSET Nat, S # {}
    PROVE  \E i \in S : \A j \in S : i <= j
<1> DEFINE Less == {ss \in Nat \X Nat : ss[1] < ss[2]}
<1>1. IsWellFoundedOn(Less, Nat)
  BY NatLessThanWellFounded DEF OpToRel
<1>2. PICK i \in S : \A j \in S : <<j, i>> \notin Less
  <2> HIDE DEF Less
  <2> QED
    BY <1>1, WFMin
<1>3. ASSUME NEW j \in S PROVE i <= j
  <2>1. <<j, i>> \in Nat \X Nat
    OBVIOUS
  <2> QED
    BY <1>2, <2>1
<1> QED
  BY <1>3

(* A fraction of the whole is at most the whole.                           *)
LEMMA FractionBound ==
    ASSUME NEW n \in Nat, n > 0, NEW s \in 0..n
    PROVE  (300 * s) \div n \in 0..300
<1> DEFINE q == (300 * s) \div n
<1>1. q \in Int /\ n * q <= 300 * s /\ 300 * s < n * (q + 1)
  BY SMT
<1>2. 300 * s <= 300 * n
  OBVIOUS
<1>3. q >= 0
  BY <1>1
<1>4. q <= 300
  BY <1>1, <1>2
<1> QED
  BY <1>1, <1>3, <1>4

(* Two elements are one element exactly if they are equal.                 *)
LEMMA PairCardinality ==
    ASSUME NEW x, NEW y
    PROVE  /\ IsFiniteSet({x, y})
           /\ Cardinality({x, y}) = 1 <=> x = y
<1>1. IsFiniteSet({x}) /\ Cardinality({x}) = 1
  BY FS_Singleton
<1>2. CASE x = y
  <2>1. {x, y} = {x}
    BY <1>2
  <2> QED
    BY <1>1, <1>2, <2>1
<1>3. CASE x # y
  <2>1. {x, y} = {x} \cup {y} /\ y \notin {x}
    BY <1>3
  <2>2. IsFiniteSet({x, y}) /\ Cardinality({x, y}) = 2
    BY <1>1, <2>1, FS_AddElement
  <2> QED
    BY <1>3, <2>2
<1> QED
  BY <1>2, <1>3

-----------------------------------------------------------------------------
(* What the call reads.  Attributes come from at most two sources, the     *)
(* protocol of the login and the directory.                                *)

Sources == {login.protocol, "ldap"}

LEMMA ImageIsFinite ==
    ASSUME NEW S, IsFiniteSet(S)
    PROVE  IsFiniteSet(reduce_member_of(S))
<1> DEFINE names == {dn.cn : dn \in S}
           name == [dn \in S |-> dn.cn]
<1>1. name \in Surjection(S, names)
  BY DEF Surjection
<1>2. IsFiniteSet(names)
  <2> HIDE DEF names, name
  <2> QED
    BY <1>1, FS_Surjection
<1>3. reduce_member_of(S) \subseteq names
  BY DEF reduce_member_of
<1> QED
  BY <1>2, <1>3, FS_Subset

LEMMA ExtractIsFinite ==
    ASSUME NEW p, NEW claims, IsFiniteSet(claims.groups)
    PROVE  IsFiniteSet(extract(p, claims).groups)
<1>1. IsFiniteSet(reduce_member_of(claims.groups))
  BY ImageIsFinite
<1>2. IsFiniteSet(claims.groups \ {NotAString})
  BY FS_Subset
<1> QED
  BY <1>1, <1>2 DEF extract

LEMMA ExtractedFacts ==
    ASSUME CallInv
    PROVE  /\ DOMAIN Extracted \subseteq Sources
           /\ login.protocol \in DOMAIN Extracted
           /\ \A s \in DOMAIN Extracted : IsFiniteSet(Extracted[s].groups)
<1>1. login \in Login /\ IsFiniteSet(login.claims.groups)
  BY LoginAssumption DEF CallInv
<1>2. results # << >> => IsFiniteSet(results[1].groups)
  BY DirectoryAssumption DEF CallInv
<1>3. IsFiniteSet(extract(login.protocol, login.claims).groups)
  BY <1>1, ExtractIsFinite
<1>4. results # << >> => IsFiniteSet(extract("ldap", results[1]).groups)
  BY <1>2, ExtractIsFinite
<1> QED
  BY <1>3, <1>4 DEF Extracted, Sources

LEMMA SourcesFacts ==
    ASSUME CallInv, NEW attr
    PROVE  /\ DOMAIN attribute_sources(attr) \subseteq Sources
           /\ \A s \in DOMAIN attribute_sources(attr) :
                 /\ s \in DOMAIN Extracted
                 /\ attribute_sources(attr)[s] = Extracted[s][attr]
                 /\ attribute_sources(attr)[s] # Missing(attr)
           /\ Extracted[login.protocol][attr] # Missing(attr) =>
                 login.protocol \in DOMAIN attribute_sources(attr)
  BY ExtractedFacts DEF attribute_sources

LEMMA WeightIsInt ==
    ASSUME CallInv, NEW attr, NEW s
    PROVE  weight_for(attr, s) \in Int
<1>1. config \in Config
  BY DEF CallInv
<1> QED
  BY <1>1, ConfigAssumption DEF WellFormed, weight_for, Floor

LEMMA WeightInRange ==
    ASSUME CallInv, WeightsInRange(config), NEW attr, NEW s
    PROVE  weight_for(attr, s) \in 0..100
  BY DEF weight_for, Floor, WeightsInRange

LEMMA PriorityIsList ==
    ASSUME CallInv, NEW attr
    PROVE  priority_for(attr) \in Seq(STRING)
<1>1. config \in Config
  BY DEF CallInv
<1>2. << >> \in Seq(STRING)
  OBVIOUS
<1> QED
  BY <1>1, <1>2, ConfigAssumption DEF WellFormed, priority_for

LEMMA StrategyIsKnown ==
    ASSUME CallInv, NEW attr
    PROVE  merge_strategy_for(attr) \in {"union", "intersection", "priority"}
<1>1. config \in Config
  BY DEF CallInv
<1> QED
  BY <1>1, ConfigAssumption DEF WellFormed, merge_strategy_for

(* The greatest of the weights is the weight of a source.                  *)
LEMMA MaxWeight ==
    ASSUME CallInv, NEW attr, NEW S \in SUBSET Sources, S # {}
    PROVE  /\ max_weight(attr, S) \in {weight_for(attr, s) : s \in S}
           /\ \A s \in S : max_weight(attr, S) >= weight_for(attr, s)
<1> DEFINE W == {weight_for(attr, s) : s \in S}
<1>1. \A s \in S : weight_for(attr, s) \in Int
  BY WeightIsInt
<1>2. \E t \in S : \A s \in S : weight_for(attr, t) >= weight_for(attr, s)
  BY <1>1 DEF Sources
<1>3. \E w \in W : \A s \in S : w >= weight_for(attr, s)
  BY <1>2
<1> QED
  BY <1>3 DEF max_weight

(* A priority list that names a source has a first one that does.          *)
LEMMA FirstListed ==
    ASSUME CallInv, NEW attr, NEW S,
           \E i \in DOMAIN priority_for(attr) : priority_for(attr)[i] \in S
    PROVE  LET listed == {i \in DOMAIN priority_for(attr) :
                             priority_for(attr)[i] \in S}
           IN  \E i \in listed : \A j \in listed : i <= j
<1> DEFINE listed == {i \in DOMAIN priority_for(attr) :
                         priority_for(attr)[i] \in S}
<1>1. DOMAIN priority_for(attr) \subseteq Nat
  BY PriorityIsList
<1>2. listed \in SUBSET Nat /\ listed # {}
  BY <1>1
<1>3. \E i \in listed : \A j \in listed : i <= j
  <2> HIDE DEF listed
  <2> QED
    BY <1>2, LeastNat
<1> QED
  BY <1>3

LEMMA HeaviestIsSource ==
    ASSUME CallInv, NEW attr, NEW S \in SUBSET Sources, S # {}
    PROVE  heaviest(attr, S) \in S
<1>1. \E s \in S : weight_for(attr, s) = max_weight(attr, S)
  BY MaxWeight
<1> QED
  BY <1>1 DEF heaviest

(* The winner of a conflict is one of its sources.                         *)
LEMMA WinnerIsSource ==
    ASSUME CallInv, NEW attr, NEW S \in SUBSET Sources, S # {}
    PROVE  pick_winner(attr, S) \in S
<1> DEFINE listed == {i \in DOMAIN priority_for(attr) :
                         priority_for(attr)[i] \in S}
<1>1. CASE listed = {}
  BY <1>1, HeaviestIsSource DEF pick_winner
<1>2. CASE listed # {}
  <2>1. \E i \in listed : \A j \in listed : i <= j
    BY <1>2, FirstListed
  <2>2. (CHOOSE i \in listed : \A j \in listed : i <= j) \in listed
    <3> HIDE DEF listed
    <3> QED
      BY <2>1
  <2> QED
    BY <1>2, <2>2 DEF pick_winner
<1> QED
  BY <1>1, <1>2

-----------------------------------------------------------------------------
(* One scalar attribute.                                                   *)

LEMMA TwoSources ==
    ASSUME NEW S \in SUBSET Sources, S # {}
    PROVE  \E a \in S, b \in S : S = {a, b}
<1>1. CASE S = {login.protocol}
  BY <1>1
<1>2. CASE S = {"ldap"}
  BY <1>2
<1>3. CASE S = {login.protocol, "ldap"}
  BY <1>3
<1> QED
  BY <1>1, <1>2, <1>3 DEF Sources

(* The values are one value exactly if any two sources agree.              *)
LEMMA OneValue ==
    ASSUME NEW map, DOMAIN map \subseteq Sources, DOMAIN map # {}
    PROVE  Cardinality({map[s] : s \in DOMAIN map}) = 1 <=>
               \A s, t \in DOMAIN map : map[s] = map[t]
<1>1. PICK a \in DOMAIN map, b \in DOMAIN map : DOMAIN map = {a, b}
  BY TwoSources
<1>2. {map[s] : s \in DOMAIN map} = {map[a], map[b]}
  BY <1>1
<1>3. Cardinality({map[a], map[b]}) = 1 <=> map[a] = map[b]
  BY PairCardinality
<1>4. (\A s, t \in DOMAIN map : map[s] = map[t]) <=> map[a] = map[b]
  BY <1>1
<1> QED
  BY <1>2, <1>3, <1>4

LEMMA AgreedScalar ==
    ASSUME NEW attr, NEW map, DOMAIN map \subseteq Sources, DOMAIN map # {},
           NEW v, \A s \in DOMAIN map : map[s] = v
    PROVE  LET d == resolve_scalar(attr, map) IN
           /\ d.resolution # "priority"
           /\ d.value = v
           /\ d.confidence =
                 penalized(attr, 10 * max_weight(attr, DOMAIN map), v)
           /\ d.sources = DOMAIN map
           /\ DOMAIN d.losers = {}
<1>1. Cardinality({map[s] : s \in DOMAIN map}) = 1
  BY OneValue
<1>2. {map[s] : s \in DOMAIN map} = {v}
  OBVIOUS
<1>3. (CHOOSE u \in {map[s] : s \in DOMAIN map} : TRUE) = v
  BY <1>2
<1>4. resolve_scalar(attr, map) =
        [resolution |-> IF Cardinality(DOMAIN map) = 1 THEN "single_source"
                        ELSE "unanimous",
         value      |-> v,
         confidence |-> penalized(attr, 10 * max_weight(attr, DOMAIN map), v),
         sources    |-> DOMAIN map,
         losers     |-> << >>]
  BY <1>1, <1>3 DEF resolve_scalar
<1> QED
  BY <1>4

LEMMA ConflictScalar ==
    ASSUME CallInv, NEW attr, NEW map, DOMAIN map \subseteq Sources,
           NEW a \in DOMAIN map, NEW b \in DOMAIN map, map[a] # map[b]
    PROVE  \E winner \in DOMAIN map :
              /\ resolve_scalar(attr, map) =
                    [resolution |-> "priority",
                     value      |-> map[winner],
                     confidence |-> penalized(attr, 8 * weight_for(attr, winner),
                                              map[winner]),
                     sources    |-> {winner},
                     losers     |-> conflicting_values(map, winner)]
              /\ \A s \in DOMAIN map \ {winner} : map[s] # map[winner]
<1>1. Cardinality({map[s] : s \in DOMAIN map}) # 1
  BY OneValue
<1>2. pick_winner(attr, DOMAIN map) \in DOMAIN map
  BY WinnerIsSource
<1>3. DOMAIN map = {a, b}
  BY DEF Sources
<1> QED
  BY <1>1, <1>2, <1>3 DEF resolve_scalar

-----------------------------------------------------------------------------
(* The groups.                                                             *)

LEMMA GroupSources ==
    ASSUME CallInv
    PROVE  \A s \in DOMAIN attribute_sources("groups") :
              IsFiniteSet(attribute_sources("groups")[s])
  BY ExtractedFacts, SourcesFacts

(* Whatever the strategy, the merged groups are groups of some source.     *)
LEMMA MergedIsUnited ==
    ASSUME CallInv, NEW map, DOMAIN map \subseteq Sources, DOMAIN map # {}
    PROVE  apply_merge_strategy(map) \subseteq UNION {map[s] : s \in DOMAIN map}
<1> DEFINE listed == {i \in DOMAIN priority_for("groups") :
                         priority_for("groups")[i] \in DOMAIN map}
<1>1. CASE merge_strategy_for("groups") = "union"
  BY <1>1 DEF apply_merge_strategy
<1>2. CASE merge_strategy_for("groups") = "intersection"
  BY <1>2 DEF apply_merge_strategy
<1>3. CASE merge_strategy_for("groups") = "priority"
  <2>1. \E s \in DOMAIN map : apply_merge_strategy(map) = map[s]
    <3>1. CASE listed = {}
      BY <1>3, <3>1 DEF apply_merge_strategy
    <3>2. CASE listed # {}
      <4>1. \E i \in listed : \A j \in listed : i <= j
        BY <3>2, FirstListed
      <4>2. (CHOOSE i \in listed : \A j \in listed : i <= j) \in listed
        <5> HIDE DEF listed
        <5> QED
          BY <4>1
      <4> QED
        BY <1>3, <3>2, <4>2 DEF apply_merge_strategy
    <3> QED
      BY <3>1, <3>2
  <2> QED
    BY <2>1
<1> QED
  BY <1>1, <1>2, <1>3, StrategyIsKnown

LEMMA UnionIsFinite ==
    ASSUME NEW map, DOMAIN map \subseteq Sources, DOMAIN map # {},
           \A s \in DOMAIN map : IsFiniteSet(map[s])
    PROVE  IsFiniteSet(UNION {map[s] : s \in DOMAIN map})
<1>1. PICK a \in DOMAIN map, b \in DOMAIN map : DOMAIN map = {a, b}
  BY TwoSources
<1>2. UNION {map[s] : s \in DOMAIN map} = map[a] \cup map[b]
  BY <1>1
<1>3. IsFiniteSet(map[a]) /\ IsFiniteSet(map[b])
  BY <1>1
<1>4. IsFiniteSet(map[a] \cup map[b])
  BY <1>3, FS_Union
<1> QED
  BY <1>2, <1>4

(* The confidence of merged groups is between 0.7 and 1.                   *)
LEMMA MergedConfidence ==
    ASSUME CallInv, NEW map, DOMAIN map \subseteq Sources, DOMAIN map # {},
           \A s \in DOMAIN map : IsFiniteSet(map[s]),
           NEW merged, merged = apply_merge_strategy(map), merged # {}
    PROVE  (300 * shared_groups(map, merged)) \div Cardinality(merged) \in 0..300
<1> DEFINE shared == {g \in merged :
                         Cardinality({s \in DOMAIN map : g \in map[s]}) > 1}
<1>1. IsFiniteSet(merged)
  <2> DEFINE united == UNION {map[s] : s \in DOMAIN map}
  <2>1. IsFiniteSet(united)
    BY UnionIsFinite
  <2>2. merged \subseteq united
    BY MergedIsUnited
  <2> HIDE DEF united
  <2> QED
    BY <2>1, <2>2, FS_Subset
<1>2. shared \subseteq merged
  OBVIOUS
<1>3. /\ IsFiniteSet(shared)
      /\ Cardinality(shared) <= Cardinality(merged)
      /\ Cardinality(shared) \in Nat
  <2> HIDE DEF shared
  <2>1. IsFiniteSet(shared) /\ Cardinality(shared) <= Cardinality(merged)
    BY <1>1, <1>2, FS_Subset
  <2> QED
    BY <2>1, FS_CardinalityType
<1>4. Cardinality(merged) \in Nat /\ Cardinality(merged) > 0
  BY <1>1, FS_CardinalityType, FS_EmptySet
<1>5. shared_groups(map, merged) \in 0..Cardinality(merged)
  BY <1>3, <1>4 DEF shared_groups
<1> QED
  BY <1>4, <1>5, FractionBound

(* One source gives its groups; several give the merge, with a confidence  *)
(* between 0.7 and 1.                                                      *)
GroupsResolved(map) ==
    LET d == resolve_groups(map) IN
    /\ d.resolution = "list_merge"
    /\ d.sources = DOMAIN map
    /\ DOMAIN d.losers = {}
    /\ \/ \E s \in DOMAIN map :
             /\ DOMAIN map = {s}
             /\ d.value = map[s]
             /\ d.confidence = 10 * weight_for("groups", s)
       \/ /\ d.value = apply_merge_strategy(map)
          /\ d.confidence \in 700..1000

LEMMA ResolvedGroups ==
    ASSUME CallInv, NEW map, DOMAIN map \subseteq Sources, DOMAIN map # {},
           \A s \in DOMAIN map : IsFiniteSet(map[s])
    PROVE  GroupsResolved(map)
<1> DEFINE merged == apply_merge_strategy(map)
           source == CHOOSE s \in DOMAIN map : TRUE
<1>1. source \in DOMAIN map
  OBVIOUS
<1>2. CASE Cardinality(DOMAIN map) = 1
  <2>1. PICK a \in DOMAIN map, b \in DOMAIN map : DOMAIN map = {a, b}
    BY TwoSources
  <2>2. a = b
    <3>1. Cardinality({a, b}) = 1 <=> a = b
      BY PairCardinality
    <3>2. Cardinality({a, b}) = 1
      BY <1>2, <2>1
    <3> QED
      BY <3>1, <3>2
  <2>3. DOMAIN map = {source}
    BY <1>1, <2>1, <2>2
  <2>4. resolve_groups(map) =
          [resolution |-> "list_merge", value |-> map[source],
           confidence |-> 10 * weight_for("groups", source),
           sources |-> {source}, losers |-> << >>]
    BY <1>2 DEF resolve_groups
  <2> HIDE DEF source
  <2>5. /\ resolve_groups(map).resolution = "list_merge"
        /\ resolve_groups(map).sources = DOMAIN map
        /\ DOMAIN resolve_groups(map).losers = {}
        /\ resolve_groups(map).value = map[source]
        /\ resolve_groups(map).confidence = 10 * weight_for("groups", source)
    BY <2>3, <2>4
  <2> QED
    BY <1>1, <2>3, <2>5 DEF GroupsResolved
<1>3. CASE Cardinality(DOMAIN map) # 1
  <2> DEFINE share == IF merged = {} THEN 0
                      ELSE (300 * shared_groups(map, merged))
                              \div Cardinality(merged)
  <2>1. share \in 0..300
    <3>1. merged # {} =>
            (300 * shared_groups(map, merged)) \div Cardinality(merged)
                \in 0..300
      BY MergedConfidence
    <3> QED
      BY <3>1
  <2>2. resolve_groups(map) =
          [resolution |-> "list_merge", value |-> merged,
           confidence |-> 700 + share,
           sources |-> DOMAIN map, losers |-> << >>]
    BY <1>3 DEF resolve_groups
  <2>3. 700 + share \in 700..1000
    <3> HIDE DEF share
    <3> QED
      BY <2>1
  <2> HIDE DEF share, merged
  <2>4. /\ resolve_groups(map).resolution = "list_merge"
        /\ resolve_groups(map).sources = DOMAIN map
        /\ DOMAIN resolve_groups(map).losers = {}
        /\ resolve_groups(map).value = merged
        /\ resolve_groups(map).confidence \in 700..1000
    BY <2>2, <2>3
  <2> QED
    BY <2>4 DEF merged, GroupsResolved
<1> QED
  BY <1>2, <1>3

-----------------------------------------------------------------------------
(* The details of a login, and the invariant of the call.                  *)

LEMMA DetailsFacts ==
    /\ DOMAIN details = {a \in Attribute : DOMAIN attribute_sources(a) # {}}
    /\ \A attr \in DOMAIN details :
          details[attr] =
             IF attr = "groups" THEN resolve_groups(attribute_sources(attr))
             ELSE resolve_scalar(attr, attribute_sources(attr))
  BY DEF details

(* The call changes nothing of what it reads, so what it computes does not *)
(* depend on when it is asked.                                             *)
LEMMA DetailsKept ==
    ASSUME CallInv, UNCHANGED <<config, login, results>>
    PROVE  details' = details
<1>1. Extracted' = Extracted
  BY DEF Extracted
<1>2. ASSUME NEW attr PROVE attribute_sources(attr)' = attribute_sources(attr)
  BY <1>1 DEF attribute_sources
<1>3. ASSUME NEW attr, NEW s PROVE weight_for(attr, s)' = weight_for(attr, s)
  BY DEF weight_for
<1>4. ASSUME NEW attr PROVE priority_for(attr)' = priority_for(attr)
  BY DEF priority_for
<1>5. ASSUME NEW attr
      PROVE  merge_strategy_for(attr)' = merge_strategy_for(attr)
  BY DEF merge_strategy_for
<1>6. ASSUME NEW attr, NEW S PROVE max_weight(attr, S)' = max_weight(attr, S)
  BY <1>3 DEF max_weight
<1>7. ASSUME NEW attr, NEW S PROVE heaviest(attr, S)' = heaviest(attr, S)
  <2> DEFINE best == {s \in S : weight_for(attr, s) = max_weight(attr, S)}
             first == CHOOSE s \in best : TRUE
  <2>1. best' = best
    BY <1>3, <1>6
  <2>2. first' = first
    <3> HIDE DEF best
    <3> QED
      BY <2>1
  <2>3. heaviest(attr, S) =
          IF login.protocol \in best THEN login.protocol ELSE first
    BY DEF heaviest
  <2>4. heaviest(attr, S)' =
          IF login'.protocol \in best' THEN login'.protocol ELSE first'
    BY DEF heaviest
  <2> HIDE DEF best, first
  <2> QED
    BY <2>1, <2>2, <2>3, <2>4
<1>8. ASSUME NEW attr, NEW S PROVE pick_winner(attr, S)' = pick_winner(attr, S)
  <2> DEFINE listed == {i \in DOMAIN priority_for(attr) :
                           priority_for(attr)[i] \in S}
             first == CHOOSE i \in listed : \A j \in listed : i <= j
  <2>1. listed' = listed
    BY <1>4
  <2>2. first' = first
    <3> HIDE DEF listed
    <3> QED
      BY <2>1
  <2>3. pick_winner(attr, S) =
          IF listed = {} THEN heaviest(attr, S) ELSE priority_for(attr)[first]
    BY DEF pick_winner
  <2>4. pick_winner(attr, S)' =
          IF listed' = {} THEN heaviest(attr, S)'
          ELSE priority_for(attr)'[first']
    BY DEF pick_winner
  <2> HIDE DEF listed, first
  <2> QED
    BY <1>4, <1>7, <2>1, <2>2, <2>3, <2>4
<1>9. ASSUME NEW attr, NEW map
      PROVE  resolve_scalar(attr, map)' = resolve_scalar(attr, map)
  BY <1>3, <1>6, <1>8 DEF resolve_scalar
<1>10. ASSUME NEW map
       PROVE  apply_merge_strategy(map)' = apply_merge_strategy(map)
  <2> DEFINE listed == {i \in DOMAIN priority_for("groups") :
                           priority_for("groups")[i] \in DOMAIN map}
             first == CHOOSE i \in listed : \A j \in listed : i <= j
             other == IF "ldap" \in DOMAIN map THEN "ldap"
                      ELSE CHOOSE s \in DOMAIN map : TRUE
  <2>1. CASE merge_strategy_for("groups") = "union"
    BY <1>5, <2>1 DEF apply_merge_strategy
  <2>2. CASE merge_strategy_for("groups") = "intersection"
    BY <1>5, <2>2 DEF apply_merge_strategy
  <2>3. CASE merge_strategy_for("groups") = "priority"
    <3>1. listed' = listed
      BY <1>4
    <3>2. first' = first
      <4> HIDE DEF listed
      <4> QED
        BY <3>1
    <3>3. apply_merge_strategy(map) =
            IF listed # {} THEN map[priority_for("groups")[first]]
            ELSE map[other]
      BY <2>3 DEF apply_merge_strategy
    <3>4. apply_merge_strategy(map)' =
            IF listed' # {} THEN map[priority_for("groups")'[first']]
            ELSE map[other]
      BY <1>5, <2>3 DEF apply_merge_strategy
    <3> HIDE DEF listed, first, other
    <3> QED
      BY <1>4, <3>1, <3>2, <3>3, <3>4
  <2> QED
    BY <2>1, <2>2, <2>3, StrategyIsKnown
<1>11. ASSUME NEW map PROVE resolve_groups(map)' = resolve_groups(map)
  <2> DEFINE merged == apply_merge_strategy(map)
             source == CHOOSE s \in DOMAIN map : TRUE
             single == [resolution |-> "list_merge", value |-> map[source],
                        confidence |-> 10 * weight_for("groups", source),
                        sources |-> {source}, losers |-> << >>]
             several(m) == [resolution |-> "list_merge", value |-> m,
                            confidence |->
                               700 + (IF m = {} THEN 0
                                      ELSE (300 * shared_groups(map, m))
                                              \div Cardinality(m)),
                            sources |-> DOMAIN map, losers |-> << >>]
  <2>1. resolve_groups(map) =
          IF Cardinality(DOMAIN map) = 1 THEN single ELSE several(merged)
    BY DEF resolve_groups
  <2>2. resolve_groups(map)' =
          IF Cardinality(DOMAIN map) = 1 THEN single' ELSE several(merged')
    BY DEF resolve_groups
  <2>3. single' = single
    <3> HIDE DEF source
    <3> QED
      BY <1>3
  <2>4. merged' = merged
    BY <1>10
  <2> HIDE DEF single, several, merged
  <2> QED
    BY <2>1, <2>2, <2>3, <2>4
<1> QED
  BY <1>2, <1>9, <1>11 DEF details

LEMMA InitCallInv == Init => CallInv
  BY DEF Init, CallInv

LEMMA NextCallInv == CallInv /\ [Next]_vars => CallInv'
<1> SUFFICES ASSUME CallInv, [Next]_vars PROVE CallInv'
  OBVIOUS
<1>1. UNCHANGED <<config, login, results>>
  BY DEF Next, Normalize, NormalizeRaises, vars
<1>2. details' = details /\ (Valid(details)' <=> Valid(details))
  BY <1>1, DetailsKept DEF Valid
<1>3. Asks(login)' <=> Asks(login)
  BY <1>1 DEF Asks
<1>4. CASE Normalize
  BY <1>1, <1>2, <1>3, <1>4 DEF CallInv, Normalize
<1>5. CASE NormalizeRaises
  BY <1>1, <1>2, <1>3, <1>5 DEF CallInv, NormalizeRaises
<1>6. CASE UNCHANGED vars
  BY <1>1, <1>2, <1>3, <1>6 DEF CallInv, vars
<1> QED
  BY <1>4, <1>5, <1>6 DEF Next

LEMMA SpecCallInv == Spec => []CallInv
  BY InitCallInv, NextCallInv, PTL DEF Spec

-----------------------------------------------------------------------------
(* The theorems.  Each property is about the state alone and follows from  *)
(* CallInv.                                                                *)

LEMMA PenalizedInRange ==
    ASSUME NEW attr, NEW conf, conf \in 0..1000, NEW v
    PROVE  penalized(attr, conf, v) \in 0..1000
  BY DEF penalized, Clamped

LEMMA ScalarInRange ==
    ASSUME CallInv, WeightsInRange(config),
           NEW attr, NEW map, DOMAIN map \subseteq Sources, DOMAIN map # {}
    PROVE  resolve_scalar(attr, map).confidence \in 0..1000
<1>1. CASE \A s, t \in DOMAIN map : map[s] = map[t]
  <2>1. PICK v : \A s \in DOMAIN map : map[s] = v
    BY <1>1
  <2>2. max_weight(attr, DOMAIN map) \in 0..100
    <3>1. max_weight(attr, DOMAIN map) \in
            {weight_for(attr, s) : s \in DOMAIN map}
      BY MaxWeight
    <3>2. \A s : weight_for(attr, s) \in 0..100
      BY WeightInRange
    <3> QED
      BY <3>1, <3>2
  <2>3. PICK c \in 0..1000 : c = 10 * max_weight(attr, DOMAIN map)
    BY <2>2
  <2>4. resolve_scalar(attr, map).confidence =
          penalized(attr, c, v)
    BY <2>1, <2>3, AgreedScalar
  <2>5. penalized(attr, c, v) \in 0..1000
    BY PenalizedInRange
  <2> QED
    BY <2>4, <2>5
<1>2. CASE \E s, t \in DOMAIN map : map[s] # map[t]
  <2>1. PICK winner \in DOMAIN map :
          resolve_scalar(attr, map) =
             [resolution |-> "priority",
              value      |-> map[winner],
              confidence |-> penalized(attr, 8 * weight_for(attr, winner),
                                       map[winner]),
              sources    |-> {winner},
              losers     |-> conflicting_values(map, winner)]
    BY <1>2, ConflictScalar
  <2>2. PICK c \in 0..1000 : c = 8 * weight_for(attr, winner)
    <3>1. weight_for(attr, winner) \in 0..100
      BY WeightInRange
    <3> QED
      BY <3>1
  <2>3. resolve_scalar(attr, map).confidence =
          penalized(attr, c, map[winner])
    BY <2>1, <2>2
  <2>4. penalized(attr, c, map[winner]) \in 0..1000
    BY PenalizedInRange
  <2> QED
    BY <2>3, <2>4
<1> QED
  BY <1>1, <1>2

LEMMA GroupsInRange ==
    ASSUME CallInv, WeightsInRange(config), NEW map,
           DOMAIN map \subseteq Sources, DOMAIN map # {},
           \A s \in DOMAIN map : IsFiniteSet(map[s])
    PROVE  resolve_groups(map).confidence \in 0..1000
<1>1. \A s : weight_for("groups", s) \in 0..100
  BY WeightInRange
<1>2. \/ resolve_groups(map).confidence \in 700..1000
      \/ \E s \in DOMAIN map :
            resolve_groups(map).confidence = 10 * weight_for("groups", s)
  <2>1. \/ \E s \in DOMAIN map :
              /\ DOMAIN map = {s}
              /\ resolve_groups(map).value = map[s]
              /\ resolve_groups(map).confidence = 10 * weight_for("groups", s)
        \/ /\ resolve_groups(map).value = apply_merge_strategy(map)
           /\ resolve_groups(map).confidence \in 700..1000
    <3>1. GroupsResolved(map)
      BY ResolvedGroups
    <3> QED
      BY <3>1 DEF GroupsResolved
  <2> QED
    BY <2>1
<1>3. \A n : n \in 700..1000 => n \in 0..1000
  OBVIOUS
<1>4. ASSUME NEW n \in 0..100 PROVE 10 * n \in 0..1000
  OBVIOUS
<1> QED
  BY <1>1, <1>2, <1>3, <1>4

(* A configuration with weights between 0 and 1 never makes normalize      *)
(* raise: every confidence it can compute is one that ResolutionDetailBase *)
(* accepts, for any login, entry, priority list and strategy.              *)
THEOREM SoundWeightsNeverRaise == Spec => []SoundConfigNeverRaises
<1>1. ASSUME CallInv PROVE SoundConfigNeverRaises
  <2>1. ASSUME WeightsInRange(config) PROVE Valid(details)
    <3> SUFFICES ASSUME NEW attr \in DOMAIN details
                 PROVE  details[attr].confidence \in 0..1000
      BY DEF Valid
    <3>1. /\ DOMAIN attribute_sources(attr) # {}
          /\ DOMAIN attribute_sources(attr) \subseteq Sources
      BY <1>1, DetailsFacts, SourcesFacts
    <3>2. CASE attr = "groups"
      <4>1. resolve_groups(attribute_sources("groups")).confidence \in 0..1000
        BY <1>1, <2>1, <3>1, <3>2, GroupSources, GroupsInRange
      <4> QED
        BY <3>2, <4>1, DetailsFacts
    <3>3. CASE attr # "groups"
      <4>1. resolve_scalar(attr, attribute_sources(attr)).confidence
                \in 0..1000
        BY <1>1, <2>1, <3>1, ScalarInRange
      <4> QED
        BY <3>3, <4>1, DetailsFacts
    <3> QED
      BY <3>2, <3>3
  <2> QED
    BY <1>1, <2>1 DEF SoundConfigNeverRaises, CallInv
<1> QED
  BY <1>1, SpecCallInv, PTL

(* What the details of a scalar attribute say.                             *)
LEMMA ScalarDetail ==
    ASSUME CallInv, NEW attr \in DOMAIN details, attr # "groups"
    PROVE  LET map == attribute_sources(attr)
               d   == details[attr]
           IN  /\ d.sources \cup DOMAIN d.losers = DOMAIN map
               /\ d.sources # {}
               /\ \A s \in d.sources : map[s] = d.value
               /\ \A s \in DOMAIN d.losers : d.losers[s] # d.value
<1> DEFINE map == attribute_sources(attr)
           d   == resolve_scalar(attr, map)
<1>1. DOMAIN map # {} /\ DOMAIN map \subseteq Sources /\ details[attr] = d
  BY DetailsFacts, SourcesFacts
<1>2. CASE \A s, t \in DOMAIN map : map[s] = map[t]
  <2>1. PICK v : \A s \in DOMAIN map : map[s] = v
    BY <1>1, <1>2
  <2>2. d.value = v /\ d.sources = DOMAIN map /\ DOMAIN d.losers = {}
    <3> HIDE DEF map
    <3> QED
      BY <1>1, <2>1, AgreedScalar
  <2> HIDE DEF map, d
  <2> QED
    BY <1>1, <2>1, <2>2 DEF map
<1>3. CASE \E s, t \in DOMAIN map : map[s] # map[t]
  <2>1. PICK winner \in DOMAIN map :
          /\ d = [resolution |-> "priority",
                  value      |-> map[winner],
                  confidence |-> penalized(attr, 8 * weight_for(attr, winner),
                                           map[winner]),
                  sources    |-> {winner},
                  losers     |-> conflicting_values(map, winner)]
          /\ \A s \in DOMAIN map \ {winner} : map[s] # map[winner]
    <3> HIDE DEF map
    <3> QED
      BY <1>1, <1>3, ConflictScalar
  <2>2. /\ d.value = map[winner]
        /\ d.sources = {winner}
        /\ DOMAIN d.losers = DOMAIN map \ {winner}
        /\ \A s \in DOMAIN d.losers : d.losers[s] = map[s]
    <3> HIDE DEF map, d
    <3> QED
      BY <2>1 DEF conflicting_values
  <2> HIDE DEF map, d
  <2> QED
    BY <1>1, <2>1, <2>2 DEF map
<1> QED
  BY <1>2, <1>3

(* What the details of the groups say.                                     *)
LEMMA GroupsDetail ==
    ASSUME CallInv, "groups" \in DOMAIN details
    PROVE  LET map == attribute_sources("groups")
               d   == details["groups"]
           IN  /\ d.resolution = "list_merge"
               /\ d.sources = DOMAIN map
               /\ DOMAIN d.losers = {}
               /\ \/ \E s \in DOMAIN map :
                        DOMAIN map = {s} /\ d.value = map[s]
                  \/ d.value = apply_merge_strategy(map)
<1> DEFINE map == attribute_sources("groups")
<1>1. /\ DOMAIN map # {}
      /\ DOMAIN map \subseteq Sources
      /\ details["groups"] = resolve_groups(map)
      /\ \A s \in DOMAIN map : IsFiniteSet(map[s])
  BY DetailsFacts, SourcesFacts, GroupSources
<1> HIDE DEF map
<1>2. GroupsResolved(map)
  BY <1>1, ResolvedGroups
<1> QED
  BY <1>1, <1>2 DEF map, GroupsResolved

(* resolution_details accounts for every source: the winners hold the      *)
(* resolved value, the losers another one, and there are no others.        *)
THEOREM DetailsAccountForSources == Spec => []DetailsExplainValue
<1>1. ASSUME CallInv PROVE DetailsExplainValue
  <2> SUFFICES ASSUME Resolved, NEW attr \in DOMAIN out.details
               PROVE  LET d == out.details[attr] IN
                      /\ d.sources \cup DOMAIN d.losers
                            = DOMAIN attribute_sources(attr)
                      /\ attr \in Scalar =>
                            /\ \A s \in d.sources :
                                  attribute_sources(attr)[s] = d.value
                            /\ \A s \in DOMAIN d.losers :
                                  d.losers[s] # d.value
    BY DEF DetailsExplainValue
  <2>1. out.details = details
    BY <1>1 DEF CallInv, Resolved
  <2>2. CASE attr = "groups"
    BY <1>1, <2>1, <2>2, GroupsDetail DEF Scalar
  <2>3. CASE attr # "groups"
    BY <1>1, <2>1, <2>3, ScalarDetail
  <2> QED
    BY <2>2, <2>3
<1> QED
  BY <1>1, SpecCallInv, PTL

(* A directory entry takes nothing away from a login: every attribute it   *)
(* has itself is in the result, whichever source wins it.                  *)
THEOREM DirectoryTakesNothing == Spec => []EnrichmentTakesNothing
<1>1. ASSUME CallInv PROVE EnrichmentTakesNothing
  <2> DEFINE own(attr) == Extracted[login.protocol][attr]
  <2> SUFFICES ASSUME Resolved, NEW attr \in Attribute,
                      own(attr) # Missing(attr)
               PROVE  /\ attr \in DOMAIN out.details
                      /\ attr \in Scalar => out.details[attr].value # Absent
                      /\ attr = "groups" /\ merge_strategy_for("groups") = "union"
                            => own(attr) \subseteq out.details[attr].value
    BY DEF EnrichmentTakesNothing
  <2> DEFINE map == attribute_sources(attr)
  <2>1. out.details = details
    BY <1>1 DEF CallInv, Resolved
  <2>2. login.protocol \in DOMAIN map /\ map[login.protocol] = own(attr)
    BY <1>1, SourcesFacts
  <2>3. attr \in DOMAIN details
    BY <2>2, DetailsFacts
  <2>4. ASSUME attr \in Scalar PROVE details[attr].value # Absent
    <3>1. attr # "groups"
      BY <2>4 DEF Scalar
    <3>2. PICK s \in details[attr].sources : TRUE
      BY <1>1, <2>3, <3>1, ScalarDetail
    <3>3. s \in DOMAIN map /\ map[s] = details[attr].value
      BY <1>1, <2>3, <3>1, <3>2, ScalarDetail
    <3>4. map[s] # Missing(attr)
      BY <1>1, <3>3, SourcesFacts
    <3> QED
      BY <3>1, <3>3, <3>4 DEF Missing
  <2>5. ASSUME attr = "groups", merge_strategy_for("groups") = "union"
        PROVE  own(attr) \subseteq details[attr].value
    <3>1. \/ \E s \in DOMAIN map :
                DOMAIN map = {s} /\ details[attr].value = map[s]
          \/ details[attr].value = UNION {map[s] : s \in DOMAIN map}
      BY <1>1, <2>3, <2>5, GroupsDetail DEF apply_merge_strategy
    <3> HIDE DEF map, own
    <3> QED
      BY <2>2, <3>1
  <2> QED
    BY <2>1, <2>3, <2>4, <2>5
<1> QED
  BY <1>1, SpecCallInv, PTL

(* A scalar detail is an agreement or a conflict, with the confidence of   *)
(* the one or the other.                                                   *)
LEMMA ScalarConfidence ==
    ASSUME CallInv, NEW attr \in DOMAIN details, attr # "groups"
    PROVE  LET d == details[attr] IN
           \/ /\ d.resolution # "priority"
              /\ d.sources \subseteq Sources
              /\ d.sources # {}
              /\ d.confidence =
                    penalized(attr, 10 * max_weight(attr, d.sources), d.value)
           \/ /\ d.resolution = "priority"
              /\ \E winner \in Sources :
                    /\ d.sources = {winner}
                    /\ d.confidence =
                          penalized(attr, 8 * weight_for(attr, winner), d.value)
<1> DEFINE map == attribute_sources(attr)
           d   == resolve_scalar(attr, map)
<1>1. DOMAIN map # {} /\ DOMAIN map \subseteq Sources /\ details[attr] = d
  BY DetailsFacts, SourcesFacts
<1>2. CASE \A s, t \in DOMAIN map : map[s] = map[t]
  <2>1. PICK v : \A s \in DOMAIN map : map[s] = v
    BY <1>1, <1>2
  <2>2. /\ d.resolution # "priority"
        /\ d.value = v
        /\ d.sources = DOMAIN map
        /\ d.confidence = penalized(attr, 10 * max_weight(attr, DOMAIN map), v)
    <3> HIDE DEF map
    <3> QED
      BY <1>1, <2>1, AgreedScalar
  <2> HIDE DEF map, d
  <2> QED
    BY <1>1, <2>2
<1>3. CASE \E s, t \in DOMAIN map : map[s] # map[t]
  <2>1. PICK winner \in DOMAIN map :
          d = [resolution |-> "priority",
               value      |-> map[winner],
               confidence |-> penalized(attr, 8 * weight_for(attr, winner),
                                        map[winner]),
               sources    |-> {winner},
               losers     |-> conflicting_values(map, winner)]
    <3> HIDE DEF map
    <3> QED
      BY <1>1, <1>3, ConflictScalar
  <2> HIDE DEF map, d
  <2>2. /\ d.resolution = "priority"
        /\ d.sources = {winner}
        /\ d.confidence =
              penalized(attr, 8 * weight_for(attr, winner), d.value)
    BY <2>1
  <2> QED
    BY <1>1, <2>2
<1> QED
  BY <1>2, <1>3

(* 0.8 times a weight is at most a weight that is not smaller, also after  *)
(* the penalty; a negative weight is refused, or clamped to nothing.       *)
LEMMA PenalizedMonotone ==
    ASSUME NEW attr, NEW v, NEW w \in Int, NEW m \in Int, w <= m,
           penalized(attr, 8 * w, v) >= 0
    PROVE  penalized(attr, 8 * w, v) <= penalized(attr, 10 * m, v)
  BY DEF penalized, Clamped

(* A conflict is never more trusted than an agreement on its outcome,      *)
(* whatever weights and priorities the configuration gives.                *)
THEOREM ConflictCostsConfidence == Spec => []ConflictNotMoreConfident
<1>1. ASSUME CallInv PROVE ConflictNotMoreConfident
  <2> SUFFICES ASSUME Resolved, NEW attr \in DOMAIN out.details,
                      out.details[attr].resolution = "priority"
               PROVE  out.details[attr].confidence <=
                         resolve_scalar(attr,
                            [s \in out.details[attr].sources
                                     \cup DOMAIN out.details[attr].losers |->
                                out.details[attr].value]).confidence
    BY DEF ConflictNotMoreConfident
  <2> DEFINE d == details[attr]
             sources == DOMAIN attribute_sources(attr)
             agreed == [s \in sources |-> d.value]
  <2>1. out.details = details /\ Valid(details) /\ attr \in DOMAIN details
    BY <1>1 DEF CallInv, Resolved
  <2>2. attr # "groups" /\ d.resolution = "priority"
    BY <1>1, <2>1, GroupsDetail
  <2>3. /\ d.sources \cup DOMAIN d.losers = sources
        /\ sources \subseteq Sources
        /\ sources # {}
    BY <1>1, <2>1, <2>2, ScalarDetail, SourcesFacts
  <2>4. PICK winner \in Sources :
          /\ d.sources = {winner}
          /\ d.confidence =
                penalized(attr, 8 * weight_for(attr, winner), d.value)
    BY <1>1, <2>1, <2>2, ScalarConfidence
  <2>5. d.confidence \in 0..1000
    BY <2>1 DEF Valid
  <2> HIDE DEF d, sources
  <2>6. resolve_scalar(attr, agreed).confidence =
          penalized(attr, 10 * max_weight(attr, sources), d.value)
    <3>1. DOMAIN agreed = sources /\ \A s \in DOMAIN agreed : agreed[s] = d.value
      OBVIOUS
    <3> HIDE DEF agreed
    <3> QED
      BY <2>3, <3>1, AgreedScalar
  <2>7. PICK w \in Int, m \in Int :
          /\ w = weight_for(attr, winner)
          /\ m = max_weight(attr, sources)
          /\ w <= m
    <3>1. winner \in sources
      BY <2>3, <2>4
    <3>2. /\ max_weight(attr, sources) \in {weight_for(attr, s) : s \in sources}
          /\ \A s \in sources : max_weight(attr, sources) >= weight_for(attr, s)
      BY <1>1, <2>3, MaxWeight
    <3>3. \A s : weight_for(attr, s) \in Int
      BY <1>1, WeightIsInt
    <3> QED
      BY <3>1, <3>2, <3>3
  <2>8. penalized(attr, 8 * w, d.value) <= penalized(attr, 10 * m, d.value)
    BY <2>4, <2>5, <2>7, PenalizedMonotone
  <2>9. d.confidence <= resolve_scalar(attr, agreed).confidence
    BY <2>4, <2>6, <2>7, <2>8
  <2> QED
    BY <2>1, <2>3, <2>9 DEF d
<1> QED
  BY <1>1, SpecCallInv, PTL

(* The tables of normalization_values: a canonical name is in the table    *)
(* under its own lower-case form.                                          *)
LEMMA CanonicalIsMapped ==
    ASSUME NEW k \in DOMAIN DEPARTMENT_CANONICAL
    PROVE  was_department_mapped(DEPARTMENT_CANONICAL[k])
<1>1. DEPARTMENT_CANONICAL[k] \in
        {"Engineering", "Finance", "Human Resources",
         "Information Technology", "Sales", "Marketing"}
  BY DEF DEPARTMENT_CANONICAL
<1>2. \A v \in {"Engineering", "Finance", "Human Resources",
                "Information Technology", "Sales", "Marketing"} :
         was_department_mapped(v)
  <2>1. /\ Key("Engineering") = "engineering"
        /\ Key("Finance") = "finance"
        /\ Key("Human Resources") = "human resources"
        /\ Key("Information Technology") = "information technology"
        /\ Key("Sales") = "sales"
        /\ Key("Marketing") = "marketing"
    <3>1. {"Engineering", "Finance", "Human Resources",
           "Information Technology", "Sales", "Marketing"} \cap LowerCase = {}
      BY DEF LowerCase, DEPARTMENT_CANONICAL, EMPLOYEE_TYPE_CANONICAL, Empty,
             LongSales
    <3> QED
      BY <3>1 DEF Key
  <2>2. /\ "engineering" \in DOMAIN DEPARTMENT_CANONICAL
        /\ DEPARTMENT_CANONICAL["engineering"] = "Engineering"
    BY DEF DEPARTMENT_CANONICAL
  <2>3. /\ "finance" \in DOMAIN DEPARTMENT_CANONICAL
        /\ DEPARTMENT_CANONICAL["finance"] = "Finance"
    BY DEF DEPARTMENT_CANONICAL
  <2>4. /\ "human resources" \in DOMAIN DEPARTMENT_CANONICAL
        /\ DEPARTMENT_CANONICAL["human resources"] = "Human Resources"
    BY DEF DEPARTMENT_CANONICAL
  <2>5. /\ "information technology" \in DOMAIN DEPARTMENT_CANONICAL
        /\ DEPARTMENT_CANONICAL["information technology"] = "Information Technology"
    BY DEF DEPARTMENT_CANONICAL
  <2>6. /\ "sales" \in DOMAIN DEPARTMENT_CANONICAL
        /\ DEPARTMENT_CANONICAL["sales"] = "Sales"
    BY DEF DEPARTMENT_CANONICAL
  <2>7. /\ "marketing" \in DOMAIN DEPARTMENT_CANONICAL
        /\ DEPARTMENT_CANONICAL["marketing"] = "Marketing"
    BY DEF DEPARTMENT_CANONICAL
  <2> QED
    BY <2>1, <2>2, <2>3, <2>4, <2>5, <2>6, <2>7
       DEF was_department_mapped
<1> QED
  BY <1>1, <1>2

(* A claim of the table comes out canonical and is seen to be mapped.      *)
LEMMA RecognizedIsMapped ==
    ASSUME NEW raw, normalize_department(raw) # Absent,
           Key(raw) \in DOMAIN DEPARTMENT_CANONICAL
    PROVE  was_department_mapped(normalize_department(raw))
<1>1. raw \notin {Absent, NotAString}
  BY DEF normalize_department
<1>2. normalize_department(raw) = DEPARTMENT_CANONICAL[Key(raw)]
  BY <1>1 DEF normalize_department
<1>3. was_department_mapped(DEPARTMENT_CANONICAL[Key(raw)])
  BY CanonicalIsMapped
<1> QED
  BY <1>2, <1>3

LEMMA DepartmentOfClaim ==
    ASSUME CallInv, NEW s \in DOMAIN attribute_sources("department")
    PROVE  /\ attribute_sources("department")[s] =
                 normalize_department(RawOf(s, "department"))
           /\ attribute_sources("department")[s] # Absent
<1>1. /\ s \in DOMAIN Extracted
      /\ attribute_sources("department")[s] = Extracted[s].department
      /\ attribute_sources("department")[s] # Missing("department")
  BY SourcesFacts
<1> QED
  BY <1>1 DEF Extracted, extract, RawOf, Missing

(* Deriving was_mapped from the canonical form takes no confidence from a  *)
(* claim of the table and gives none to a name that is not canonical, for  *)
(* every configuration, login and entry and whatever lower() and title()   *)
(* make of strings outside the table.                                      *)
THEOREM RecognizedClaimsKeepConfidence == Spec => []PenaltyIsForUnmapped
<1>1. ASSUME CallInv PROVE PenaltyIsForUnmapped
  <2> DEFINE d == details["department"]
             full == FullConfidence(d)
  <2>1. ASSUME Resolved PROVE out.details = details
    BY <1>1, <2>1 DEF CallInv, Resolved
  <2>2. SUFFICES ASSUME "department" \in DOMAIN details
                 PROVE  /\ (\E s \in d.sources : Recognized(s)) =>
                              d.confidence = Clamped(full)
                        /\ d.value \notin CanonicalNames =>
                              d.confidence = Clamped(full - 200)
    BY <2>1 DEF PenaltyIsForUnmapped
  <2>3. d.confidence = penalized("department", full, d.value)
    <3>1. CASE d.resolution = "priority"
      <4>1. PICK winner :
              /\ d.sources = {winner}
              /\ d.confidence =
                    penalized("department",
                              8 * weight_for("department", winner), d.value)
        BY <1>1, <2>2, <3>1, ScalarConfidence
      <4>2. (CHOOSE t \in d.sources : TRUE) = winner
        BY <4>1
      <4> QED
        BY <3>1, <4>1, <4>2 DEF FullConfidence
    <3>2. CASE d.resolution # "priority"
      BY <1>1, <2>2, <3>2, ScalarConfidence DEF FullConfidence
    <3> QED
      BY <3>1, <3>2
  <2>4. ASSUME NEW s \in d.sources, Recognized(s)
        PROVE  was_department_mapped(d.value)
    <3>1. /\ s \in DOMAIN attribute_sources("department")
          /\ attribute_sources("department")[s] = d.value
      BY <1>1, <2>2, <2>4, ScalarDetail
    <3>2. d.value = normalize_department(RawOf(s, "department"))
          /\ d.value # Absent
      BY <1>1, <3>1, DepartmentOfClaim
    <3> QED
      BY <3>2, <2>4, RecognizedIsMapped DEF Recognized
  <2>5. was_department_mapped(d.value) => d.value \in CanonicalNames
    BY DEF was_department_mapped, CanonicalNames
  <2> HIDE DEF d, full
  <2> QED
    BY <2>3, <2>4, <2>5 DEF penalized
<1> QED
  BY <1>1, SpecCallInv, PTL

=============================================================================
