------------------------- MODULE AttributeResolution -------------------------
(***************************************************************************)
(* What NormalizationService.normalize computes for one login: the claims  *)
(* of its protocol and, if the enrichment found an entry, the attributes   *)
(* of the directory are extracted to the unified schema (adapters,         *)
(* normalization_values), gathered per attribute and source (service), and *)
(* resolved to one value with a confidence (resolution).                   *)
(*                                                                         *)
(* A weight is in hundredths, the confidence of an attribute in            *)
(* thousandths, normalization_confidence in hundred-thousandths: with the  *)
(* group counts of the instances every quotient is exact.  A claim is a    *)
(* token; Key gives the stripped lower-case form and Title the stripped    *)
(* title-case form of a department.                                        *)
(***************************************************************************)
EXTENDS Integers, Sequences, FiniteSets

CONSTANTS
    Config,           \* normalization.yaml files the service is started with
    Login,            \* [protocol, claims] of the logins considered
    Directory         \* what a search may return: entries, at most one

\* A configuration file gives numbers for weights, lists of strings for
\* priorities, and one of three strategies (AttributeConfig, Defaults).
WellFormed(c) ==
    /\ \A s \in DOMAIN c.source_weights : c.source_weights[s] \in Int
    /\ \A a \in DOMAIN c.attributes :
          LET entry == c.attributes[a] IN
          /\ entry.priority \in Seq(STRING)
          /\ \A s \in DOMAIN entry.weights : entry.weights[s] \in Int
          /\ entry.merge_strategy \in {"union", "intersection", "priority"}

ASSUME ConfigAssumption == \A c \in Config : WellFormed(c)

Source == {"oidc", "saml", "ldap"}

\* The protocols that have an adapter, and lists of groups.
ASSUME LoginAssumption ==
    \A l \in Login :
        /\ l.protocol \in Source
        /\ IsFiniteSet(l.claims.groups)

ASSUME DirectoryAssumption ==
    \A r \in Directory : r # << >> => IsFiniteSet(r[1].groups)

VARIABLES
    config,           \* NormalizationService._config
    login,            \* the record being normalized
    results,          \* the entries enrich found
    status,           \* of the call of normalize
    out               \* the NormalizedAttributes it returned

vars == <<config, login, results, status, out>>

Absent == "(absent)"          \* None, or a missing key
NotAString == "(not a string)"
Empty == ""                   \* a claim that is present and empty

Scalar == {"display_name", "primary_email", "department", "employee_type"}
Attribute == Scalar \cup {"groups"}

-----------------------------------------------------------------------------
(* normalization_values.                                                   *)

DEPARTMENT_CANONICAL ==
    LET engineering == {"eng", "engineering", "software engineering", "r&d",
                        "product development"}
        finance     == {"fin", "finance", "accounting"}
        people      == {"hr", "human resources", "people ops"}
        technology  == {"it", "information technology", "infra"}
        sales       == {"sales", "revenue"}
        marketing   == {"mktg", "marketing"}
    IN  [k \in engineering \cup finance \cup people \cup technology
                 \cup sales \cup marketing |->
            CASE k \in engineering -> "Engineering"
              [] k \in finance     -> "Finance"
              [] k \in people      -> "Human Resources"
              [] k \in technology  -> "Information Technology"
              [] k \in sales       -> "Sales"
              [] k \in marketing   -> "Marketing"]

EMPLOYEE_TYPE_CANONICAL ==
    LET fte        == {"fte", "e", "employee", "full-time", "full time",
                       "regular"}
        contractor == {"contractor", "c", "contract", "contingent", "temp"}
        vendor     == {"vendor", "v", "external", "partner", "third-party"}
    IN  [k \in fte \cup contractor \cup vendor |->
            CASE k \in fte        -> "FTE"
              [] k \in contractor -> "contractor"
              [] k \in vendor     -> "vendor"]

\* "sales" written with a long s (U+017F), which lower() keeps and title()
\* turns into S, as it does with other letters whose capital is plain.
LongSales == "(long s)ales"

\* The claims that are stripped and in lower case already.
LowerCase ==
    DOMAIN DEPARTMENT_CANONICAL \cup DOMAIN EMPLOYEE_TYPE_CANONICAL
        \cup {Empty, "legal", "sorcery", "intern", "wizard", LongSales}

\* str.strip().lower(), on the claims that occur.  What it makes of any other
\* string is left open, and so is Title.
Key(s) ==
    CASE s = "Engineering"            -> "engineering"
      [] s = "Finance"                -> "finance"
      [] s = "Human Resources"        -> "human resources"
      [] s = "Information Technology" -> "information technology"
      [] s = "Sales"                  -> "sales"
      [] s = "Marketing"              -> "marketing"
      [] s = "Legal"                  -> "legal"
      [] s = "Sorcery"                -> "sorcery"
      [] s = " R&D"                   -> "r&d"
      [] s = "FTE"                    -> "fte"
      [] s = "E"                      -> "e"
      [] s = "C"                      -> "c"
      [] s \in LowerCase              -> s

\* str.strip().title(), on the departments that are not in the table.
Title(s) ==
    CASE Key(s) = "legal"   -> "Legal"
      [] Key(s) = "sorcery" -> "Sorcery"
      [] Key(s) = LongSales -> "Sales"
      [] Key(s) = Empty     -> Empty

\* An unknown department is kept, in title case.
normalize_department(s) ==
    IF s \in {Absent, NotAString} THEN Absent
    ELSE IF Key(s) \in DOMAIN DEPARTMENT_CANONICAL
         THEN DEPARTMENT_CANONICAL[Key(s)]
         ELSE Title(s)

\* An unknown employee type is dropped.
normalize_employee_type(s) ==
    IF s \notin {Absent, NotAString}
       /\ Key(s) \in DOMAIN EMPLOYEE_TYPE_CANONICAL
    THEN EMPLOYEE_TYPE_CANONICAL[Key(s)]
    ELSE Absent

coerce_str(s) == IF s = NotAString THEN Absent ELSE s

\* Seeded fault: the lower-case key is not taken again.
was_department_mapped_exact(v) ==
    v \in DOMAIN DEPARTMENT_CANONICAL /\ DEPARTMENT_CANONICAL[v] = v

\* Whether the department was in the table, derived from the canonical form.
was_department_mapped(v) ==
    Key(v) \in DOMAIN DEPARTMENT_CANONICAL
    /\ DEPARTMENT_CANONICAL[Key(v)] = v

-----------------------------------------------------------------------------
(* Adapters: claims, under the names of the unified schema, to unified     *)
(* attributes.  A memberOf value is [cn |-> name]; a DN without a cn has   *)
(* the name Absent and is dropped.                                         *)

reduce_member_of(dns) == {dn.cn : dn \in dns} \ {Absent}

\* apply_field_rules with the rule table of the adapter; groups that are not
\* a list are none, and elements that are not strings are dropped.
extract(protocol, claims) ==
    [display_name  |-> coerce_str(claims.display_name),
     primary_email |-> coerce_str(claims.primary_email),
     department    |-> normalize_department(claims.department),
     employee_type |-> normalize_employee_type(claims.employee_type),
     groups        |-> IF protocol = "ldap"
                       THEN reduce_member_of(claims.groups)
                       ELSE claims.groups \ {NotAString}]

\* The attributes of each source that contributes: the login's own protocol
\* and, after a match, the directory.
Extracted ==
    [s \in {login.protocol} \cup (IF results = << >> THEN {} ELSE {"ldap"}) |->
        IF s = login.protocol
        THEN extract(s, login.claims)
        ELSE extract("ldap", results[1])]

Missing(attr) == IF attr = "groups" THEN {} ELSE Absent

\* Seeded fault: the directory's value replaces the map of the attribute.
attribute_sources_replaced(attr) ==
    LET present == {s \in DOMAIN Extracted :
                       Extracted[s][attr] # Missing(attr)}
    IN  [s \in IF "ldap" \in present THEN {"ldap"} ELSE present |->
            Extracted[s][attr]]

\* _build_attribute_sources and _merge_ldap_attrs: the sources that have a
\* value for the attribute.
attribute_sources(attr) ==
    LET present == {s \in DOMAIN Extracted :
                       Extracted[s][attr] # Missing(attr)}
    IN  [s \in present |-> Extracted[s][attr]]

-----------------------------------------------------------------------------
(* NormalizationConfig.  A missing block is a function or a sequence       *)
(* without elements.                                                       *)

Floor == 50

weight_for(attr, source) ==
    IF attr \in DOMAIN config.attributes
       /\ source \in DOMAIN config.attributes[attr].weights
    THEN config.attributes[attr].weights[source]
    ELSE IF source \in DOMAIN config.source_weights
         THEN config.source_weights[source]
         ELSE Floor

priority_for(attr) ==
    IF attr \in DOMAIN config.attributes
    THEN config.attributes[attr].priority
    ELSE << >>

merge_strategy_for(attr) ==
    IF attr \in DOMAIN config.attributes
    THEN config.attributes[attr].merge_strategy
    ELSE "union"

-----------------------------------------------------------------------------
(* resolution.                                                             *)

\* Seeded fault: the least of the weights.
least_weight(attr, sources) ==
    CHOOSE w \in {weight_for(attr, s) : s \in sources} :
        \A s \in sources : w <= weight_for(attr, s)

max_weight(attr, sources) ==
    CHOOSE w \in {weight_for(attr, s) : s \in sources} :
        \A s \in sources : w >= weight_for(attr, s)

\* The source of a conflict that wins by weight; among equals the first that
\* was gathered, which is the login's own protocol.
heaviest(attr, sources) ==
    LET best == {s \in sources :
                    weight_for(attr, s) = max_weight(attr, sources)}
    IN  IF login.protocol \in best THEN login.protocol
        ELSE CHOOSE s \in best : TRUE

\* First of the priority list that has a value, else the heaviest.
pick_winner(attr, sources) ==
    LET listed == {i \in DOMAIN priority_for(attr) :
                      priority_for(attr)[i] \in sources}
    IN  IF listed = {}
        THEN heaviest(attr, sources)
        ELSE priority_for(attr)[CHOOSE i \in listed : \A j \in listed : i <= j]

\* _apply_unmapped_penalty.
Clamped(conf) == IF conf < 0 THEN 0 ELSE IF conf > 1000 THEN 1000 ELSE conf

\* Seeded fault: no penalty.
penalized_never(attr, conf, value) == Clamped(conf)

penalized(attr, conf, value) ==
    IF attr # "department" THEN conf
    ELSE Clamped(IF was_department_mapped(value) THEN conf ELSE conf - 200)

\* Seeded fault: the winner is listed among the losers.
conflicting_values_all(map, winner) == map

conflicting_values(map, winner) ==
    [s \in DOMAIN map \ {winner} |-> map[s]]

\* _resolve_scalar and _resolve_department, for a non-empty map.
resolve_scalar(attr, map) ==
    LET sources == DOMAIN map
        values  == {map[s] : s \in sources}
        winner  == pick_winner(attr, sources)
    IN  IF Cardinality(values) = 1
        THEN LET v == CHOOSE v \in values : TRUE IN
             [resolution |-> IF Cardinality(sources) = 1 THEN "single_source"
                             ELSE "unanimous",
              value      |-> v,
              confidence |-> penalized(attr, 10 * max_weight(attr, sources), v),
              sources    |-> sources,
              losers     |-> << >>]
        ELSE [resolution |-> "priority",
              value      |-> map[winner],
              confidence |-> penalized(attr, 8 * weight_for(attr, winner),
                                       map[winner]),
              sources    |-> {winner},
              losers     |-> conflicting_values(map, winner)]

apply_merge_strategy(map) ==
    CASE merge_strategy_for("groups") = "union" ->
            UNION {map[s] : s \in DOMAIN map}
      [] merge_strategy_for("groups") = "intersection" ->
            {g \in UNION {map[s] : s \in DOMAIN map} :
                \A s \in DOMAIN map : g \in map[s]}
      [] merge_strategy_for("groups") = "priority" ->
            LET listed == {i \in DOMAIN priority_for("groups") :
                              priority_for("groups")[i] \in DOMAIN map}
            IN  IF listed # {}
                THEN map[priority_for("groups")
                             [CHOOSE i \in listed : \A j \in listed : i <= j]]
                ELSE map[IF "ldap" \in DOMAIN map THEN "ldap"
                         ELSE CHOOSE s \in DOMAIN map : TRUE]

\* Seeded fault: a shared group is counted once for each of its sources.
shared_groups_per_source(map, merged) ==
    Cardinality({p \in merged \X DOMAIN map :
        /\ p[1] \in map[p[2]]
        /\ \E t \in DOMAIN map \ {p[2]} : p[1] \in map[t]})

\* Merged groups that more than one source has.
shared_groups(map, merged) ==
    Cardinality({g \in merged :
        Cardinality({s \in DOMAIN map : g \in map[s]}) > 1})

\* _resolve_groups, for a non-empty map.
resolve_groups(map) ==
    LET merged == apply_merge_strategy(map)
        source == CHOOSE s \in DOMAIN map : TRUE
    IN  IF Cardinality(DOMAIN map) = 1
        THEN [resolution |-> "list_merge", value |-> map[source],
              confidence |-> 10 * weight_for("groups", source),
              sources |-> {source}, losers |-> << >>]
        ELSE [resolution |-> "list_merge", value |-> merged,
              confidence |->
                  700 + (IF merged = {} THEN 0
                         ELSE (300 * shared_groups(map, merged))
                                 \div Cardinality(merged)),
              sources |-> DOMAIN map, losers |-> << >>]

ATTRIBUTE_IMPORTANCE ==
    [display_name |-> 15, primary_email |-> 25, department |-> 20,
     employee_type |-> 25, groups |-> 15]

\* resolution_details: an entry for each attribute some source has.
details ==
    [attr \in {a \in Attribute : DOMAIN attribute_sources(a) # {}} |->
        IF attr = "groups"
        THEN resolve_groups(attribute_sources(attr))
        ELSE resolve_scalar(attr, attribute_sources(attr))]

Contribution(d, attr) ==
    IF attr \in DOMAIN d
    THEN ATTRIBUTE_IMPORTANCE[attr] * d[attr].confidence
    ELSE 0

normalization_confidence(d) ==
    LET sum == Contribution(d, "display_name")
                 + Contribution(d, "primary_email")
                 + Contribution(d, "department")
                 + Contribution(d, "employee_type")
                 + Contribution(d, "groups")
    IN  IF sum > 100000 THEN 100000 ELSE IF sum < 0 THEN 0 ELSE sum

\* ResolutionDetailBase refuses a confidence outside 0..1.
Valid(d) == \A attr \in DOMAIN d : d[attr].confidence \in 0..1000

-----------------------------------------------------------------------------

\* The service asks the directory about a login that is not an LDAP login
\* and has a correlation value that is not empty.
Asks(l) ==
    /\ l.protocol # "ldap"
    /\ coerce_str(l.claims.primary_email) \notin {Absent, Empty}

Init ==
    /\ config \in Config
    /\ login \in Login
    /\ results \in (IF Asks(login) THEN Directory ELSE {<< >>})
    /\ status = "pending"
    /\ out = [details |-> << >>, confidence |-> 0]

\* normalize, once enrich has returned.
Normalize ==
    /\ status = "pending"
    /\ Valid(details)
    /\ status' = "returned"
    /\ out' = [details |-> details,
               confidence |-> normalization_confidence(details)]
    /\ UNCHANGED <<config, login, results>>

\* The construction of a detail raises a ValidationError.
NormalizeRaises ==
    /\ status = "pending"
    /\ ~Valid(details)
    /\ status' = "raised"
    /\ UNCHANGED <<config, login, results, out>>

Next == Normalize \/ NormalizeRaises

Spec == Init /\ [][Next]_vars

-----------------------------------------------------------------------------
(* Properties.                                                             *)

Resolved == status = "returned"

\* Every weight of the configuration is between 0 and 1.
WeightsInRange(c) ==
    /\ \A s \in DOMAIN c.source_weights : c.source_weights[s] \in 0..100
    /\ \A a \in DOMAIN c.attributes : \A s \in DOMAIN c.attributes[a].weights :
          c.attributes[a].weights[s] \in 0..100

(* With weights between 0 and 1, normalize returns: no combination of      *)
(* sources, penalties and merged groups gives a confidence that            *)
(* ResolutionDetailBase refuses.                                           *)
SoundConfigNeverRaises == WeightsInRange(config) => status # "raised"

(* What the docstring of NormalizationService.normalize says: it never     *)
(* raises, with any configuration the service starts with.                 *)
NeverRaises == status # "raised"

\* What a login claims about an attribute, before any normalization.
RawOf(s, attr) ==
    IF s = login.protocol THEN login.claims[attr] ELSE results[1][attr]

\* The adapter finds the claim in DEPARTMENT_CANONICAL.
Recognized(s) == Key(RawOf(s, "department")) \in DOMAIN DEPARTMENT_CANONICAL

CanonicalNames == {DEPARTMENT_CANONICAL[k] : k \in DOMAIN DEPARTMENT_CANONICAL}

\* The confidence of a department before the penalty.
FullConfidence(d) ==
    IF d.resolution = "priority"
    THEN 8 * weight_for("department", CHOOSE s \in d.sources : TRUE)
    ELSE 10 * max_weight("department", d.sources)

(* The service derives from the canonical form whether the claim was in    *)
(* the table (_was_department_mapped), and this never hurts a claim that   *)
(* was: a department that some winning source gave under a name of the     *)
(* table keeps its full confidence, and one that is no canonical name      *)
(* costs 0.2 (_apply_unmapped_penalty).  In between are claims that are    *)
(* not in the table and whose title case is a canonical name, such as      *)
(* LongSales: they go without the penalty.                                 *)
PenaltyIsForUnmapped ==
    Resolved /\ "department" \in DOMAIN out.details =>
        LET d == out.details["department"] IN
        /\ (\E s \in d.sources : Recognized(s)) =>
              d.confidence = Clamped(FullConfidence(d))
        /\ d.value \notin CanonicalNames =>
              d.confidence = Clamped(FullConfidence(d) - 200)

(* A disagreement never gives more confidence than the same sources would  *)
(* have given had they agreed on the winner's value (_resolve_scalar,      *)
(* _resolve_department), whatever the priority list and the weights are.   *)
ConflictNotMoreConfident ==
    Resolved => \A attr \in DOMAIN out.details :
        LET d == out.details[attr]
            sources == d.sources \cup DOMAIN d.losers
        IN  d.resolution = "priority" =>
               d.confidence <=
                  resolve_scalar(attr, [s \in sources |-> d.value]).confidence

(* resolution_details explains the result: the sources and the losers are  *)
(* all the sources that have the attribute, each winner has the resolved   *)
(* value and each loser another one.                                       *)
DetailsExplainValue ==
    Resolved => \A attr \in DOMAIN out.details :
        LET d == out.details[attr] IN
        /\ d.sources \cup DOMAIN d.losers = DOMAIN attribute_sources(attr)
        /\ attr \in Scalar =>
              /\ \A s \in d.sources : attribute_sources(attr)[s] = d.value
              /\ \A s \in DOMAIN d.losers : d.losers[s] # d.value

(* A directory entry takes no attribute away: what the login itself        *)
(* supplies is still there after enrichment, and under the union strategy  *)
(* so is each of its groups (_merge_ldap_attrs, _apply_merge_strategy).    *)
EnrichmentTakesNothing ==
    Resolved => \A attr \in Attribute :
        LET own == Extracted[login.protocol][attr] IN
        own # Missing(attr) =>
            /\ attr \in DOMAIN out.details
            /\ attr \in Scalar => out.details[attr].value # Absent
            /\ attr = "groups" /\ merge_strategy_for("groups") = "union"
                  => own \subseteq out.details[attr].value

-----------------------------------------------------------------------------
(* The inductive invariant behind the theorems: the call reads one login,  *)
(* one configuration and one answer of the directory, and what it returned *)
(* is what they determine.                                                 *)

CallInv ==
    /\ config \in Config
    /\ login \in Login
    /\ results \in (IF Asks(login) THEN Directory ELSE {<< >>})
    /\ status \in {"pending", "returned", "raised"}
    /\ status = "returned" => Valid(details) /\ out.details = details
    /\ status = "raised" => ~Valid(details)

=============================================================================
