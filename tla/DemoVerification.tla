-------------------------- MODULE DemoVerification --------------------------
(***************************************************************************)
(* The demo's scenes and verify_results, over what AttributeResolution     *)
(* computes for them.  The six logins are normalized with the service's    *)
(* configuration and the directory's content; on the way the enrichment of *)
(* any login may fail.  verify_results then compares the results with the  *)
(* story the demo tells: single sources, one native LDAP login, unmapped   *)
(* values, agreement, and disagreement with split winners.                 *)
(*                                                                         *)
(* Problems are scene numbers; the messages are left out.                  *)
(***************************************************************************)
EXTENDS Integers, Sequences, FiniteSets, TLC, ShippedConfig

CONSTANTS
    Config,        \* configurations the service may have been started with
    Directory      \* contents the directory may have

VARIABLES
    config,
    directory,     \* the entries of each user: one or none
    results,       \* NormalizedAttributes of the scenes so far
    failed,        \* the scenes whose enrichment failed
    verified,      \* whether verify_results was called
    problems       \* what it returned

vars == <<config, directory, results, failed, verified, problems>>

-----------------------------------------------------------------------------
(* SCENES and bootstrap.ldif, under the names of the unified schema *)

Claims(name, mail, department, type, groups) ==
    [display_name |-> name, primary_email |-> mail, department |-> department,
     employee_type |-> type, groups |-> groups]

Dns(names) == {[cn |-> n] : n \in names}

LoginOf(user, protocol, claims) ==
    [user |-> user, protocol |-> protocol, claims |-> claims]

SCENES == <<
    LoginOf("frank", "oidc",
          Claims("Frank Castle", "frank@corp.com", "eng", "E",
                 {"engineering", "vpn-users"})),
    LoginOf("frank", "saml",
          Claims("Frank Castle", "frank@corp.com", "Engineering", "FTE",
                 {"engineering", "vpn-users"})),
    LoginOf("grace", "ldap",
          Claims("Grace Hopper", "grace@corp.com", "r&d", "C",
                 Dns({"engineering", "admins"}))),
    LoginOf("mallory", "saml",
          Claims("Mallory Quinn", "mallory@corp.com", "Sorcery", "wizard",
                 {"temp-access"})),
    LoginOf("alice", "oidc",
          Claims("Alice Smith", "alice@corp.com", "eng", "FTE",
                 {"engineering", "vpn-users", "product-admins"})),
    LoginOf("diana", "oidc",
          Claims("Di Prince", "diana@corp.com", "Marketing", "vendor",
                 {"engineering", "oncall"})) >>

\* The users of the scenes; memberOf comes from the member values of the
\* groups.
Seeded ==
    [user \in {"frank", "grace", "mallory", "alice", "diana"} |->
        CASE user = "alice" ->
                << Claims("Alice Smith", "alice@corp.com", "Engineering", "FTE",
                          Dns({"engineering", "vpn-users"})) >>
          [] user = "diana" ->
                << Claims("Diana Prince", "diana@corp.com", "Engineering",
                          "vendor", Dns({"engineering", "vpn-users"})) >>
          [] OTHER -> << >>]

-----------------------------------------------------------------------------
(* Normalization of one scene *)

Scene(c, i, found) == INSTANCE AttributeResolution WITH
    Login <- {}, Directory <- {}, config <- c, login <- SCENES[i],
    results <- found, status <- "pending", out <- << >>

\* With weights between 0 and 1 normalize returns (SoundConfigNeverRaises).
ASSUME ConfigAssumption ==
    \A c \in Config :
        /\ Scene(c, 1, << >>)!WellFormed(c)
        /\ Scene(c, 1, << >>)!WeightsInRange(c)

\* The NormalizedAttributes of scene i when enrich found these entries.
NormalizedAttributes(c, i, found, skip_reason) ==
    LET d == Scene(c, i, found)!details IN
    [details     |-> d,
     confidence  |-> Scene(c, i, found)!normalization_confidence(d),
     applied     |-> found # << >>,
     skip_reason |-> skip_reason]

Init ==
    /\ config \in Config
    /\ directory \in Directory
    /\ results = << >>
    /\ failed = {}
    /\ verified = FALSE
    /\ problems = {}

\* What the directory has for scene i; an LDAP login is not enriched.
Found(i) ==
    IF SCENES[i].protocol = "ldap" THEN << >> ELSE directory[SCENES[i].user]

\* Why a scene that did not fail has no entry.
Reason(i) ==
    IF SCENES[i].protocol = "ldap" THEN "ldap_event"
    ELSE IF Found(i) = << >> THEN "no_ldap_match"
    ELSE "none"

\* The next scene.
NormalizeScene ==
    LET i == Len(results) + 1 IN
    /\ i <= Len(SCENES)
    /\ results' = Append(results,
                         NormalizedAttributes(config, i, Found(i), Reason(i)))
    /\ UNCHANGED <<config, directory, failed, verified, problems>>

\* The same when the lookup times out, or the connection, the search or the
\* cache fails: the login is normalized from its own claims.
NormalizeSceneDegraded ==
    LET i == Len(results) + 1 IN
    /\ i <= Len(SCENES)
    /\ SCENES[i].protocol # "ldap"
    /\ results' = Append(results,
                         NormalizedAttributes(config, i, << >>, "ldap_error"))
    /\ failed' = failed \cup {i}
    /\ UNCHANGED <<config, directory, verified, problems>>

-----------------------------------------------------------------------------
(* verify_results *)

Has(na, attr) == attr \in DOMAIN na.details

\* A resolution detail's confidence, 0 when there is none.
Conf(na, attr) == IF Has(na, attr) THEN na.details[attr].confidence ELSE 0

\* Multi-source groups have 0.7 + 0.3 * fraction: 300 times the fraction.
corroborated(na) == Conf(na, "groups") - 700

SingleSource(attr, d) ==
    IF attr = "groups"
    THEN d.resolution = "list_merge" /\ Cardinality(d.sources) <= 1
    ELSE d.resolution = "single_source"

\* Scenes 1-4: no enrichment, one source for everything.
Check1(r) ==
    {i \in 1..4 :
        \/ r[i].applied
        \/ \E attr \in DOMAIN r[i].details :
              ~SingleSource(attr, r[i].details[attr])}

\* Scene 3: the native LDAP login says why it was not enriched.
Check2(r) ==
    {i \in {3} : r[i].applied \/ r[i].skip_reason # "ldap_event"}

\* Scene 4: the unmapped department is kept at a visible cost, the unknown
\* employee type is not kept.
Check3(r) ==
    {i \in {4} :
        \/ ~Has(r[i], "department")
        \/ /\ Has(r[2], "department")
           /\ Conf(r[i], "department") >= Conf(r[2], "department")
        \/ Has(r[i], "employee_type")}

\* C(4) < C(2) < C(1) < C(3).
Check4(r) ==
    {i \in {4} : r[4].confidence >= r[2].confidence}
    \cup {i \in {2} : r[2].confidence >= r[1].confidence}
    \cup {i \in {1} : r[1].confidence >= r[3].confidence}

\* Scenes 5-6: enriched, with some attribute from more than one source.
Check5(r) ==
    {i \in 5..6 :
        \/ ~r[i].applied
        \/ \A attr \in DOMAIN r[i].details :
              r[i].details[attr].resolution = "single_source"}

\* Scene 5: no conflict, at least half of the groups in both sources, more
\* confidence than the single source of scene 1.
Check6(r) ==
    {i \in {5} :
        \/ \E attr \in DOMAIN r[i].details :
              attr # "groups" /\ r[i].details[attr].resolution = "priority"
        \/ ~Has(r[i], "groups")
        \/ corroborated(r[i]) < 150
        \/ r[i].confidence <= r[1].confidence}

\* Seeded fault: any winner will do.
WonByAny(na, attr, source) ==
    Has(na, attr) /\ na.details[attr].resolution = "priority"

\* d.get("resolution") == "priority" with this winner_source.
WonBy(na, attr, source) ==
    /\ Has(na, attr)
    /\ na.details[attr].resolution = "priority"
    /\ na.details[attr].sources = {source}

\* Seeded fault: the merged groups need not be more than the token's.
AddsGroupsOrNot(na, token) ==
    Has(na, "groups") /\ token \subseteq na.details["groups"].value

\* The merged groups are a strict superset of the token's.
AddsGroups(na, token) ==
    /\ Has(na, "groups")
    /\ token \subseteq na.details["groups"].value
    /\ token # na.details["groups"].value

\* Scene 6: the token's name and the directory's department win, the
\* directory adds a group, and confidence is below scene 5's.
Check7(r) ==
    {i \in {6} :
        \/ ~WonBy(r[i], "display_name", "oidc")
        \/ ~WonBy(r[i], "department", "ldap")
        \/ ~Has(r[i], "groups")
        \/ corroborated(r[i]) < 75
        \/ ~AddsGroups(r[i], SCENES[i].claims.groups)
        \/ /\ Has(r[5], "groups")
           /\ Conf(r[i], "groups") >= Conf(r[5], "groups")
        \/ r[i].confidence >= r[5].confidence}

verify_results(r) ==
    Check1(r) \cup Check2(r) \cup Check3(r) \cup Check4(r)
        \cup Check5(r) \cup Check6(r) \cup Check7(r)

Verify ==
    /\ Len(results) = Len(SCENES)
    /\ ~verified
    /\ verified' = TRUE
    /\ problems' = verify_results(results)
    /\ UNCHANGED <<config, directory, results, failed>>

Next == NormalizeScene \/ NormalizeSceneDegraded \/ Verify

Spec == Init /\ [][Next]_vars

-----------------------------------------------------------------------------
(* Properties *)

(* With the configuration and the directory the repository ships, the run  *)
(* passes its verification exactly if scenes 5 and 6 were enriched: the    *)
(* story holds, a failed lookup of alice or diana never goes unnoticed,    *)
(* and a failed lookup of anybody else is no false alarm.                  *)
StoryHoldsIffEnriched ==
    verified /\ config = Shipped /\ directory = Seeded =>
        (problems = {} <=> failed \cap {5, 6} = {})

(* A run that passes shows merged data, whatever the configuration and the *)
(* directory: scene 6 has the department of the directory, the name of the *)
(* token, and the groups of both (checks on details vs. resolved values).  *)
PassedIsMerged ==
    verified /\ problems = {} =>
        LET found == directory["diana"]
            own   == Scene(config, 6, found)!Extracted["oidc"]
            entry == Scene(config, 6, found)!Extracted["ldap"]
            shown == results[6].details
        IN  /\ shown["department"].value = entry.department
            /\ shown["display_name"].value = own.display_name
            /\ shown["groups"].value = own.groups \cup entry.groups

(* "Catch config drift ... or a wrong config", whatever the directory      *)
(* holds: a configuration in which the token wins the department or the    *)
(* directory wins the name never passes.  Nor does one that does not unite *)
(* the groups, if the directory lacks a group of the token: where it has   *)
(* them all, taking the directory's groups shows the same as uniting.      *)
DriftIsReported ==
    LET found == directory["diana"]
        token == SCENES[6].claims.groups
    IN  /\ verified
        /\ \/ Scene(config, 6, found)!pick_winner("department", {"oidc", "ldap"})
                 # "ldap"
           \/ Scene(config, 6, found)!pick_winner("display_name", {"oidc", "ldap"})
                 # "oidc"
           \/ /\ Scene(config, 6, found)!merge_strategy_for("groups") # "union"
              /\ found # << >> =>
                    ~(token \subseteq
                        Scene(config, 6, found)!reduce_member_of(found[1].groups))
        => problems # {}
-----------------------------------------------------------------------------
(* The inductive invariant behind the theorems: each result is that of its *)
(* scene, with what the directory has unless the lookup failed, and the    *)
(* problems are those of the results.                                      *)

Outcome(i) ==
    IF i \in failed THEN NormalizedAttributes(config, i, << >>, "ldap_error")
    ELSE NormalizedAttributes(config, i, Found(i), Reason(i))

StoryInv ==
    /\ config \in Config
    /\ results \in Seq({Outcome(i) : i \in 1..Len(SCENES)})
    /\ Len(results) <= Len(SCENES)
    /\ \A i \in DOMAIN results : results[i] = Outcome(i)
    /\ failed \subseteq {i \in DOMAIN results : SCENES[i].protocol # "ldap"}
    /\ verified => /\ Len(results) = Len(SCENES)
                   /\ problems = verify_results(results)

=============================================================================
