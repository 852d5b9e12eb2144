------------------------------ MODULE MCScenes ------------------------------
(* DemoVerification for TLC: drifted configurations and directories.        *)
EXTENDS DemoVerification

Drift(attr, entry) == [Shipped EXCEPT !.attributes[attr] = entry]

\* The shipped configuration, other priorities and strategies, no
\* priorities, and weights that make the sources equal.
Configs ==
    {Shipped,
     Drift("department", Entry(<<"oidc", "ldap">>, Weights(70, 50, 90), "union")),
     Drift("department", Entry(<< >>, Weights(70, 50, 90), "union")),
     Drift("department", Entry(<< >>, Weights(90, 90, 90), "union")),
     Drift("display_name", Entry(<<"ldap", "oidc">>, Weights(70, 75, 85), "union")),
     Drift("display_name", Entry(<< >>, Weights(70, 75, 85), "union")),
     Drift("groups", Entry(<< >>, << >>, "intersection")),
     Drift("groups", Entry(<<"oidc">>, << >>, "priority")),
     Drift("groups", Entry(<< >>, << >>, "priority"))}

\* What may have become of an entry.
Edits(entry) ==
    {<< >>, <<entry>>,
     <<[entry EXCEPT !.groups = {}]>>,
     <<[entry EXCEPT !.groups = Dns({"security"})]>>,
     <<[entry EXCEPT !.groups = Dns({"engineering", "vpn-users", "oncall"})]>>,
     <<[entry EXCEPT !.department = "Marketing"]>>,
     <<[entry EXCEPT !.department = "Sorcery"]>>,
     <<[entry EXCEPT !.display_name = "Di Prince"]>>}

Directories ==
    {[Seeded EXCEPT !["alice"] = a, !["diana"] = d] :
        a \in Edits(Seeded["alice"][1]), d \in Edits(Seeded["diana"][1])}
    \cup {[Seeded EXCEPT !["frank"] = Seeded["alice"]]}
=============================================================================
