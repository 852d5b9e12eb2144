---------------------------- MODULE MCResolution ----------------------------
(* AttributeResolution for TLC: configurations, logins and entries.         *)
EXTENDS AttributeResolution, ShippedConfig

\* No attribute entries, one default weight: the floor is used.
Bare == [source_weights |-> [ldap |-> 10], attributes |-> << >>]

\* Weights at both ends, priority lists that name one source or none.
Extreme ==
    [source_weights |-> Weights(100, 0, 100),
     attributes |->
        [display_name |-> Entry(<< >>, Weights(100, 100, 100), "union"),
         department   |-> Entry(<<"saml">>, [ldap |-> 0], "union"),
         groups       |-> Entry(<<"ldap">>, << >>, "priority")]]

Intersecting ==
    [Shipped EXCEPT !.attributes["groups"] =
        Entry(<< >>, Weights(100, 100, 100), "intersection")]

\* A weight above 1, which load_config accepts.
Unchecked == [Shipped EXCEPT !.attributes["primary_email"].weights["oidc"] = 120]

Configs == {Shipped, Bare, Extreme, Intersecting, Unchecked}

Claims(names, mails, departments, types, groups) ==
    [display_name : names, primary_email : mails, department : departments,
     employee_type : types, groups : groups]

Dn(name) == [cn |-> name]

TokenClaims ==
    Claims({NotAString, "Ann"}, {Absent, Empty, "ann@corp"},
           {Absent, Empty, " R&D", "Legal", LongSales}, {Absent, "c", "intern"},
           {{}, {"g1"}, {"g1", "g2"}, {NotAString}})

EntryClaims ==
    Claims({Absent, "Ann", "Anna"}, {"ann@corp", "Ann@Corp"},
           {Absent, "eng", "legal", "sales"}, {Absent, "contractor", "FTE"},
           {{}, {Dn("g1")}, {Dn("g2"), Dn(Absent)}})

Logins ==
    [protocol : {"oidc", "saml"}, claims : TokenClaims]
    \cup [protocol : {"ldap"}, claims : EntryClaims]

\* The directory is asked by mail, which it compares without regard to case.
Entries == {<< >>} \cup {<<e>> : e \in EntryClaims}

=============================================================================
