---------------------------- MODULE ShippedConfig ----------------------------
(* config/normalization.yaml: the configuration the services start with.    *)
(* Weights are in hundredths.                                               *)

Weights(o, s, l) == [oidc |-> o, saml |-> s, ldap |-> l]

Entry(priority, weights, strategy) ==
    [priority |-> priority, weights |-> weights, merge_strategy |-> strategy]

Shipped ==
    [source_weights |-> Weights(80, 60, 70),
     attributes |->
        [display_name  |-> Entry(<<"oidc", "saml", "ldap">>,
                                 Weights(70, 75, 85), "union"),
         primary_email |-> Entry(<<"oidc", "saml", "ldap">>,
                                 Weights(95, 75, 65), "union"),
         department    |-> Entry(<<"ldap", "oidc", "saml">>,
                                 Weights(70, 50, 90), "union"),
         employee_type |-> Entry(<<"ldap", "saml", "oidc">>,
                                 Weights(60, 80, 95), "union"),
         groups        |-> Entry(<< >>, << >>, "union")]]
=============================================================================
