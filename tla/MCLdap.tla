------------------------------ MODULE MCLdap ------------------------------
(* LdapEnrichment for TLC: replicas, users and profiles are interchangeable. *)
EXTENDS LdapEnrichment, TLC

Symmetry ==
    Permutations(Replica) \cup Permutations(User) \cup Permutations(Profile)

=============================================================================
