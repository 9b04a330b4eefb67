--------------------------- MODULE MCDjangoWiring ---------------------------
(* Instances of DjangoWiring for TLC.                                      *)
EXTENDS DjangoWiring, TLC

Symmetry == Permutations(Registrars) \cup Permutations(Requests)
=============================================================================
