------------------------------ MODULE MCOidSync ------------------------------
(* Model-checking instances of OidSync.                                      *)
EXTENDS OidSync, TLC

Symmetry == Permutations(Req) \cup Permutations(Val)
=============================================================================
