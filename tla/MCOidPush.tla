------------------------------ MODULE MCOidPush ------------------------------
(* Model-checking instances of OidPush: requests and row contents are        *)
(* interchangeable, no definition tells them apart.                          *)
EXTENDS OidPush, TLC

Symmetry == Permutations(Req) \cup Permutations(Val)
=============================================================================
