------------------------------ MODULE MCMibStore -----------------------------
(* Model-checking instances of MibStore.                                     *)
EXTENDS MibStore, TLC

Symmetry == Permutations(Writer) \cup Permutations(Entry)
=============================================================================
