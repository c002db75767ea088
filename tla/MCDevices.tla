------------------------------ MODULE MCDevices ------------------------------
(* Model-checking instances of Devices.                                      *)
EXTENDS Devices, TLC

\* One subnet for each lab, eight addresses apart.
Bases == [l \in Labs |-> 800]

Symmetry == Permutations(Handlers)
==============================================================================
