------------------------------ MODULE MCTopology -----------------------------
(* Model-checking instances of Topology.                                     *)
EXTENDS Topology, TLC

\* Lab subnets lie outside the blocks of the first hundred links.
Bases == [l \in Labs |-> 800]

Symmetry == Permutations(Handlers)
==============================================================================
