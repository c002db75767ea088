----------------------------- MODULE MCAgentQuery ----------------------------
(* Model-checking instances of AgentQuery.                                   *)
EXTENDS AgentQuery

CONSTANT long   \* a good value beyond the estimate's allowance

\* A key of ten characters, the others of fifteen.
MCChars  == [o \in 1..MaxOid |-> IF o = 1 THEN 10 ELSE 15]
MCOctets == [v \in Good \cup Mute |-> IF v = long THEN 90 ELSE 12]
=============================================================================
