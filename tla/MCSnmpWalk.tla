----------------------------- MODULE MCSnmpWalk ------------------------------
(* Model-checking instances of SnmpWalk.                                     *)
EXTENDS SnmpWalk

\* A key of ten characters, the others of fifteen.
MCChars == [o \in 1..MaxOid |-> IF o = 1 THEN 10 ELSE 15]

MCOctets == [v \in Good \cup Mute |-> 12]
=============================================================================
