---------------------------- MODULE MCMibLibrary ----------------------------
EXTENDS MibLibrary, TLC
MCStem == [f \in File |-> IF f = "BASE.mib" \/ f = "BASE.txt" THEN "BASE" ELSE "IF"]
MCNeeds == [c \in Content |-> IF c = "if" THEN {"BASE"} ELSE {}]
MCSymmetry == Permutations(Req) \cup Permutations(Oid)
=============================================================================
