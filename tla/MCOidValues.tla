----------------------------- MODULE MCOidValues -----------------------------
EXTENDS OidValues
MCNumbers == {1, 5}
MCGiven == {Empty, T("word", 0)}
MCConfigs == {[lo |-> 1, hi |-> 0, type |-> "counter"]}
MCYields == [s \in {"clock"} |->
  {Failed, Py("int", Num(1)), Py("str", T("word", 0))}]
==============================================================================
