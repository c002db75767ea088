CONSTANTS
  Req = {r1, r2}
  File = {"BASE.mib", "BASE.txt", "IF.mib"}
  Name = {"BASE", "IF"}
  Stem <- MCStem
  Content = {"base", "base2", "if", "bad", "types"}
  Good = {"base", "base2", "if", "types"}
  Defining = {"base", "base2", "if"}
  Needs <- MCNeeds
  Dev = {d1}
  Oid = {o1, o2}
  None = None
  MaxRequests = 4
  MaxFaults = 1
SYMMETRY MCSymmetry
SPECIFICATION LibSpec
INVARIANTS
  LibTypeOK
  NamesUnique
  CopiesAgree
  StillCompiles
  StrippedExplained
CHECK_DEADLOCK FALSE
