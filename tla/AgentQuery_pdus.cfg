SPECIFICATION QuerySpec
CONSTANTS
  MaxOid = 2
  long = long
  Good = {short, long}
  Bad = {bad}
  Mute = {mute}
  Respelt = {1}
  Unnamed = {}
  Chars <- MCChars
  Longest = 15
  Octets <- MCOctets
  Missing = Missing
  NoOid = NoOid
  MaxBinds = 2
  MaxRep = 2
  MaxBytes = 31
INVARIANTS
  NoOidSkipped
  UntornConsistent
  BudgetRespected
