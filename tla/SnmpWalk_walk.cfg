SPECIFICATION FairWalk
CONSTANTS
  MaxOid = 3
  Good = {g}
  Bad = {bad}
  Mute = {mute}
  Respelt = {2}
  Unnamed = {2}
  Chars <- MCChars
  Longest = 15
  Octets <- MCOctets
  Missing = Missing
  NoOid = NoOid
  MaxBinds = 1
  MaxRep = 2
  MaxBytes = 60
  MaxTries = 2
  MaxReloads = 2
INVARIANTS
  WalkComplete
  UndisturbedExact
PROPERTIES
  WalkAdvances
  WalkEnds
CHECK_DEADLOCK FALSE
