CONSTANTS
  Numbers <- MCNumbers
  Max32 = 3
  DefaultHi = 1
  Given <- MCGiven
  GivenTypes = {"string", "oid"}
  Configs <- MCConfigs
  Scripts = {"clock"}
  Yields <- MCYields
  MaxOps = 5
SPECIFICATION ValuesSpec
INVARIANTS
  ValuesTypeOK
  ReimportFaithful
  WalkReproduced
  WalkAnswered
CHECK_DEADLOCK FALSE
