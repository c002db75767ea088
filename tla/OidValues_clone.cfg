CONSTANTS
  Numbers <- MCNumbers
  Max32 = 3
  DefaultHi = 1
  Given <- MCGiven
  GivenTypes = {"string", "oid"}
  Configs <- MCConfigs
  Scripts = {"clock"}
  Yields <- MCYields
  MaxOps = 4
SPECIFICATION ValuesSpec
INVARIANT CloneServesOrigin
CHECK_DEADLOCK FALSE
