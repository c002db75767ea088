SPECIFICATION BackSpec
CONSTANTS
  Req = {r1, r2}
  Oid = {a, i}
  Numeric = {i}
  IfOid = {i}
  Col = {c, d}
  Val = {v1}
  Null = Null
  Absent = Absent
  Up = Up
  Down = Down
  Kinds = {"upsert", "bulk", "seed", "delete", "start", "link"}
  Faults = TRUE
  MaxOps = 3
SYMMETRY Symmetry
CHECK_DEADLOCK FALSE
INVARIANTS
  BackTypeOK
  RedisKeysNumeric
  DivergenceExplained
