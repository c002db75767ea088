SPECIFICATION BackSpec
CONSTANTS
  Req = {r1, r2}
  Oid = {i, a}
  Numeric = {i, a}
  IfOid = {i}
  Col = {c}
  Val = {v1, v2}
  Null = Null
  Absent = Absent
  Up = Up
  Down = Down
  Kinds = {"upsert"}
  Faults = FALSE
  MaxOps = 2
SYMMETRY Symmetry
CHECK_DEADLOCK FALSE
INVARIANTS
  QuietAgree
