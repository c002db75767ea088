SPECIFICATION FairSpec
CONSTANTS
  Req = {r1, r2}
  Oid = {i}
  Numeric = {i}
  IfOid = {i}
  Col = {c}
  Val = {v1}
  Null = Null
  Absent = Absent
  Up = Up
  Down = Down
  Kinds = {"upsert", "bulk", "seed", "delete", "start", "link"}
  Faults = TRUE
  MaxOps = 3
CHECK_DEADLOCK FALSE
INVARIANTS
  ServesCommitted
PROPERTIES
  AgentSpec
  SettlesOnCommitted
