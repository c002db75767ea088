SPECIFICATION TopoSpec
CONSTANTS
  Handlers = {h1, h2}
  Kinds = {"link", "unlink", "restart", "stop", "delete"}
  Labs = {lab}
  LabBase <- Bases
  Communities = {"public"}
  Ips = {}
  InitDevices = 2
  MaxBulk = 1
  MaxRequests = 4
  MaxFaults = 1
  None = None
  SelfLinks = TRUE
SYMMETRY Symmetry
CHECK_DEADLOCK FALSE
INVARIANTS
  LinksHaveDevices
  StraysExplained
  LinkHasNetwork
  LinkWired
  BlockTakenExplained
