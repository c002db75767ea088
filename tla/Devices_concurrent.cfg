SPECIFICATION DeviceSpec
CONSTANTS
  Handlers = {h1, h2, h3}
  Kinds = {"newnet", "dropnet", "create", "start", "stop", "restart", "delete", "patch"}
  Labs = {lab}
  LabBase <- Bases
  Communities = {"public", "private"}
  Ips = {802, 803}
  InitDevices = 1
  MaxBulk = 2
  MaxRequests = 4
  MaxFaults = 1
  None = None
SYMMETRY Symmetry
CHECK_DEADLOCK FALSE
INVARIANTS
  TypeOK
  NetworksExplained
  OrphansExplained
  RunningBacked
  RunningHasNetwork
  CommunityServed
