SPECIFICATION Spec
CONSTANTS
  Probers = {p1, p2}
  Configs = {c1, c2}
  InUse = c1
  Live = live_interface
  Orphan = orphan
  Absent = absent
  MaxAsked = 2
  MaxEvents = 2
  MaxChecks = 2
  Nodes = {o1, v1}
  Outline = {o1}
  Answering = o1
  Limit = 1
  MaxPort = 4
  None = none
  Tunnel = tunnel_sidecar
  MaxFaults = 1
  Tags = {"a", "b", "proxy", "direct"}
  MaxOutbounds = 3
  MaxItems = 4
INVARIANTS
  NothingLeft
  OwnConfig
  NoTwin
  Isolated
  AllStopped
  XrayTextExact
PROPERTIES
  ChecksEnd
CHECK_DEADLOCK FALSE
