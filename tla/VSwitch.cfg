CONSTANTS
  VswitchId = {1, 2}
  Port = {0, 1}
  Tap = {"tap1"}
  Vlan = {10}
  Tag = {30}
  MaxVswitch = 2
  MaxPorts = 3
  MaxVlan = 3
  MaxGen = 1
  Site <- MCSite
  EarlyConfig = FALSE
  TapOpenFails = FALSE
SPECIFICATION Spec
INVARIANTS VswitchFound FloodIsolated NoNullVswitch
  Delivered
PROPERTY LinksKept
