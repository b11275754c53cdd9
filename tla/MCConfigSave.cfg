SPECIFICATION Spec
CONSTANTS
  Clients = {wq, web}
  Configs = {dhcp, static}
  Default = dhcp
  BadMode = bad
  ShellConfigs = {static}
  OlderKeys = {static, "absent", "corrupt"}
  ReadMayFail = TRUE
SYMMETRY CallerSymmetry
INVARIANTS
  PendingIsServed
CHECK_DEADLOCK FALSE
