SPECIFICATION FairSpec
CONSTANTS
  Clients = {wq, web}
  Configs = {dhcp, static}
  Default = dhcp
  BadMode = bad
  ShellConfigs = {}
  OlderKeys = {static, "absent", "corrupt"}
  ReadMayFail = FALSE
INVARIANTS
  SavedIsNextBoot
PROPERTIES
  SaveEnds
  CallersReturn
CHECK_DEADLOCK FALSE
