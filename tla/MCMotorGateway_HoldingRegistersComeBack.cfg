SPECIFICATION FairSpec
CONSTANTS
  Outside <- MCOutside
  Requests <- WebOnly
  ShellCommands = {}
  SendMayFail = FALSE
  Controls <- MCControls
  Setpoints <- MCSetpoints
  ValidSetpoints <- MCValidSetpoints
  LeastSetpoint = "least"
  Stopped = "stopped"
  Enabled = "enabled"
  Acknowledge = "acknowledge"
PROPERTIES
  HoldingRegistersComeBack
CHECK_DEADLOCK FALSE
