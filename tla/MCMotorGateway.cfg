SPECIFICATION Spec
CONSTANTS
  Outside <- MCOutside
  Requests <- MCRequests
  ShellCommands = {"remote", "run", "duty", "local", "reset", "pause"}
  SendMayFail = TRUE
  Controls <- MCControls
  Setpoints <- MCSetpoints
  ValidSetpoints <- MCValidSetpoints
  LeastSetpoint = "least"
  Stopped = "stopped"
  Enabled = "enabled"
  Acknowledge = "acknowledge"
INVARIANTS
  RefreshedCommandIsHeld
  OnlyValidSetpointsLeave
  RefreshIsArmed
PROPERTIES
  RefreshNeverRevokesLocal
CHECK_DEADLOCK FALSE
