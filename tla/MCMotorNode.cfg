SPECIFICATION Spec
CONSTANTS
  DutyMin = 1
  DutyMax = 2
  StartBoost = 2
  BoostMs = 1
  RunRamp = 1
  StopRamp = 1
  Second = 1
  Period = 1
  NoCommand = NoCommand
  MaxAge = 4
  LoopTimes <- MCLoopTimes
  Commands <- MCCommands
  Refusals <- MCRefusals
INVARIANTS
  FreshWhileRunning
  StopWinsTheCycle
  LocalModeIsClean
  NodeInv
PROPERTIES
  StartsHaveACause
  LocalModeIsTakenStopping
CHECK_DEADLOCK FALSE
