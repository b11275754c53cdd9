SPECIFICATION FairSpec
CONSTANTS
  DutyMin = 2
  DutyMax = 5
  StartBoost = 5
  BoostMs = 2
  RunRamp = 1
  StopRamp = 3
  Second = 2
  Period = 1
  Ramps = {0, 1, 3, 4}
INVARIANTS
  NoShootThrough
  BridgeFollowsState
  MotorInv
PROPERTIES
  StopEnds
  RampConverges
  DirectionChangesReleased
  PowerRisesOnlyRunning
  ImplementsBridge
CHECK_DEADLOCK FALSE
