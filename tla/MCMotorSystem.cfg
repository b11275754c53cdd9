SPECIFICATION FairSystemSpec
CONSTANTS
  DutyMin = 1
  DutyMax = 2
  StartBoost = 2
  BoostMs = 1
  RunRamp = 1
  StopRamp = 1
  Second = 1
  Period = 1
  NoCommand = NoCommand
  MaxAge = 4
  Refresh = 2
  Lateness = 1
  LoopTimes <- MCLoopTimes
  Commands <- MCCommands
  Refusals <- MCRefusals
  Pressed <- MCPressed
  Storable <- MCStorable
  Asked <- MCAsked
  Readings <- MCReadings
  AtBoot <- MCAtBoot
INVARIANTS
  StoredCommandIsObeyed
PROPERTIES
  ExpiryHasACause
  LostRefreshStops
  BrakingEnds
CHECK_DEADLOCK FALSE
