SPECIFICATION FairSpec
CONSTANTS
  Buttons = {start}
  Samples = 3
  AdcMax = 4095
  Divisor = 8
  DeadBand = 4
  DutyMin = 800
  DutyMax = 1000
  Readings = {0, 1500, 4096}
PROPERTIES
  ImplementsDebounce
  FilterApproaches
  WiperIsFollowed
