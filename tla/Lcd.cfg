SPECIFICATION Spec
CONSTANTS
  Wrap = 8
  Stale = 1
  Horizon = 13
  Refresh = 2
  Confirm = 3
INVARIANTS
  StaleTellsTheAge
  LitIsRefreshed
PROPERTIES
  DarkTouchOnlyWakes
  RebootIsConfirmed
