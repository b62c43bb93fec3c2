SPECIFICATION MCSpec
CONSTANTS
  Recordings <- AllRecordings
  VendorLists <- AllVendorLists
  TimerResets <- MCTimerResets
  ConfirmWindow = 2
  HeldZero = 1
  MaxCounter = 9
  Spacing = 3
  SnapWindow = 2
  StintGap = 3
  PlausibleLap = 4
  PhysicalMinimums = {0, 5}
  PitStop = 3
  Length = 4
  Top = 2
  VendorLaps = 3
INVARIANT
  FastestFlies
CHECK_DEADLOCK FALSE
