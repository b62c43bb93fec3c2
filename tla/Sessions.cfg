CONSTANTS
  NoReading = NoReading
  Week = 20
  Earliest = 10
  Latest = 60
  Drift = 1
  Day = 24
  MinStint = 2
  MaxGap = 1
  ShortestLap = 2
  Begins = {20, 22, 24}
  Lengths = {2, 4}
  Stale = 1
  Longest = 4
  MaxFiles = 3
  Recordings <- MCRecordings
SPECIFICATION Spec
INVARIANTS
  GroupedOnce
  NoLapBridgesAGap
  PiecesCovered
  ColdStartIgnored
CHECK_DEADLOCK FALSE
