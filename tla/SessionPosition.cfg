CONSTANTS
  NoReading = NoReading
  Week = 20
  Earliest = 10
  Latest = 60
  Drift = 1
  Day = 24
  MinStint = 2
  MaxGap = 1
  ShortestLap = 2
  Begins = {20, 22, 24}
  Lengths = {2, 4}
  Stale = 1
  Longest = 4
  MaxFiles = 2
  Recordings <- MCRecordings
SPECIFICATION Spec
INVARIANT RecordedTimeIsFound
CHECK_DEADLOCK FALSE
