SPECIFICATION AllSpec
CONSTANTS
  Cases <- SpeedCases
  Second = 1
  MaxProbes = 8
  Circuit = 2
  Implausible = 5
  Recordings <- LapRecordings
  MinDrop = 5
  Latency = 2
  Confirm = 5
  Milli = 1000
  Traces <- GpsTraces
  Entry = 90
  Exit = 10
  MinPeriod = 1
  MaxGap = 1
  Apart = 10
  Stay = 3
  Reach = 6
  Approach = 3
  Return = 12
  Separate = 7
  Inputs <- PassInputs
  Pole = 90
  MinFix = 2
  MinSatellites = 4
  Sentinel = 4000
  NoDop = 99
  MaxSpeed = 5
  ReanchorAfter = 2
  SpeedGap = 2
INVARIANTS
  ReversingAddsNothing
CHECK_DEADLOCK FALSE
