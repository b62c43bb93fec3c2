SPECIFICATION Spec
INVARIANTS
  ClockHolds
  VideosHonourRows
  PresentationIsOfFrames
  LoggedSamplesKept
  ChunksAreTrue
PROPERTIES
  ScansEnd
CHECK_DEADLOCK FALSE
