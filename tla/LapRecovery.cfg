SPECIFICATION Spec
CONSTANTS
  Recordings <- MCRecordings
  ConfirmWindow = 2
  HeldZero = 1
  MaxCounter = 3
  Long = 5
  Short = 3
  LongTop = 2
  ShortTop = 3
  Gaps = {2, 3}
INVARIANTS
  TypeOK
  LapsTile
  CoversRecording
  FlyingIsTimed
  KindsMatchBoundaries
PROPERTIES
  PitExitNeedsEvidence
  OnlyFoldRewrites
  ImplementsContract
CHECK_DEADLOCK FALSE
