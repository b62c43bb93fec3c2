SPECIFICATION Spec
INVARIANTS
  WrittenIsAccepted
CHECK_DEADLOCK FALSE
