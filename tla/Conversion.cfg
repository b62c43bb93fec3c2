SPECIFICATION Spec
CONSTANTS
  Normalized <- MCNormalized
  Registry <- MCRegistry
  Builds <- MCBuilds
  VendorFiles <- MCVendorFiles
  Outputs = {o1, o2}
  Temp = temp
  MaxRuns = 3
SYMMETRY MCSymmetry
INVARIANTS
  StripRecoversRaw
  ProvenanceIsTrue
PROPERTIES
  StripKeepsItsInput
CHECK_DEADLOCK FALSE
