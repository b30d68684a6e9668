SPECIFICATION Spec
CONSTANTS
  PortCounts <- MCPortCounts
  SizeBound = 8
INVARIANT ConfiguredMeansConnected
CHECK_DEADLOCK FALSE
