SPECIFICATION Spec
CONSTANTS
  PortCounts <- MCPortCounts
  SizeBound = 8
INVARIANTS TypeOK DivergesOnlyAfterFailure AnswersAgreeWithRing
CHECK_DEADLOCK FALSE
