SPECIFICATION FairSpec
CONSTANTS
  s1 = s1
  s2 = s2
  s3 = s3
  Senders <- MCSenders
  MaxSymbols = 2
  Budgets <- MCBudgets
  NoConn = NoConn
  Faults <- MCFaults
INVARIANTS TypeOK UnreachableOnlyAfterLeave AckedIsBuffered NoLostWakeup
PROPERTIES TransmitReturns ImplementsReception
CHECK_DEADLOCK FALSE
