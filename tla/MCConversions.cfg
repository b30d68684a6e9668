SPECIFICATION Spec
CONSTANTS
  Byte <- MCByte
  Inputs <- MCInputs
  MaxCalls = 20
INVARIANTS SenderReachesReceiver NodeNamesAgree NumbersArriveUnchanged PackKeepsTheList
CHECK_DEADLOCK FALSE
