SPECIFICATION Spec
CONSTANTS
  ActionLists <- MCActionLists
  Endpoints = {e1, e2, e3}
  Buffers = {b1, b2}
  NoBuffer = nobuffer
  TooLong = toolong
  MaxNotifies = 2
  MaxSetups = 2
INVARIANT GracefulShutdown
CHECK_DEADLOCK FALSE
