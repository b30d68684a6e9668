SPECIFICATION FairSpec
CONSTANTS
  ActionLists <- MCActionLists
  Endpoints = {e1, e2, e3}
  Buffers = {b1, b2}
  NoBuffer = nobuffer
  TooLong = toolong
  MaxNotifies = 2
  MaxSetups = 2
INVARIANTS TypeOK ReadyOnReturn NoLostWakeup
PROPERTY NotifyReturns
CHECK_DEADLOCK FALSE
