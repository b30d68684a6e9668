SPECIFICATION Spec
CONSTANTS
  Data = {a}
  Waiters = {w1}
  Thresholds = {1}
  MaxPushes = 2
INVARIANT ReadyWaiterIsWoken
