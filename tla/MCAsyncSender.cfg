SPECIFICATION FairAsyncSpec
CONSTANTS
  Data = {a, b}
  Sender = sender
  Waiters <- MCWaiters
  Thresholds <- MCThresholds
  MaxPushes = 4
  async_wait_count = 2
  async_wait_fail = 3
INVARIANTS AsyncTypeOK PathConservation FlushLatency NoHiddenBacklog
PROPERTIES EventuallySettled ImplementsDelivery
CHECK_DEADLOCK FALSE
