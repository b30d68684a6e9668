SPECIFICATION Spec
CONSTANTS
  Size = 7
  MaxItems = 2
INVARIANTS OneOwner ReadsLiveMemory
CHECK_DEADLOCK FALSE
