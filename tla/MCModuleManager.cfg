SPECIFICATION FairSpec
CONSTANTS
  Threads = {t1, t2}
  Modules = {brazil, trabea}
  AsyncModules = {brazil}
  MaxObjects = 3
  Calls <- AllCalls
INVARIANTS TypeOK UnitInUseIsLive AsyncThreadAccounted
PROPERTY CallsReturn
CHECK_DEADLOCK FALSE
