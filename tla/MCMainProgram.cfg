SPECIFICATION FairSpec
CONSTANTS
  MaxMessages = 2
  MaxSignals = 2
INVARIANTS TypeOK CallsSeeLoadedUnit AnswersMatchMessages EndsOnlyForCause
PROPERTIES CallsGetThrough ShutdownEnds 
CHECK_DEADLOCK FALSE
