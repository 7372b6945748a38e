\* Every call sequence, restarts included; creating a context may fail.
SPECIFICATION FairSpec
CONSTANTS
  LongestWait = 3
  StepLimit = 1
  FrameCaps = {0, 4}
  ContextMayFail = TRUE
  MaxStarts = 3
CHECK_DEADLOCK FALSE
INVARIANTS TypeOK WakeAhead OneClock KeyframesOrdered LossReported
PROPERTIES ResumedOnTime EndIsFinal Terminates ImplementsClock
