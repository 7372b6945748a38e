\* Every mode of the viewer and of the run without a window.
SPECIFICATION Spec
CONSTANTS
  LongestWait = 3
  Plans <- SomePlans
  Cap = 5
  MostOwed = 2
CHECK_DEADLOCK FALSE
INVARIANTS NoFramePassed NothingLost
PROPERTIES Quits Holds
