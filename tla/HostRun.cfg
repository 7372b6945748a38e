\* One offline run, ended by the script or by the frame cap.
SPECIFICATION RunSpec
CONSTANTS
  LongestWait = 3
  StepLimit = 3
  FrameCaps = {0, 6}
  ContextMayFail = TRUE
  MaxStarts = 1
CHECK_DEADLOCK FALSE
INVARIANTS TimelineWhole
PROPERTIES ComesBack
