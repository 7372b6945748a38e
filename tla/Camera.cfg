\* Moves and zooms that interrupt and time one another anew, and waits for them.
SPECIFICATION Spec
CONSTANTS
  LongestWait = 3
  Places = {here, there}
  Zooms = {near, far}
  Between = Between
  Durations = {2}
  Delays = {1}
  Recording = TRUE
  MaxClock = 3
CHECK_DEADLOCK FALSE
INVARIANTS MoveEndKnown
PROPERTIES CameraArrived RecordedWhere
