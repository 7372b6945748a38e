\* Blocking and asynchronous messages, banners, and closing them in any order.
SPECIFICATION Spec
CONSTANTS
  LongestWait = 2
  Lengths = {1, 2}
  MaxClock = 4
  MaxTexts = 3
CHECK_DEADLOCK FALSE
INVARIANTS TextsInTime ReadAndOver
PROPERTIES OverStaysOver
