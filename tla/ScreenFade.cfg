\* Fades and cross fades pushed in any frame, over one another and in one frame.
SPECIFICATION Spec
CONSTANTS
  LongestWait = 4
  Opaque = 12
  FadeTargets = {0, 5, 12}
  FadeTimes <- ShortTimes
  WaitTimes = {0, 1, 3}
  Word = 4
  MaxClock = 5
  MaxFades = 3
CHECK_DEADLOCK FALSE
PROPERTIES NoFlash PastKept FadeIsDone
