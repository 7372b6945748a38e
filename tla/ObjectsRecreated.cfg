\* A character that was deleted is created over again.
SPECIFICATION Spec
CONSTANTS
  LongestWait = 2
  NoName = ""
  Sprites <- MCSprites
  Casts <- MCCasts
  Opaque = 2
  Alphas = {2}
  Times = {0, 2}
  Places = {4}
  Durations = {2}
  MaxClock = 4
  MaxCalls = 5
INVARIANTS CreatedIsVisible
CHECK_DEADLOCK FALSE
