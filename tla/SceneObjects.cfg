\* Objects with several names, created over again, faded, moved and deleted.
SPECIFICATION Spec
CONSTANTS
  LongestWait = 2
  NoName = ""
  Sprites <- MCSprites
  Casts <- MCCasts
  Opaque = 2
  Alphas = {2}
  Times = {0, 2}
  Places = {4, 6}
  Durations = {2}
  MaxClock = 4
  MaxCalls = 5
INVARIANTS OneEntityPerId OpacityAsAsked StandsWhereSent
CHECK_DEADLOCK FALSE
