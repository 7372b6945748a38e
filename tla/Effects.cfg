\* Named effects, every event in any order and frame.
SPECIFICATION EffectsSpec
CONSTANTS
  LongestWait = 1
  NoName = NoName
  Nobody = Nobody
  Actor = Actor
  Names = {flash}
  Cues <- FewCues
  Places = {5}
  Offsets = {1}
  MoveTimes = {2}
  LastFrame = 2
  MaxEvents = 4
CHECK_DEADLOCK FALSE
INVARIANTS ShowsWhatWasAsked PlacedAsAsked
PROPERTIES MoveTakesOff
