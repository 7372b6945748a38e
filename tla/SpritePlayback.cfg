\* Four tracks, selected and selected again, at any rate of pictures.
SPECIFICATION Spec
CONSTANTS
  Tracks <- MCTracks
  Hold = FALSE
  Parts = 2
  Elapses = {0, 3, 4, 9}
  MaxFrame = 6
INVARIANTS PlayheadInside PlaysInTime HeldPose SelectionPlays
CHECK_DEADLOCK FALSE
