\* Two entities: whose motion is whose, and waits for one or all of them.
SPECIFICATION Spec
CONSTANTS
  LongestWait = 3
  Clips <- SomeClips
  NoClip = NoClip
  Frames <- ClipFrames
  Intro <- ClipIntro
  Successor <- ClipSuccessor
  walk = walk
  wave = wave
  rise = rise
  sit = sit
  idle = idle
  actor = actor
  partner = partner
  Entities <- TwoEntities
  Places = {here}
  Between = Between
  Durations = {1, 2}
  MotionClips = {walk}
  FollowUps <- Nothing
  ActionClips = {}
  IdleClips = {}
  MaxClock = 3
  MaxTokens = 2
CHECK_DEADLOCK FALSE
INVARIANTS MotionOwnership
PROPERTIES MovesOver
