\* One entity, every kind of animation and movement.
SPECIFICATION Spec
CONSTANTS
  LongestWait = 3
  Clips <- SomeClips
  NoClip = NoClip
  Frames <- ClipFrames
  Intro <- ClipIntro
  Successor <- ClipSuccessor
  walk = walk
  wave = wave
  rise = rise
  sit = sit
  idle = idle
  actor = actor
  partner = partner
  Entities <- OneEntity
  Places = {here, there}
  Between = Between
  Durations = {2}
  MotionClips = {walk, rise}
  FollowUps <- SitOrNothing
  ActionClips = {wave, rise}
  IdleClips = {idle, walk}
  MaxClock = 4
  MaxTokens = 2
CHECK_DEADLOCK FALSE
INVARIANTS OnPath ClipsSettled DeferredIdleShown
PROPERTIES ActionOver
