------------------------------- MODULE Camera -------------------------------
(***************************************************************************)
(* The scene camera (registry_camera.cpp, advance_camera() in registry.cpp): *)
(* one tween that carries a position move and a zoom with the same start and *)
(* end frame, the end frame DrCameraMoveWait goes by, and the recording of   *)
(* the camera in keyframes.                                                  *)
(*                                                                         *)
(* Positions and zooms are values the script named, or Between two of them.  *)
(***************************************************************************)
EXTENDS ScriptClock

CONSTANTS
  Places, Zooms,   \* positions and zooms the script asks for
  Between,         \* on the way
  Durations,       \* frames a tween takes
  Delays,          \* frames before it starts
  Recording,       \* RuntimeSession::_record_keyframes
  MaxClock         \* bound: frames

ASSUME CameraAssumption ==
  /\ Places # {} /\ Zooms # {}
  /\ Between \notin Places \cup Zooms
  /\ Durations \subseteq Nat \ {0} /\ Delays \subseteq Nat
  /\ \A d \in Durations, l \in Delays : d + l <= LongestWait
  /\ Recording \in BOOLEAN
  /\ MaxClock \in Nat

VARIABLES
  camera,      \* SceneState::camera
  moveEnd,     \* Registry::_camera_move_end
  dirty,       \* Registry::_dirty
  recorded,    \* the camera of the last keyframe
  awaiting,    \* TRUE while DrCameraMoveWait parks the script
  retimed      \* history: a zoom was started while the camera was on the move

vars == <<clockVars, camera, moveEnd, dirty, recorded, awaiting, retimed>>

Still == [pos |-> CHOOSE p \in Places : TRUE, zoom |-> CHOOSE z \in Zooms : TRUE,
          moving |-> FALSE, zooming |-> FALSE, start |-> 0, end |-> 0,
          fromPos |-> CHOOSE p \in Places : TRUE, toPos |-> CHOOSE p \in Places : TRUE,
          fromZoom |-> CHOOSE z \in Zooms : TRUE, toZoom |-> CHOOSE z \in Zooms : TRUE]

\* What the tween of camera c shows in frame f.
At(c, from, to, f) == IF f <= c.start THEN from
                      ELSE IF f >= c.end THEN to
                      ELSE IF from = to THEN to ELSE Between

Over(c, f) == f > c.start /\ f >= c.end

\* advance_camera() in frame f, and whether it marks the scene dirty.
Advanced(c, f) ==
  [c EXCEPT
     !.pos     = IF c.moving THEN At(c, c.fromPos, c.toPos, f) ELSE @,
     !.moving  = @ /\ ~Over(c, f),
     !.zoom    = IF c.zooming THEN At(c, c.fromZoom, c.toZoom, f) ELSE @,
     !.zooming = @ /\ ~Over(c, f)]

\* Mutant: the last frame does not mark the scene.
MarksOnTheWay(c, f) == (c.moving \/ c.zooming) /\ f > c.start /\ f < c.end

Marks(c, f) == (c.moving \/ c.zooming) /\ f > c.start

\* The burst ends with camera c: its keyframe is flushed, after an advance() of its own.
\* The first one of a scene is recorded unconditionally.
FlushKeyframe(c, changed) ==
  IF Recording
    THEN /\ camera' = Advanced(c, clock)
         /\ recorded' = IF changed \/ Marks(c, clock) \/ clock = 0 THEN camera' ELSE recorded
         /\ dirty' = FALSE
    ELSE /\ camera' = c
         /\ dirty' = changed
         /\ UNCHANGED recorded

-----------------------------------------------------------------------------
Init ==
  /\ ClockInit
  /\ camera = Still
  /\ moveEnd = 0
  /\ dirty = FALSE
  /\ recorded = Still
  /\ awaiting = FALSE /\ retimed = FALSE

Native == phase = "run" /\ UNCHANGED <<clockVars, recorded, awaiting>>

\* Mutant: the delay is not waited for.
MoveCameraAtOnce(to, d, delay) ==
  /\ Native
  /\ camera' = [camera EXCEPT !.moving = TRUE, !.start = clock + delay,
                              !.end = clock + delay + d,
                              !.fromPos = camera.pos, !.toPos = to]
  /\ moveEnd' = clock + d
  /\ dirty' = TRUE
  /\ retimed' = FALSE

\* DrSetCameraPosV with a duration.
MoveCamera(to, d, delay) ==
  /\ Native
  /\ camera' = [camera EXCEPT !.moving = TRUE, !.start = clock + delay,
                              !.end = clock + delay + d,
                              !.fromPos = camera.pos, !.toPos = to]
  /\ moveEnd' = clock + delay + d
  /\ dirty' = TRUE
  /\ retimed' = FALSE

\* DrSetCameraPosV without one, SetCameraPosV, SetCameraTargetPosV*.
PlaceCamera(to) ==
  /\ Native
  /\ camera' = [camera EXCEPT !.pos = to, !.moving = FALSE, !.zooming = FALSE]
  /\ moveEnd' = clock
  /\ dirty' = TRUE
  /\ retimed' = FALSE

\* DrSetCameraZoom with a duration: the tween is timed anew, whatever it was doing.
ZoomCamera(z, d, delay) ==
  /\ Native
  /\ camera' = [camera EXCEPT !.zooming = TRUE, !.start = clock + delay,
                              !.end = clock + delay + d,
                              !.fromZoom = camera.zoom, !.toZoom = z]
  /\ dirty' = TRUE
  /\ retimed' = (retimed \/ camera.moving)
  /\ UNCHANGED moveEnd

SetZoom(z) ==
  /\ Native
  /\ camera' = [camera EXCEPT !.zoom = z, !.zooming = FALSE]
  /\ dirty' = TRUE
  /\ UNCHANGED <<moveEnd, retimed>>

\* SetDemoCameraPosY moves the camera under a running tween.
DemoPosY(to) ==
  /\ Native
  /\ camera' = [camera EXCEPT !.pos = to]
  /\ dirty' = TRUE
  /\ UNCHANGED <<moveEnd, retimed>>

DrCameraStop ==
  /\ Native
  /\ camera' = [camera EXCEPT !.moving = FALSE, !.zooming = FALSE]
  /\ moveEnd' = clock
  /\ retimed' = FALSE
  /\ UNCHANGED dirty

\* ClearCamera, DrSetCameraParam, DrTebureCamera, ...: nothing the tween depends on.
OtherNative == Native /\ dirty' = TRUE /\ UNCHANGED <<camera, moveEnd, retimed>>

\* FollowCamera, FollowCameraBySpeed and DrFollowCamera, which stops the tween: the camera
\* is put where the entity is, and the script parked for `n` frames if it asks for it.
FollowCamera(to, stop, n) ==
  LET c == [camera EXCEPT !.pos = to, !.moving = @ /\ ~stop, !.zooming = @ /\ ~stop]
  IN  /\ IF n > 0 THEN Sleep(n) /\ FlushKeyframe(c, TRUE) /\ awaiting' = FALSE
                  ELSE Native /\ camera' = c /\ dirty' = TRUE
      /\ UNCHANGED <<moveEnd, retimed>>

\* Mutant: a frame short.
DrCameraMoveAlmost ==
  /\ moveEnd > clock + 1
  /\ Sleep(moveEnd - clock - 1)
  /\ awaiting' = TRUE
  /\ FlushKeyframe(camera, dirty)
  /\ UNCHANGED <<moveEnd, retimed>>

\* DrCameraMoveWait goes by the end of the last move.
DrCameraMoveWait ==
  /\ moveEnd > clock
  /\ Sleep(moveEnd - clock)
  /\ awaiting' = TRUE
  /\ FlushKeyframe(camera, dirty)
  /\ UNCHANGED <<moveEnd, retimed>>

OtherWait ==
  /\ \E n \in 1..LongestWait : Sleep(n)
  /\ awaiting' = FALSE
  /\ FlushKeyframe(camera, dirty)
  /\ UNCHANGED <<moveEnd, retimed>>

Frame ==
  /\ clock < MaxClock
  /\ Tick
  /\ camera' = Advanced(camera, clock')
  /\ dirty' = (dirty \/ Marks(camera, clock'))
  /\ UNCHANGED <<moveEnd, recorded, awaiting, retimed>>

Start ==
  /\ Begin
  /\ camera' = Still
  /\ moveEnd' = 0
  /\ dirty' = FALSE
  /\ recorded' = Still
  /\ awaiting' = FALSE /\ retimed' = FALSE

End ==
  \/ Return /\ FlushKeyframe(camera, dirty) /\ UNCHANGED <<moveEnd, awaiting, retimed>>
  \/ Halt /\ UNCHANGED <<camera, moveEnd, dirty, recorded, awaiting, retimed>>

Next ==
  \/ \E to \in Places, d \in Durations, delay \in Delays : MoveCamera(to, d, delay)
  \/ \E z \in Zooms, d \in Durations, delay \in Delays : ZoomCamera(z, d, delay)
  \/ \E to \in Places : PlaceCamera(to) \/ DemoPosY(to)
  \/ \E to \in Places, stop \in BOOLEAN, n \in 0..LongestWait : FollowCamera(to, stop, n)
  \/ \E z \in Zooms : SetZoom(z)
  \/ DrCameraStop \/ OtherNative
  \/ DrCameraMoveWait \/ OtherWait
  \/ Frame \/ Start \/ End

Spec == Init /\ [][Next]_vars
-----------------------------------------------------------------------------
\* Positions and zooms are values somebody set, or on the way between two.
TypeOK ==
  /\ clock \in Nat /\ alarm \in Nat /\ phase \in Phases /\ moveEnd \in Nat
  /\ {camera.pos, camera.fromPos, camera.toPos} \subseteq Places \cup {Between}
  /\ {camera.zoom, camera.fromZoom, camera.toZoom} \subseteq Zooms \cup {Between}
  /\ camera.start \in Nat /\ camera.end \in Nat
  /\ {camera.moving, camera.zooming, dirty, awaiting, retimed} \subseteq BOOLEAN

\* No tween outlives its end frame, whatever timed it anew.
TweenEnds == camera.moving \/ camera.zooming => clock < camera.end

\* DrCameraMoveWait is not forgotten: a move that runs, and was not timed anew by a zoom,
\* ends in the frame the wait goes by (registry_camera.cpp:62, 154).
MoveEndKnown == camera.moving /\ ~retimed => moveEnd = camera.end

\* A script that waited for the camera finds it at rest, and where it was sent if it arrives
\* in that frame.  The one exception is a move that a zoom timed anew while it was on
\* (registry_camera.cpp:83, which leaves _camera_move_end alone): the script may then
\* find the camera still on the move, its end ahead of the clock.
Wakes == phase = "sleep" /\ phase' = "run" /\ clock' # 0
CameraArrived ==
  [][Wakes /\ awaiting =>
       /\ camera'.moving => retimed /\ clock' < camera'.end
       /\ camera.moving /\ ~camera'.moving => camera'.pos = camera.toPos]_vars

\* Every keyframe decision keeps the recording true: when a burst is over, the last
\* keyframe shows the camera where it is (flush_keyframe(), registry.cpp:776-786).
Flushed == Recording /\ phase = "run" /\ phase' \in {"sleep", "over"}
RecordedWhere ==
  [][Flushed => recorded'.pos = camera'.pos /\ recorded'.zoom = camera'.zoom]_vars

=============================================================================
