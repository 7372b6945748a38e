---------------------------- MODULE Camera_proofs ----------------------------
(***************************************************************************)
(* The camera's tween, the wait that goes by it and the recording of it, for  *)
(* all positions, zooms, durations and delays.  The inductive invariant adds   *)
(* that a tween in progress has its end after its start, and ahead; that a    *)
(* script parked by DrCameraMoveWait has the end of the move for its alarm;   *)
(* and that a clean scene (~dirty) is the recorded one, with a tween that      *)
(* still waits for its start showing where it starts from.                   *)
(***************************************************************************)
EXTENDS Camera, TLAPS

USE CameraAssumption, LongestWaitAssumption

Views == Places \cup {Between}
Scales == Zooms \cup {Between}

CameraRecord ==
  [pos : Views, zoom : Scales, moving : BOOLEAN, zooming : BOOLEAN, start : Nat, end : Nat,
   fromPos : Views, toPos : Views, fromZoom : Scales, toZoom : Scales]

Types ==
  /\ clock \in Nat /\ alarm \in Nat /\ phase \in Phases /\ moveEnd \in Nat
  /\ camera \in CameraRecord
  /\ dirty \in BOOLEAN /\ awaiting \in BOOLEAN /\ retimed \in BOOLEAN

Timed == camera.moving \/ camera.zooming => camera.start < camera.end

Waiting ==
  phase = "sleep" => clock < alarm /\ (awaiting => alarm = moveEnd)

SameView(c, d) == c.pos = d.pos /\ c.zoom = d.zoom

\* A tween that has not begun shows what it starts from.
AtItsStart(c, f) ==
  c.start >= f => (c.moving => c.pos = c.fromPos) /\ (c.zooming => c.zoom = c.fromZoom)

CleanIsRecorded ==
  Recording /\ ~dirty /\ (phase = "sleep" \/ (phase = "run" /\ clock # 0))
    => SameView(recorded, camera) /\ AtItsStart(camera, clock)

IInv == Types /\ Timed /\ TweenEnds /\ MoveEndKnown /\ Waiting /\ CleanIsRecorded

-----------------------------------------------------------------------------
(* advance_camera() *)

LEMMA AdvancedFields ==
  ASSUME NEW c \in CameraRecord, NEW f \in Nat
  PROVE  /\ Advanced(c, f) \in CameraRecord
         /\ Advanced(c, f).pos = IF c.moving THEN At(c, c.fromPos, c.toPos, f) ELSE c.pos
         /\ Advanced(c, f).zoom = IF c.zooming THEN At(c, c.fromZoom, c.toZoom, f) ELSE c.zoom
         /\ (Advanced(c, f).moving <=> c.moving /\ ~Over(c, f))
         /\ (Advanced(c, f).zooming <=> c.zooming /\ ~Over(c, f))
         /\ Advanced(c, f).start = c.start /\ Advanced(c, f).end = c.end
         /\ Advanced(c, f).fromPos = c.fromPos /\ Advanced(c, f).toPos = c.toPos
         /\ Advanced(c, f).fromZoom = c.fromZoom /\ Advanced(c, f).toZoom = c.toZoom
<1>1. At(c, c.fromPos, c.toPos, f) \in Views /\ At(c, c.fromZoom, c.toZoom, f) \in Scales
  BY DEF At, CameraRecord, Views, Scales
<1>2. (c.moving /\ ~Over(c, f)) \in BOOLEAN /\ (c.zooming /\ ~Over(c, f)) \in BOOLEAN
  OBVIOUS
<1> QED
  BY <1>1, <1>2 DEF Advanced, CameraRecord

\* The end of a burst.  `c` is the camera the burst leaves, `changed` what its natives marked.
LEMMA FlushKeeps ==
  ASSUME clock \in Nat, NEW c \in CameraRecord, NEW changed \in BOOLEAN,
         c.moving \/ c.zooming => c.start < c.end /\ clock < c.end,
         Recording /\ ~changed /\ clock # 0 => SameView(recorded, c) /\ AtItsStart(c, clock),
         FlushKeyframe(c, changed), clock' = clock
  PROVE  /\ camera' \in CameraRecord /\ dirty' \in BOOLEAN /\ Timed' /\ TweenEnds'
         /\ (camera'.moving => c.moving) /\ camera'.end = c.end
         /\ Recording => ~dirty' /\ SameView(recorded', camera') /\ AtItsStart(camera', clock')
<1>1. CASE ~Recording
  BY <1>1 DEF FlushKeyframe, Timed, TweenEnds
<1>2. CASE Recording
  <2> DEFINE d == Advanced(c, clock)
  <2>1. camera' = d /\ dirty' = FALSE
        /\ recorded' = IF changed \/ Marks(c, clock) \/ clock = 0 THEN d ELSE recorded
    BY <1>2 DEF FlushKeyframe
  <2>2. /\ d \in CameraRecord
        /\ d.pos = IF c.moving THEN At(c, c.fromPos, c.toPos, clock) ELSE c.pos
        /\ d.zoom = IF c.zooming THEN At(c, c.fromZoom, c.toZoom, clock) ELSE c.zoom
        /\ (d.moving => c.moving) /\ (d.zooming => c.zooming)
        /\ d.start = c.start /\ d.end = c.end
        /\ d.fromPos = c.fromPos /\ d.fromZoom = c.fromZoom
    BY AdvancedFields
  <2> HIDE DEF d
  <2>3. c.start \in Nat
    BY DEF CameraRecord
  <2>4. AtItsStart(d, clock)
    BY <2>2, <2>3 DEF AtItsStart, At
  <2>5. AtItsStart(camera', clock')
    BY <2>1, <2>4 DEF AtItsStart
  <2>6. SameView(recorded', camera')
    <3>1. CASE changed \/ Marks(c, clock) \/ clock = 0
      BY <2>1, <3>1 DEF SameView
    <3>2. CASE ~changed /\ ~Marks(c, clock) /\ clock # 0
      <4>1. SameView(recorded, c) /\ AtItsStart(c, clock)
        BY <1>2, <3>2
      <4>2. c.moving \/ c.zooming => c.start >= clock
        BY <2>3, <3>2 DEF Marks
      <4>3. SameView(c, d)
        BY <2>2, <2>3, <4>1, <4>2 DEF SameView, AtItsStart, At
      <4> QED
        BY <2>1, <3>2, <4>1, <4>3 DEF SameView
    <3> QED
      BY <3>1, <3>2
  <2> QED
    BY <1>2, <2>1, <2>2, <2>5, <2>6 DEF Timed, TweenEnds
<1> QED
  BY <1>1, <1>2

-----------------------------------------------------------------------------
LEMMA InitInv == Init => IInv
<1> SUFFICES ASSUME Init PROVE IInv
  OBVIOUS
<1>1. Still \in CameraRecord /\ ~Still.moving /\ ~Still.zooming
  BY DEF Still, CameraRecord, Views, Scales
<1>2. camera = Still /\ clock = 0 /\ alarm = 0 /\ phase = "unborn" /\ moveEnd = 0
      /\ dirty = FALSE /\ awaiting = FALSE /\ retimed = FALSE
  BY DEF Init, ClockInit
<1> QED
  BY <1>1, <1>2 DEF IInv, Types, Timed, TweenEnds, MoveEndKnown, Waiting, CleanIsRecorded, Phases

\* A native that does not end the burst, from the camera it leaves.
LEMMA NativeKeeps ==
  ASSUME IInv, Native, camera' \in CameraRecord, dirty' = TRUE, moveEnd' \in Nat, retimed' \in BOOLEAN,
         camera'.moving \/ camera'.zooming => camera'.start < camera'.end /\ clock < camera'.end,
         camera'.moving /\ ~retimed' => moveEnd' = camera'.end
  PROVE  IInv'
BY DEF IInv, Native, clockVars, Types, Timed, TweenEnds, MoveEndKnown, Waiting, CleanIsRecorded

\* A native that parks the script, from the camera `c` it leaves.
LEMMA ParkingKeeps ==
  ASSUME IInv, NEW n \in Nat \ {0}, Sleep(n), NEW c \in CameraRecord, NEW changed \in BOOLEAN,
         c.moving => camera.moving, c.zooming => camera.zooming,
         c.start = camera.start, c.end = camera.end,
         ~changed => c = camera /\ ~dirty,
         FlushKeyframe(c, changed), awaiting' \in BOOLEAN, awaiting' => clock + n = moveEnd,
         moveEnd' = moveEnd, retimed' = retimed
  PROVE  IInv'
<1>1. clock' = clock /\ phase = "run" /\ phase' = "sleep" /\ alarm' = clock + n /\ clock \in Nat
  BY DEF Sleep, IInv, Types
<1>2. c.moving \/ c.zooming => c.start < c.end /\ clock < c.end
  BY DEF IInv, Timed, TweenEnds
<1>3. Recording /\ ~changed /\ clock # 0 => SameView(recorded, c) /\ AtItsStart(c, clock)
  BY <1>1 DEF IInv, CleanIsRecorded
<1>4. /\ camera' \in CameraRecord /\ dirty' \in BOOLEAN /\ Timed' /\ TweenEnds'
      /\ (camera'.moving => c.moving) /\ camera'.end = c.end
      /\ Recording => ~dirty' /\ SameView(recorded', camera') /\ AtItsStart(camera', clock')
  BY <1>1, <1>2, <1>3, FlushKeeps
<1>5. MoveEndKnown'
  BY <1>4 DEF IInv, MoveEndKnown
<1>6. Waiting' /\ Types'
  BY <1>1, <1>4 DEF IInv, Types, Waiting, Phases
<1>7. CleanIsRecorded'
  BY <1>4 DEF CleanIsRecorded, AtItsStart
<1> QED
  BY <1>4, <1>5, <1>6, <1>7 DEF IInv

LEMMA NextInv == IInv /\ [Next]_vars => IInv'
<1> SUFFICES ASSUME IInv, [Next]_vars PROVE IInv'
  OBVIOUS
<1>0. /\ clock \in Nat /\ alarm \in Nat /\ phase \in Phases /\ moveEnd \in Nat
      /\ camera \in CameraRecord
      /\ dirty \in BOOLEAN /\ awaiting \in BOOLEAN /\ retimed \in BOOLEAN
      /\ (camera.moving \/ camera.zooming => camera.start < camera.end /\ clock < camera.end)
      /\ (camera.moving /\ ~retimed => moveEnd = camera.end)
  BY DEF IInv, Types, Timed, TweenEnds, MoveEndKnown
<1>1. ASSUME NEW to \in Places, NEW d \in Durations, NEW delay \in Delays, MoveCamera(to, d, delay)
      PROVE  IInv'
  <2>1. /\ d \in Nat \ {0} /\ delay \in Nat /\ to \in Views
        /\ clock + delay \in Nat /\ clock + delay + d \in Nat
    BY <1>0 DEF Views
  <2>2. /\ camera' \in CameraRecord /\ camera'.start = clock + delay /\ camera'.end = clock + delay + d
        /\ moveEnd' = clock + delay + d
    BY <1>0, <1>1, <2>1 DEF MoveCamera, CameraRecord
  <2>3. camera'.start < camera'.end /\ clock < camera'.end
    BY <1>0, <2>1, <2>2
  <2>4. Native /\ dirty' = TRUE /\ retimed' = FALSE
    BY <1>1 DEF MoveCamera
  <2> QED
    BY <2>1, <2>2, <2>3, <2>4, NativeKeeps
<1>2. ASSUME NEW z \in Zooms, NEW d \in Durations, NEW delay \in Delays, ZoomCamera(z, d, delay)
      PROVE  IInv'
  <2>1. /\ d \in Nat \ {0} /\ delay \in Nat /\ z \in Scales
        /\ clock + delay \in Nat /\ clock + delay + d \in Nat
    BY <1>0 DEF Scales
  <2>2. /\ camera' \in CameraRecord /\ camera'.start = clock + delay /\ camera'.end = clock + delay + d
        /\ camera'.moving = camera.moving
    BY <1>0, <1>2, <2>1 DEF ZoomCamera, CameraRecord
  <2>3. camera.moving \in BOOLEAN
    BY <1>0 DEF CameraRecord
  <2> QED
    BY <1>0, <1>2, <2>1, <2>2, <2>3, NativeKeeps DEF ZoomCamera
<1>3. ASSUME NEW to \in Places, PlaceCamera(to) PROVE IInv'
  <2>1. camera' \in CameraRecord /\ ~camera'.moving /\ ~camera'.zooming
    BY <1>0, <1>3 DEF PlaceCamera, CameraRecord, Views
  <2> QED
    BY <1>0, <1>3, <2>1, NativeKeeps DEF PlaceCamera, Native, clockVars
<1>4. ASSUME NEW to \in Places, DemoPosY(to) PROVE IInv'
  <2>1. /\ camera' \in CameraRecord /\ camera'.moving = camera.moving /\ camera'.zooming = camera.zooming
        /\ camera'.start = camera.start /\ camera'.end = camera.end
    BY <1>0, <1>4 DEF DemoPosY, CameraRecord, Views
  <2> QED
    BY <1>0, <1>4, <2>1, NativeKeeps DEF DemoPosY
<1>5. ASSUME NEW to \in Places, NEW stop \in BOOLEAN, NEW n \in 0..LongestWait, FollowCamera(to, stop, n)
      PROVE  IInv'
  <2> DEFINE c == [camera EXCEPT !.pos = to, !.moving = @ /\ ~stop, !.zooming = @ /\ ~stop]
  <2>1. /\ c \in CameraRecord /\ (c.moving => camera.moving) /\ (c.zooming => camera.zooming)
        /\ c.start = camera.start /\ c.end = camera.end
    BY <1>0 DEF CameraRecord, Views
  <2>2. IF n > 0 THEN Sleep(n) /\ FlushKeyframe(c, TRUE) /\ awaiting' = FALSE
                 ELSE Native /\ camera' = c /\ dirty' = TRUE
    BY <1>5 DEF FollowCamera
  <2>3. moveEnd' = moveEnd /\ retimed' = retimed
    BY <1>5 DEF FollowCamera
  <2> HIDE DEF c
  <2>4. CASE n > 0
    <3>1. n \in Nat \ {0}
      BY <2>4
    <3> QED
      BY <2>1, <2>2, <2>3, <2>4, <3>1, ParkingKeeps
  <2>5. CASE ~(n > 0)
    BY <1>0, <2>1, <2>2, <2>3, <2>5, NativeKeeps
  <2> QED
    BY <2>4, <2>5
<1>6. ASSUME NEW z \in Zooms, SetZoom(z) PROVE IInv'
  <2>1. /\ camera' \in CameraRecord /\ camera'.moving = camera.moving /\ ~camera'.zooming
        /\ camera'.start = camera.start /\ camera'.end = camera.end
    BY <1>0, <1>6 DEF SetZoom, CameraRecord, Scales
  <2> QED
    BY <1>0, <1>6, <2>1, NativeKeeps DEF SetZoom
<1>7. CASE DrCameraStop
  <2>1. /\ camera' \in CameraRecord /\ ~camera'.moving /\ ~camera'.zooming
        /\ camera'.pos = camera.pos /\ camera'.zoom = camera.zoom
    BY <1>0, <1>7 DEF DrCameraStop, CameraRecord
  <2>2. /\ clock' = clock /\ alarm' = alarm /\ phase' = "run" /\ phase = "run" /\ moveEnd' = clock
        /\ dirty' = dirty /\ recorded' = recorded /\ awaiting' = awaiting /\ retimed' = FALSE
    BY <1>7 DEF DrCameraStop, Native, clockVars
  <2>3. CleanIsRecorded'
    BY <2>1, <2>2 DEF IInv, CleanIsRecorded, SameView, AtItsStart
  <2> QED
    BY <1>0, <2>1, <2>2, <2>3 DEF IInv, Types, Timed, TweenEnds, MoveEndKnown, Waiting
<1>8. CASE OtherNative
  BY <1>0, <1>8, NativeKeeps DEF OtherNative
<1>9. CASE DrCameraMoveWait
  <2>1. moveEnd - clock \in Nat \ {0} /\ clock + (moveEnd - clock) = moveEnd
    BY <1>0, <1>9 DEF DrCameraMoveWait
  <2> QED
    BY <1>0, <1>9, <2>1, ParkingKeeps DEF DrCameraMoveWait
<1>10. CASE OtherWait
  <2>1. PICK n \in 1..LongestWait : Sleep(n)
    BY <1>10 DEF OtherWait
  <2>2. n \in Nat \ {0}
    OBVIOUS
  <2> QED
    BY <1>0, <1>10, <2>1, <2>2, ParkingKeeps DEF OtherWait
<1>11. CASE Frame
  <2>1. /\ clock' = clock + 1 /\ phase = "sleep" /\ alarm' = alarm
        /\ phase' = (IF clock + 1 >= alarm THEN "run" ELSE "sleep")
        /\ camera' = Advanced(camera, clock + 1) /\ dirty' = (dirty \/ Marks(camera, clock + 1))
        /\ moveEnd' = moveEnd /\ recorded' = recorded /\ awaiting' = awaiting /\ retimed' = retimed
    BY <1>11 DEF Frame, Tick
  <2>2. clock + 1 \in Nat /\ camera.start \in Nat /\ camera.end \in Nat
    BY <1>0 DEF CameraRecord
  <2>3. /\ camera' \in CameraRecord
        /\ camera'.pos = IF camera.moving THEN At(camera, camera.fromPos, camera.toPos, clock + 1) ELSE camera.pos
        /\ camera'.zoom = IF camera.zooming THEN At(camera, camera.fromZoom, camera.toZoom, clock + 1) ELSE camera.zoom
        /\ (camera'.moving <=> camera.moving /\ ~Over(camera, clock + 1))
        /\ (camera'.zooming <=> camera.zooming /\ ~Over(camera, clock + 1))
        /\ camera'.start = camera.start /\ camera'.end = camera.end
        /\ camera'.fromPos = camera.fromPos /\ camera'.fromZoom = camera.fromZoom
    <3> DEFINE d == Advanced(camera, clock + 1)
    <3>1. /\ d \in CameraRecord
          /\ d.pos = IF camera.moving THEN At(camera, camera.fromPos, camera.toPos, clock + 1) ELSE camera.pos
          /\ d.zoom = IF camera.zooming THEN At(camera, camera.fromZoom, camera.toZoom, clock + 1) ELSE camera.zoom
          /\ (d.moving <=> camera.moving /\ ~Over(camera, clock + 1))
          /\ (d.zooming <=> camera.zooming /\ ~Over(camera, clock + 1))
          /\ d.start = camera.start /\ d.end = camera.end
          /\ d.fromPos = camera.fromPos /\ d.fromZoom = camera.fromZoom
      BY <1>0, <2>2, AdvancedFields
    <3>2. camera' = d
      BY <2>1
    <3> HIDE DEF d
    <3> QED
      BY <3>1, <3>2
  <2>4. Timed' /\ TweenEnds' /\ MoveEndKnown'
    BY <1>0, <2>1, <2>2, <2>3 DEF Timed, TweenEnds, MoveEndKnown, Over
  <2>5. Waiting'
    BY <1>0, <2>1 DEF IInv, Waiting
  <2>6. dirty' \in BOOLEAN /\ phase' \in Phases
    BY <1>0, <2>1 DEF Phases
  <2>7. CleanIsRecorded'
    <3> SUFFICES ASSUME Recording, ~dirty' PROVE SameView(recorded', camera') /\ AtItsStart(camera', clock')
      BY DEF CleanIsRecorded
    <3>0. ~dirty /\ ~Marks(camera, clock + 1)
      BY <1>0, <2>1
    <3>1. SameView(recorded, camera) /\ AtItsStart(camera, clock)
      <4>1. CleanIsRecorded
        BY DEF IInv
      <4>2. phase = "sleep"
        BY <2>1
      <4> QED
        BY <3>0, <4>1, <4>2 DEF CleanIsRecorded
    <3>2. camera.moving \/ camera.zooming => camera.start >= clock + 1
      BY <1>0, <2>2, <3>0 DEF Marks
    <3>3. SameView(camera, camera')
      BY <1>0, <2>2, <2>3, <3>1, <3>2 DEF SameView, AtItsStart, At
    <3>4. AtItsStart(camera', clock')
      BY <2>1, <2>2, <2>3, <3>2 DEF AtItsStart, At
    <3> QED
      BY <2>1, <3>1, <3>3, <3>4 DEF SameView
  <2> QED
    BY <1>0, <2>1, <2>2, <2>3, <2>4, <2>5, <2>6, <2>7 DEF IInv, Types
<1>12. CASE Start
  <2>1. Still \in CameraRecord /\ ~Still.moving /\ ~Still.zooming
    BY DEF Still, CameraRecord, Views, Scales
  <2>2. camera' = Still /\ clock' = 0 /\ alarm' = 0 /\ phase' = "run" /\ moveEnd' = 0
        /\ dirty' = FALSE /\ awaiting' = FALSE /\ retimed' = FALSE
    BY <1>12 DEF Start, Begin
  <2> QED
    BY <2>1, <2>2 DEF IInv, Types, Timed, TweenEnds, MoveEndKnown, Waiting, CleanIsRecorded, Phases
<1>13. CASE Return /\ FlushKeyframe(camera, dirty) /\ UNCHANGED <<moveEnd, awaiting, retimed>>
  <2>1. clock' = clock /\ alarm' = alarm /\ phase = "run" /\ phase' = "over"
    BY <1>13 DEF Return
  <2>2. Recording /\ ~dirty /\ clock # 0 => SameView(recorded, camera) /\ AtItsStart(camera, clock)
    BY <2>1 DEF IInv, CleanIsRecorded
  <2>3. /\ camera' \in CameraRecord /\ dirty' \in BOOLEAN /\ Timed' /\ TweenEnds'
        /\ (camera'.moving => camera.moving) /\ camera'.end = camera.end
    BY <1>0, <1>13, <2>1, <2>2, FlushKeeps
  <2> QED
    BY <1>0, <1>13, <2>1, <2>3 DEF IInv, Types, MoveEndKnown, Waiting, CleanIsRecorded, Phases
<1>14. CASE Halt /\ UNCHANGED <<camera, moveEnd, dirty, recorded, awaiting, retimed>>
  BY <1>0, <1>14 DEF Halt, IInv, Types, Timed, TweenEnds, MoveEndKnown, Waiting, CleanIsRecorded, Phases
<1>15. CASE UNCHANGED vars
  BY <1>15 DEF vars, clockVars, IInv, Types, Timed, TweenEnds, MoveEndKnown, Waiting, CleanIsRecorded,
     AtItsStart
<1> QED
  BY <1>1, <1>2, <1>3, <1>4, <1>5, <1>6, <1>7, <1>8, <1>9, <1>10, <1>11, <1>12, <1>13, <1>14, <1>15
     DEF Next, End

THEOREM Invariance == Spec => []IInv
<1>1. Init => IInv
  BY InitInv
<1>2. IInv /\ [Next]_vars => IInv'
  BY NextInv
<1> QED
  BY <1>1, <1>2, PTL DEF Spec

\* The camera is always where somebody put it, or on the way between two such places.
THEOREM TypeCorrect == Spec => []TypeOK
<1>1. IInv => TypeOK
  BY DEF IInv, Types, CameraRecord, Views, Scales, TypeOK
<1> QED
  BY <1>1, Invariance, PTL

-----------------------------------------------------------------------------
\* The end DrCameraMoveWait goes by is that of the move in progress, unless a zoom has timed
\* the tween anew (registry_camera.cpp:62, 154).
THEOREM EndIsKnown == Spec => []MoveEndKnown
<1>1. IInv => MoveEndKnown
  BY DEF IInv
<1> QED
  BY <1>1, Invariance, PTL

\* DrCameraMoveWait returns to a camera at rest, where it was sent (registry_camera.cpp:176-183,
\* advance_camera()), for every duration and delay, and however moves interrupt one another.
\* Only a zoom begun during the move, which times it anew (registry_camera.cpp:83), can leave
\* it on the move there; its end is then ahead, so that it still arrives.
THEOREM WaitFindsCameraAtRest == Spec => CameraArrived
<1>1. ASSUME IInv, [Next]_vars, Wakes, awaiting
      PROVE  /\ camera'.moving => retimed /\ clock' < camera'.end
             /\ camera.moving /\ ~camera'.moving => camera'.pos = camera.toPos
  <2>0. clock \in Nat /\ camera \in CameraRecord /\ moveEnd \in Nat /\ alarm \in Nat
    BY <1>1 DEF IInv, Types
  <2>1. CASE Start
    BY <1>1, <2>1 DEF Start, Begin, Wakes
  <2>2. CASE Frame
    <3>1. clock + 1 \in Nat /\ camera' = Advanced(camera, clock + 1) /\ clock + 1 >= alarm
          /\ alarm = moveEnd
      BY <1>1, <2>0, <2>2 DEF Frame, Tick, Wakes, IInv, Waiting
    <3>2. /\ camera'.pos = IF camera.moving THEN At(camera, camera.fromPos, camera.toPos, clock + 1)
                                            ELSE camera.pos
          /\ (camera'.moving <=> camera.moving /\ ~Over(camera, clock + 1))
      BY <2>0, <3>1, AdvancedFields
    <3>3. camera.moving => /\ camera.start \in Nat /\ camera.end \in Nat /\ camera.start < camera.end
                           /\ ~retimed => camera.end = moveEnd
      BY <1>1, <2>0 DEF IInv, Timed, MoveEndKnown, CameraRecord
    <3>4. camera'.moving => clock' < camera'.end
      <4>1. IInv'
        BY <1>1, NextInv
      <4> QED
        BY <4>1 DEF IInv, TweenEnds
    <3>5. camera.moving /\ Over(camera, clock + 1) =>
            At(camera, camera.fromPos, camera.toPos, clock + 1) = camera.toPos
      BY <2>0, <3>1, <3>3 DEF Over, At
    <3>6. camera.moving /\ ~retimed => Over(camera, clock + 1)
      BY <2>0, <3>1, <3>3 DEF Over
    <3> QED
      BY <3>2, <3>4, <3>5, <3>6
  <2>3. CASE ~Frame /\ ~Start
    BY <1>1, <2>3 DEF Next, Wakes, MoveCamera, ZoomCamera, PlaceCamera, DemoPosY, FollowCamera, SetZoom,
       DrCameraStop, OtherNative, DrCameraMoveWait, OtherWait, Native, Sleep, End, Return, Halt,
       vars, clockVars
  <2> QED
    BY <2>1, <2>2, <2>3
<1>2. IInv /\ [Next]_vars =>
        [Wakes /\ awaiting =>
           /\ camera'.moving => retimed /\ clock' < camera'.end
           /\ camera.moving /\ ~camera'.moving => camera'.pos = camera.toPos]_vars
  BY <1>1
<1> QED
  BY <1>2, Invariance, PTL DEF Spec, CameraArrived

\* When a burst is over the last keyframe shows the camera where it is (flush_keyframe(),
\* registry.cpp:776-786): no decision to keep a keyframe back loses a change.
THEOREM KeyframesKeepUp == Spec => RecordedWhere
<1>1. ASSUME IInv, [Next]_vars, Flushed PROVE SameView(recorded', camera')
  <2>0. clock \in Nat /\ camera \in CameraRecord /\ dirty \in BOOLEAN
    BY <1>1 DEF IInv, Types
  <2>1. ASSUME NEW c \in CameraRecord, NEW changed \in BOOLEAN, FlushKeyframe(c, changed), clock' = clock,
               c.moving => camera.moving, c.zooming => camera.zooming,
               c.start = camera.start, c.end = camera.end, ~changed => c = camera /\ ~dirty
        PROVE  SameView(recorded', camera')
    <3>1. c.moving \/ c.zooming => c.start < c.end /\ clock < c.end
      BY <1>1, <2>1 DEF IInv, Timed, TweenEnds
    <3>2. Recording /\ ~changed /\ clock # 0 => SameView(recorded, c) /\ AtItsStart(c, clock)
      BY <1>1, <2>1 DEF IInv, CleanIsRecorded, Flushed
    <3> QED
      BY <1>1, <2>0, <2>1, <3>1, <3>2, FlushKeeps DEF Flushed
  <2>2. ASSUME NEW to \in Places, NEW stop \in BOOLEAN, NEW n \in 0..LongestWait, FollowCamera(to, stop, n)
        PROVE  SameView(recorded', camera')
    <3> DEFINE c == [camera EXCEPT !.pos = to, !.moving = @ /\ ~stop, !.zooming = @ /\ ~stop]
    <3>1. /\ c \in CameraRecord /\ (c.moving => camera.moving) /\ (c.zooming => camera.zooming)
          /\ c.start = camera.start /\ c.end = camera.end
      BY <2>0 DEF CameraRecord, Views
    <3>2. FlushKeyframe(c, TRUE) /\ clock' = clock
      BY <1>1, <2>2 DEF FollowCamera, Native, Sleep, clockVars, Flushed
    <3> HIDE DEF c
    <3> QED
      BY <2>1, <3>1, <3>2
  <2>3. CASE FlushKeyframe(camera, dirty) /\ clock' = clock
    BY <2>0, <2>1, <2>3
  <2>4. CASE Frame
    BY <1>1, <2>4 DEF Frame, Tick, Flushed
  <2>5. CASE Start
    BY <1>1, <2>5 DEF Start, Begin, Flushed
  <2>6. CASE DrCameraMoveWait \/ OtherWait \/ End
    BY <1>1, <2>3, <2>6 DEF DrCameraMoveWait, OtherWait, End, Sleep, Return, Halt, Flushed
  <2>7. CASE UNCHANGED <<phase>>
    BY <1>1, <2>7 DEF Flushed
  <2> QED
    BY <1>1, <2>2, <2>4, <2>5, <2>6, <2>7 DEF Next, MoveCamera, ZoomCamera, PlaceCamera, DemoPosY, SetZoom,
       DrCameraStop, OtherNative, Native, vars, clockVars
<1>2. IInv /\ [Next]_vars =>
        [Flushed => recorded'.pos = camera'.pos /\ recorded'.zoom = camera'.zoom]_vars
  BY <1>1 DEF SameView
<1> QED
  BY <1>2, Invariance, PTL DEF Spec, RecordedWhere

=============================================================================
