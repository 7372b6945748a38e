--------------------------- MODULE Movement_proofs ---------------------------
(***************************************************************************)
(* Whose motion is whose, where a moving entity is, which clip it shows, and  *)
(* what a script that waited for movements or an action finds: for all         *)
(* entities, places, clips and durations.  The inductive invariant has two      *)
(* layers: that movements only carry tokens that were given out, and what a    *)
(* parked script's alarm has to do with the movements it waits for; then, on    *)
(* top of it, that nothing on show is over and that an idle asked for during    *)
(* an action or a motion is kept.                                           *)
(***************************************************************************)
EXTENDS Movement, TLAPS

Everywhere == Places \cup {Between}

ClockTypes == clock \in Nat /\ alarm \in Nat /\ phase \in Phases

SceneTypes ==
  /\ pos \in [Entities -> Everywhere]
  /\ anim \in [Entities -> Animations]
  /\ moves \in [Entities -> Movements]
  /\ \A e \in Entities : moves[e].on => moves[e].to \in Places /\ moves[e].f0 < moves[e].f1
  /\ nextToken \in Nat \ {0}
  /\ deferred \in [Entities -> Indices]

\* Movements carry tokens that were given out, and tracks a script gave them.
MovesIssued ==
  \A e \in Entities : moves[e].token < nextToken /\ moves[e].followup \in FollowUps \cup {NoTrack}

SceneInv == SceneTypes /\ MovesIssued /\ MotionOwnership /\ OnPath

WaitsForMoves ==
  phase = "sleep" =>
    /\ clock < alarm
    /\ parked.kind \in {"move", "named"} =>
         parked.who \in Entities /\ moves[parked.who].on /\ moves[parked.who].f1 = alarm
    /\ parked.kind = "all" => \A e \in Entities : moves[e].on => moves[e].f1 <= alarm

IInv == ClockTypes /\ SceneInv /\ WaitsForMoves

-----------------------------------------------------------------------------
LEMMA Arguing ==
  /\ \A track \in Arguments(MotionClips) \cup Arguments(ActionClips) \cup Arguments(IdleClips) \cup FollowUps :
       track \in Tracks /\ track.clip \in Indices /\ track.named \in BOOLEAN
  /\ NoTrack \in Tracks /\ \A c \in Indices : Track(c) \in Tracks
  /\ NoClip \in Indices /\ IdleClips \subseteq Indices
  /\ Durations \subseteq Nat \ {0} /\ Between \notin Places
<1>1. MotionClips \subseteq Indices /\ ActionClips \subseteq Indices /\ IdleClips \subseteq Indices
      /\ FollowUps \subseteq Tracks /\ Durations \subseteq 1..LongestWait /\ Between \notin Places
  BY MovementAssumption
<1>2. NoClip \in Indices
  BY DEF Indices
<1>3. NoTrack \in Tracks /\ \A c \in Indices : Track(c) \in Tracks
  BY <1>2 DEF NoTrack, Track, Tracks
<1>4. \A track \in Tracks : track.clip \in Indices /\ track.named \in BOOLEAN
  BY DEF Tracks
<1>5. \A track \in Arguments(MotionClips) \cup Arguments(ActionClips) \cup Arguments(IdleClips) \cup FollowUps :
        track \in Tracks
  BY <1>1, <1>3 DEF Arguments
<1>6. Durations \subseteq Nat \ {0}
  BY <1>1, LongestWaitAssumption
<1> QED
  BY <1>1, <1>2, <1>3, <1>4, <1>5, <1>6

LEMMA ClipFacts ==
  ASSUME NEW c \in Indices
  PROVE  Duration(c) \in Nat /\ IntroOf(c) \in Nat /\ SuccessorOf(c) \in Indices
BY AnimationAssumption DEF Duration, IntroOf, SuccessorOf, Indices

-----------------------------------------------------------------------------
(* The methods of the AnimationController: what they do to the motion. *)

SameMotion(b, a) == b.token = a.token /\ b.motionEnd = a.motionEnd /\ b.motionNext = a.motionNext

LEMMA ApplyTyped ==
  ASSUME NEW a \in Animations, NEW track \in Tracks, NEW f \in Nat
  PROVE  Apply(a, track, f) \in Animations /\ SameMotion(Apply(a, track, f), a)
BY DEF Apply, Animations, SameMotion

LEMMA PlayIndexTyped ==
  ASSUME NEW a \in Animations, NEW c \in Indices, NEW f \in Nat
  PROVE  /\ PlayIndex(a, c, f) \in Animations
         /\ PlayIndex(a, c, f).token = 0 /\ PlayIndex(a, c, f).motionEnd = 0
<1>1. a.track \in Tracks
  BY DEF Animations
<1>2. [a.track EXCEPT !.clip = c] \in Tracks
  BY <1>1 DEF Tracks
<1>3. NoClip \in Indices
  BY DEF Indices
<1> QED
  BY <1>2, <1>3 DEF PlayIndex, Animations

LEMMA SetIdleTyped ==
  ASSUME NEW a \in Animations, NEW track \in Tracks, NEW f \in Nat
  PROVE  SetIdle(a, track, f) \in Animations /\ SameMotion(SetIdle(a, track, f), a)
<1> DEFINE b == [a EXCEPT !.idle = track]
<1>1. b \in Animations /\ SameMotion(b, a)
  BY DEF Animations, SameMotion
<1>2. SetIdle(a, track, f) = IF ~b.active /\ b.token = 0 THEN Apply(b, track, f) ELSE b
  BY DEF SetIdle
<1> HIDE DEF b
<1> QED
  BY <1>1, <1>2, ApplyTyped DEF SameMotion

LEMMA PlayActionTyped ==
  ASSUME NEW a \in Animations, NEW track \in Tracks, NEW f \in Nat
  PROVE  PlayAction(a, track, f) \in Animations /\ SameMotion(PlayAction(a, track, f), a)
<1> DEFINE a1 == IF a.active THEN a ELSE [a EXCEPT !.idle = a.track]
           b == Apply(a1, track, f)
           shown == IF IntroOf(track.clip) > 0 THEN IntroOf(track.clip) ELSE Duration(track.clip)
           next == SuccessorOf(track.clip)
           end == f + AtLeast1(shown)
<1>1. a1 \in Animations /\ SameMotion(a1, a)
  BY DEF Animations, SameMotion
<1>2. b \in Animations /\ SameMotion(b, a)
  <2> HIDE DEF a1
  <2> QED
    BY <1>1, ApplyTyped DEF SameMotion
<1>3. next \in Indices /\ end \in Nat
  <2>1. track.clip \in Indices
    BY DEF Tracks
  <2>2. IntroOf(track.clip) \in Nat /\ Duration(track.clip) \in Nat /\ SuccessorOf(track.clip) \in Indices
    BY <2>1, ClipFacts
  <2> QED
    BY <2>2 DEF AtLeast1
<1>4. PlayAction(a, track, f) = [b EXCEPT !.active = TRUE, !.actionEnd = end, !.actionNext = next]
  BY DEF PlayAction
<1> HIDE DEF b, end, next
<1> QED
  BY <1>2, <1>3, <1>4 DEF Animations, SameMotion

LEMMA BeginMotionTyped ==
  ASSUME NEW a \in Animations, NEW track \in Tracks, NEW token \in Nat, NEW f \in Nat
  PROVE  BeginMotion(a, track, token, f) \in Animations /\ BeginMotion(a, track, token, f).token = token
<1> DEFINE quiet == IF a.active THEN [a EXCEPT !.active = FALSE, !.actionEnd = 0, !.actionNext = NoClip]
                    ELSE IF ~a.idle.named THEN [a EXCEPT !.idle = a.track] ELSE a
           next == SuccessorOf(track.clip)
           b == Apply(quiet, track, f)
           end == IF next # NoClip THEN f + AtLeast1(Duration(track.clip)) ELSE 0
<1>1. quiet \in Animations
  <2>1. NoClip \in Indices
    BY DEF Indices
  <2> QED
    BY <2>1 DEF Animations
<1>2. b \in Animations
  <2> HIDE DEF quiet
  <2> QED
    BY <1>1, ApplyTyped
<1>3. next \in Indices /\ end \in Nat
  <2>1. track.clip \in Indices
    BY DEF Tracks
  <2>2. Duration(track.clip) \in Nat /\ SuccessorOf(track.clip) \in Indices
    BY <2>1, ClipFacts
  <2> QED
    BY <2>2 DEF AtLeast1
<1>4. BeginMotion(a, track, token, f) = [b EXCEPT !.token = token, !.motionEnd = end, !.motionNext = next]
  BY DEF BeginMotion
<1> HIDE DEF b, end, next
<1> QED
  BY <1>2, <1>3, <1>4 DEF Animations

LEMMA FinishMotionTyped ==
  ASSUME NEW a \in Animations, NEW token \in Nat, NEW followup \in Tracks, NEW f \in Nat
  PROVE  LET b == FinishMotion(a, token, followup, f)
         IN  /\ b \in Animations
             /\ b = a \/ (b.token = 0 /\ b.motionEnd = 0)
<1>1. CASE token = 0 \/ a.token # token
  BY <1>1 DEF FinishMotion
<1>2. CASE ~(token = 0 \/ a.token # token)
  <2> DEFINE shown == CASE followup.named        -> Apply(a, followup, f)
                        [] ~followup.named /\ a.motionNext # NoClip
                                                 -> Apply(a, Track(a.motionNext), f)
                        [] ~followup.named /\ a.motionNext = NoClip /\ a.idle.named
                                                 -> Apply(a, a.idle, f)
                        [] OTHER                 -> a
  <2>1. shown \in Animations
    <3>1. a.idle \in Tracks /\ Track(a.motionNext) \in Tracks
      BY Arguing DEF Animations
    <3>2. /\ Apply(a, followup, f) \in Animations /\ Apply(a, Track(a.motionNext), f) \in Animations
          /\ Apply(a, a.idle, f) \in Animations
      BY <3>1, ApplyTyped
    <3> QED
      BY <3>2
  <2>2. FinishMotion(a, token, followup, f) = [shown EXCEPT !.token = 0, !.motionEnd = 0, !.motionNext = NoClip]
    BY <1>2 DEF FinishMotion
  <2> HIDE DEF shown
  <2>3. NoClip \in Indices
    BY DEF Indices
  <2> DEFINE c == [shown EXCEPT !.token = 0, !.motionEnd = 0, !.motionNext = NoClip]
  <2>4. c \in Animations /\ c.token = 0 /\ c.motionEnd = 0
    BY <2>1, <2>3 DEF Animations
  <2> HIDE DEF c
  <2>5. FinishMotion(a, token, followup, f) = c
    BY <2>2 DEF c
  <2> QED
    BY <2>4, <2>5
<1> QED
  BY <1>1, <1>2

LEMMA AdvanceTyped ==
  ASSUME NEW a \in Animations, NEW f \in Nat, a.token = 0 => a.motionEnd = 0
  PROVE  LET b == AdvanceClip(a, f)
         IN  b \in Animations /\ b.token = a.token /\ (b.token = 0 => b.motionEnd = 0)
<1>0. NoClip \in Indices
  BY DEF Indices
<1> DEFINE c == EndAction(a, f)
<1>1. c \in Animations /\ SameMotion(c, a)
  <2>1. CASE ~a.active \/ f < a.actionEnd
    BY <2>1 DEF EndAction, SameMotion
  <2>2. CASE ~(~a.active \/ f < a.actionEnd)
    <3> DEFINE b == IF a.actionNext # NoClip THEN Apply(a, Track(a.actionNext), f)
                    ELSE IF a.idle.named THEN Apply(a, a.idle, f) ELSE a
    <3>1. b \in Animations /\ SameMotion(b, a)
      <4>1. a.idle \in Tracks /\ Track(a.actionNext) \in Tracks
        BY Arguing DEF Animations
      <4>2. /\ Apply(a, a.idle, f) \in Animations /\ SameMotion(Apply(a, a.idle, f), a)
            /\ Apply(a, Track(a.actionNext), f) \in Animations
            /\ SameMotion(Apply(a, Track(a.actionNext), f), a)
        BY <4>1, ApplyTyped
      <4> QED
        BY <4>2 DEF SameMotion
    <3>2. c = [b EXCEPT !.active = FALSE, !.actionEnd = 0, !.actionNext = NoClip]
      BY <2>2 DEF EndAction
    <3> HIDE DEF b, c
    <3> QED
      BY <1>0, <3>1, <3>2 DEF Animations, SameMotion
  <2> QED
    BY <2>1, <2>2
<1> HIDE DEF c
<1> DEFINE d == EndMotionClip(c, f)
<1>2. d \in Animations /\ d.token = c.token /\ (d.motionEnd = 0 \/ d.motionEnd = c.motionEnd)
  <2>1. CASE c.motionEnd = 0 \/ f < c.motionEnd
    BY <1>1, <2>1 DEF EndMotionClip
  <2>2. CASE ~(c.motionEnd = 0 \/ f < c.motionEnd)
    <3> DEFINE b == IF c.motionNext # NoClip THEN Apply(c, Track(c.motionNext), f) ELSE c
    <3>1. b \in Animations /\ SameMotion(b, c)
      <4>1. Track(c.motionNext) \in Tracks
        BY <1>1, Arguing DEF Animations
      <4> QED
        BY <1>1, <4>1, ApplyTyped DEF SameMotion
    <3>2. d = [b EXCEPT !.motionEnd = 0, !.motionNext = NoClip]
      BY <2>2 DEF EndMotionClip
    <3> HIDE DEF b, d
    <3> QED
      BY <1>0, <3>1, <3>2 DEF Animations, SameMotion
  <2> QED
    BY <2>1, <2>2
<1>3. AdvanceClip(a, f) = d
  BY DEF AdvanceClip, c
<1> HIDE DEF d
<1> QED
  BY <1>1, <1>2, <1>3 DEF SameMotion

-----------------------------------------------------------------------------
(* What the natives of one frame do to the scene. *)

\* A native that animates one entity.
LEMMA AnimationKeeps ==
  ASSUME SceneInv, clock' = clock, NEW e \in Entities, NEW b \in Animations,
         anim' = [anim EXCEPT ![e] = b], b.token = 0 \/ b.token = anim[e].token,
         b.token = 0 => b.motionEnd = 0,
         pos' = pos, moves' = moves, nextToken' = nextToken, deferred' \in [Entities -> Indices]
  PROVE  SceneInv'
<1>1. SceneTypes'
  BY DEF SceneInv, SceneTypes
<1>2. MovesIssued' /\ OnPath'
  BY DEF SceneInv, MovesIssued, OnPath, Whereabouts, Arrives
<1>3. \A x \in Entities : anim'[x] = IF x = e THEN b ELSE anim[x]
  BY DEF SceneInv, SceneTypes
<1>4. nextToken \in Nat \ {0} /\ \A x \in Entities : anim[x].token \in Nat
  BY DEF SceneInv, SceneTypes, Animations
<1>5. MotionOwnership'
  BY <1>3, <1>4 DEF SceneInv, MotionOwnership
<1> QED
  BY <1>1, <1>2, <1>5 DEF SceneInv

LEMMA GlideKeeps ==
  ASSUME SceneInv, clock \in Nat, clock' = clock, NEW e \in Entities, NEW to \in Places,
         NEW d \in Durations, Glide(e, to, d)
  PROVE  SceneInv' /\ moves'[e].on /\ moves'[e].f1 = clock + d
<1> DEFINE m == [on |-> TRUE, from |-> pos[e], to |-> to, f0 |-> clock, f1 |-> clock + d,
                 token |-> 0, followup |-> NoTrack]
<1>1. d \in Nat \ {0} /\ NoTrack \in Tracks /\ clock + d \in Nat /\ clock < clock + d
  BY Arguing
<1>2. pos[e] \in Everywhere /\ to \in Everywhere
  BY DEF SceneInv, SceneTypes, Everywhere
<1>3. m \in Movements /\ m.on /\ m.to \in Places /\ m.f0 = clock /\ m.f1 = clock + d /\ m.token = 0
      /\ m.from = pos[e] /\ m.followup = NoTrack
  BY <1>1, <1>2 DEF Movements, Everywhere
<1>4. moves' = [moves EXCEPT ![e] = m]
      /\ pos' = pos /\ anim' = anim /\ nextToken' = nextToken /\ deferred' = deferred
  BY DEF Glide, Begins
<1> HIDE DEF m
<1>5. \A x \in Entities : moves'[x] = IF x = e THEN m ELSE moves[x]
  BY <1>4 DEF SceneInv, SceneTypes
<1>6. SceneTypes'
  BY <1>1, <1>3, <1>4, <1>5 DEF SceneInv, SceneTypes
<1>7. MovesIssued' /\ MotionOwnership'
  <2>1. nextToken \in Nat \ {0}
    BY DEF SceneInv, SceneTypes
  <2> QED
    BY <1>3, <1>4, <1>5, <2>1 DEF SceneInv, MovesIssued, MotionOwnership
<1>8. OnPath'
  BY <1>1, <1>3, <1>4, <1>5 DEF SceneInv, OnPath, Whereabouts, Arrives
<1> QED
  BY <1>3, <1>5, <1>6, <1>7, <1>8 DEF SceneInv

LEMMA WalkKeeps ==
  ASSUME SceneInv, clock \in Nat, clock' = clock, NEW e \in Entities, NEW to \in Places,
         NEW d \in Durations, NEW way \in Arguments(MotionClips), NEW followup \in FollowUps,
         Walk(e, to, d, way, followup)
  PROVE  SceneInv' /\ moves'[e].on /\ moves'[e].f1 = clock + d
<1>1. CASE ~way.named
  BY <1>1, GlideKeeps DEF Walk
<1>2. CASE way.named
  <2> DEFINE m == [on |-> TRUE, from |-> pos[e], to |-> to, f0 |-> clock, f1 |-> clock + d,
                   token |-> nextToken, followup |-> followup]
             b == BeginMotion(anim[e], way, nextToken, clock)
  <2>1. d \in Nat \ {0} /\ followup \in Tracks /\ way \in Tracks /\ clock + d \in Nat
        /\ clock < clock + d /\ NoClip \in Indices
    BY Arguing
  <2>2. pos[e] \in Everywhere /\ to \in Everywhere /\ nextToken \in Nat \ {0} /\ anim[e] \in Animations
    BY DEF SceneInv, SceneTypes, Everywhere
  <2>3. m \in Movements /\ m.on /\ m.to \in Places /\ m.f0 = clock /\ m.f1 = clock + d
        /\ m.token = nextToken /\ m.from = pos[e] /\ m.followup = followup
    BY <2>1, <2>2 DEF Movements, Everywhere
  <2>4. b \in Animations /\ b.token = nextToken
    BY <2>1, <2>2, BeginMotionTyped
  <2>5. moves' = [moves EXCEPT ![e] = m] /\ anim' = [anim EXCEPT ![e] = b]
        /\ pos' = pos /\ nextToken' = nextToken + 1 /\ deferred' = deferred
    BY <1>2 DEF Walk, Begins
  <2> HIDE DEF m, b
  <2>6. /\ \A x \in Entities : moves'[x] = IF x = e THEN m ELSE moves[x]
        /\ \A x \in Entities : anim'[x] = IF x = e THEN b ELSE anim[x]
    BY <2>5 DEF SceneInv, SceneTypes
  <2>7. SceneTypes'
    BY <2>1, <2>2, <2>3, <2>4, <2>5, <2>6 DEF SceneInv, SceneTypes
  <2>8. \A x \in Entities : anim[x].token \in Nat /\ moves[x].token \in Nat
    BY DEF SceneInv, SceneTypes, Animations, Movements
  <2>9. MovesIssued'
    BY <2>2, <2>3, <2>5, <2>6, <2>8 DEF SceneInv, MovesIssued
  <2>10. MotionOwnership'
    BY <2>2, <2>3, <2>4, <2>5, <2>6, <2>8 DEF SceneInv, MotionOwnership, MovesIssued
  <2>11. OnPath'
    BY <2>1, <2>3, <2>5, <2>6 DEF SceneInv, OnPath, Whereabouts, Arrives
  <2> QED
    BY <2>3, <2>6, <2>7, <2>9, <2>10, <2>11 DEF SceneInv
<1> QED
  BY <1>1, <1>2

NoMoveFacts == NoMove \in Movements /\ ~NoMove.on /\ NoMove.token = 0 /\ NoMove.followup = NoTrack

LEMMA NoMoveTyped == NoMoveFacts
BY Arguing DEF NoMoveFacts, NoMove, Movements

LEMMA SetPosVKeeps ==
  ASSUME SceneInv, clock' = clock, NEW e \in Entities, NEW p \in Places, SetPosV(e, p)
  PROVE  SceneInv'
<1>1. moves' = [moves EXCEPT ![e] = NoMove] /\ pos' = [pos EXCEPT ![e] = p]
      /\ anim' = anim /\ nextToken' = nextToken /\ deferred' = deferred
  BY DEF SetPosV
<1>2. /\ \A x \in Entities : moves'[x] = IF x = e THEN NoMove ELSE moves[x]
      /\ \A x \in Entities : pos'[x] = IF x = e THEN p ELSE pos[x]
  BY <1>1 DEF SceneInv, SceneTypes
<1>3. p \in Everywhere /\ p # Between
  BY Arguing DEF Everywhere
<1>4. SceneTypes'
  BY <1>1, <1>2, <1>3, NoMoveTyped DEF SceneInv, SceneTypes, NoMoveFacts
<1>5. nextToken \in Nat \ {0}
  BY DEF SceneInv, SceneTypes
<1>6. MovesIssued' /\ MotionOwnership'
  BY <1>1, <1>2, <1>5, NoMoveTyped DEF SceneInv, MovesIssued, MotionOwnership, NoMoveFacts
<1>7. OnPath'
  BY <1>1, <1>2, <1>3, NoMoveTyped DEF SceneInv, OnPath, Whereabouts, Arrives, NoMoveFacts
<1> QED
  BY <1>4, <1>6, <1>7 DEF SceneInv

\* A native that leaves the scene alone.
LEMMA SceneStays ==
  ASSUME SceneInv, clock' = clock, UNCHANGED sceneVars
  PROVE  SceneInv'
BY DEF SceneInv, SceneTypes, MovesIssued, MotionOwnership, OnPath, Whereabouts, Arrives, sceneVars

LEMMA AnimationNativesKeep ==
  ASSUME SceneInv, clock \in Nat, clock' = clock, AnimationNatives
  PROVE  SceneInv' /\ moves' = moves
<1>0. /\ \A e \in Entities : anim[e] \in Animations /\ (anim[e].token = 0 => anim[e].motionEnd = 0)
      /\ deferred \in [Entities -> Indices] /\ NoClip \in Indices
  BY Arguing DEF SceneInv, SceneTypes, MotionOwnership
<1>1. ASSUME NEW e \in Entities, NEW track \in Arguments(ActionClips), PlaysAction(e, track)
      PROVE  SceneInv' /\ moves' = moves
  <2> DEFINE b == PlayAction(anim[e], track, clock)
  <2>1. b \in Animations /\ b.token = anim[e].token /\ b.motionEnd = anim[e].motionEnd
    BY <1>0, Arguing, PlayActionTyped DEF SameMotion
  <2>2. anim' = [anim EXCEPT ![e] = b] /\ pos' = pos /\ moves' = moves /\ nextToken' = nextToken
        /\ deferred' \in [Entities -> Indices]
    BY <1>0, <1>1 DEF PlaysAction
  <2> HIDE DEF b
  <2> QED
    BY <1>0, <2>1, <2>2, AnimationKeeps
<1>2. ASSUME NEW e \in Entities, NEW track \in Arguments(IdleClips), Idles(e, track)
      PROVE  SceneInv' /\ moves' = moves
  <2> DEFINE b == SetIdle(anim[e], track, clock)
  <2>1. b \in Animations /\ b.token = anim[e].token /\ b.motionEnd = anim[e].motionEnd
    BY <1>0, Arguing, SetIdleTyped DEF SameMotion
  <2>2. anim' = [anim EXCEPT ![e] = b] /\ pos' = pos /\ moves' = moves /\ nextToken' = nextToken
    BY <1>2 DEF Idles
  <2>3. deferred' \in [Entities -> Indices]
    <3>1. track.clip \in Indices
      BY Arguing
    <3> QED
      BY <1>0, <1>2, <3>1 DEF Idles
  <2> HIDE DEF b
  <2> QED
    BY <1>0, <2>1, <2>2, <2>3, AnimationKeeps
<1>3. ASSUME NEW e \in Entities, NEW c \in IdleClips, SetsIndex(e, c)
      PROVE  SceneInv' /\ moves' = moves
  <2> DEFINE b == PlayIndex(anim[e], c, clock)
  <2>1. b \in Animations /\ b.token = 0 /\ b.motionEnd = 0
    BY <1>0, Arguing, PlayIndexTyped
  <2>2. anim' = [anim EXCEPT ![e] = b] /\ pos' = pos /\ moves' = moves /\ nextToken' = nextToken
        /\ deferred' \in [Entities -> Indices]
    BY <1>0, <1>3 DEF SetsIndex
  <2> HIDE DEF b
  <2> QED
    BY <1>0, <2>1, <2>2, AnimationKeeps
<1>4. ASSUME NEW e \in Entities, ActionWait(e) \/ AnimationWait(e)
      PROVE  SceneInv' /\ moves' = moves
  BY <1>4, SceneStays DEF ActionWait, AnimationWait, sceneVars
<1> QED
  BY <1>1, <1>2, <1>3, <1>4 DEF AnimationNatives, SetsIdle, Turn

LEMMA FrameKeeps ==
  ASSUME SceneInv, clock \in Nat, Frame
  PROVE  SceneInv'
<1>1. clock' = clock + 1 /\ nextToken' = nextToken /\ deferred' = deferred /\ clock' \in Nat
  BY DEF Frame, Tick
<1>2. /\ pos' = [e \in Entities |-> IF moves[e].on THEN Whereabouts(moves[e], clock') ELSE pos[e]]
      /\ moves' = [e \in Entities |-> IF Arrives(moves[e], clock') THEN NoMove ELSE moves[e]]
  BY DEF Frame
<1>3. /\ nextToken \in Nat \ {0}
      /\ \A e \in Entities : /\ pos[e] \in Everywhere /\ anim[e] \in Animations /\ moves[e] \in Movements
                             /\ moves[e].token \in Nat /\ moves[e].followup \in Tracks
                             /\ moves[e].from \in Everywhere /\ moves[e].to \in Everywhere
                             /\ moves[e].f0 \in Nat /\ moves[e].f1 \in Nat
                             /\ moves[e].on \in BOOLEAN
                             /\ (anim[e].token = 0 => anim[e].motionEnd = 0)
  BY DEF SceneInv, SceneTypes, Movements, Everywhere, MotionOwnership
<1>4. ASSUME NEW e \in Entities
      PROVE  /\ anim'[e] \in Animations /\ anim'[e].token \in {0, anim[e].token}
             /\ anim'[e].token = 0 => anim'[e].motionEnd = 0
  <2> DEFINE a == IF Arrives(moves[e], clock')
                    THEN FinishMotion(anim[e], moves[e].token, moves[e].followup, clock')
                    ELSE anim[e]
  <2>1. a \in Animations /\ a.token \in {0, anim[e].token} /\ (a.token = 0 => a.motionEnd = 0)
    <3>1. CASE Arrives(moves[e], clock')
      BY <1>1, <1>3, <3>1, FinishMotionTyped
    <3>2. CASE ~Arrives(moves[e], clock')
      BY <1>3, <3>2
    <3> QED
      BY <3>1, <3>2
  <2>2. anim'[e] = AdvanceClip(a, clock')
    BY DEF Frame
  <2> HIDE DEF a
  <2> QED
    BY <1>1, <2>1, <2>2, AdvanceTyped
<1>5. anim' \in [Entities -> Animations]
  <2>1. DOMAIN anim' = Entities /\ anim' = [e \in Entities |-> anim'[e]]
    BY DEF Frame
  <2> QED
    BY <1>4, <2>1
<1>6. ASSUME NEW e \in Entities PROVE Whereabouts(moves[e], clock') \in Everywhere
  BY <1>3 DEF Whereabouts, Everywhere
<1>7. SceneTypes'
  BY <1>1, <1>2, <1>3, <1>5, <1>6, NoMoveTyped DEF SceneInv, SceneTypes, NoMoveFacts
<1>8. \A e \in Entities : moves'[e].token \in {0, moves[e].token}
  BY <1>2, NoMoveTyped DEF NoMoveFacts
<1>9. MovesIssued'
  <2>1. \A e \in Entities : moves'[e].followup \in {NoTrack, moves[e].followup}
    BY <1>2, NoMoveTyped DEF NoMoveFacts
  <2> QED
    BY <1>1, <1>3, <1>8, <2>1 DEF SceneInv, MovesIssued
<1>10. MotionOwnership'
  <2>1. \A e \in Entities : anim[e].token \in Nat
    BY <1>3 DEF Animations
  <2> QED
    BY <1>1, <1>3, <1>4, <1>8, <2>1 DEF SceneInv, MotionOwnership
<1>11. OnPath'
  <2>1. ASSUME NEW e \in Entities, moves'[e].on PROVE clock' < moves'[e].f1 /\ pos'[e] = Whereabouts(moves'[e], clock')
    <3>1. moves'[e] = moves[e] /\ moves[e].on /\ ~Arrives(moves[e], clock')
      BY <1>2, <2>1, NoMoveTyped DEF NoMoveFacts
    <3> QED
      BY <1>1, <1>2, <1>3, <3>1 DEF Arrives
  <2>2. ASSUME NEW e \in Entities, ~moves'[e].on PROVE pos'[e] # Between
    <3>1. CASE moves[e].on
      <4>1. Arrives(moves[e], clock') /\ moves[e].to \in Places
        BY <1>2, <2>2, <3>1 DEF SceneInv, SceneTypes
      <4> QED
        BY <1>2, <3>1, <4>1, Arguing DEF Whereabouts
    <3>2. CASE ~moves[e].on
      BY <1>2, <3>2 DEF SceneInv, OnPath
    <3> QED
      BY <3>1, <3>2
  <2> QED
    BY <2>1, <2>2 DEF OnPath, Whereabouts, Arrives
<1> QED
  BY <1>7, <1>9, <1>10, <1>11 DEF SceneInv

LEMMA FreshScene ==
  ASSUME pos' = [e \in Entities |-> CHOOSE p \in Places : TRUE], anim' = [e \in Entities |-> Fresh],
         moves' = [e \in Entities |-> NoMove], nextToken' = 1, deferred' = [e \in Entities |-> NoClip]
  PROVE  SceneInv'
<1>1. Fresh \in Animations /\ Fresh.token = 0 /\ Fresh.motionEnd = 0
  BY Arguing DEF Fresh, Animations
<1>2. (CHOOSE p \in Places : TRUE) \in Places /\ Between \notin Places
  BY MovementAssumption
<1>3. SceneTypes'
  BY <1>1, <1>2, NoMoveTyped, Arguing DEF SceneTypes, Everywhere, NoMoveFacts
<1>4. MovesIssued' /\ MotionOwnership'
  BY <1>1, NoMoveTyped DEF MovesIssued, MotionOwnership, NoMoveFacts
<1>5. OnPath'
  BY <1>2, NoMoveTyped DEF OnPath, NoMoveFacts
<1> QED
  BY <1>3, <1>4, <1>5 DEF SceneInv

-----------------------------------------------------------------------------
LEMMA InitInv == Init => IInv
<1> SUFFICES ASSUME Init PROVE IInv
  OBVIOUS
<1>1. Fresh \in Animations /\ Fresh.token = 0 /\ Fresh.motionEnd = 0
  BY Arguing DEF Fresh, Animations
<1>2. (CHOOSE p \in Places : TRUE) \in Places /\ Between \notin Places
  BY MovementAssumption
<1>3. SceneTypes
  BY <1>1, <1>2, NoMoveTyped, Arguing DEF Init, SceneTypes, Everywhere, NoMoveFacts
<1>4. MovesIssued /\ MotionOwnership
  BY <1>1, NoMoveTyped DEF Init, MovesIssued, MotionOwnership, NoMoveFacts
<1>5. OnPath
  BY <1>2, NoMoveTyped DEF Init, OnPath, NoMoveFacts
<1>6. ClockTypes /\ WaitsForMoves
  BY DEF Init, ClockInit, ClockTypes, WaitsForMoves, Phases
<1> QED
  BY <1>3, <1>4, <1>5, <1>6 DEF IInv, SceneInv

\* Parking the script for what it waits for.
LEMMA ParksKeeps ==
  ASSUME ClockTypes, NEW n \in Nat \ {0}, NEW kind, NEW who, Parks(n, kind, who),
         kind \in {"move", "named"} => who \in Entities /\ moves'[who].on /\ moves'[who].f1 = clock + n,
         kind = "all" => \A e \in Entities : moves'[e].on => moves'[e].f1 <= clock + n
  PROVE  ClockTypes' /\ WaitsForMoves' /\ clock' = clock
<1>1. clock' = clock /\ alarm' = clock + n /\ phase' = "sleep" /\ parked' = [kind |-> kind, who |-> who]
  BY DEF Parks, Sleep, For
<1> QED
  BY <1>1 DEF ClockTypes, WaitsForMoves, Phases

LEMMA StaysKeeps ==
  ASSUME ClockTypes, Running, Stays
  PROVE  ClockTypes' /\ WaitsForMoves' /\ clock' = clock
BY DEF Running, Stays, clockVars, ClockTypes, WaitsForMoves

LEMMA MoveNativesKeep == ASSUME IInv, MoveNatives PROVE IInv'
<1>0. ClockTypes /\ SceneInv /\ clock \in Nat
  BY DEF IInv, ClockTypes
<1>1. ASSUME NEW e \in Entities, NEW to \in Places, NEW d \in Durations,
             GlideAsync(e, to, d) \/ GlideAndWait(e, to, d)
      PROVE  IInv'
  <2>1. Glide(e, to, d) /\ d \in Nat \ {0} /\ clock' = clock
    BY <1>1, Arguing DEF GlideAsync, GlideAndWait, Stays, Parks, Sleep, clockVars
  <2>2. SceneInv' /\ moves'[e].on /\ moves'[e].f1 = clock + d
    BY <1>0, <2>1, GlideKeeps
  <2>3. ClockTypes' /\ WaitsForMoves'
    <3>1. CASE Running /\ Stays
      BY <1>0, <3>1, StaysKeeps
    <3>2. CASE Parks(d, "move", e)
      BY <1>0, <2>1, <2>2, <3>2, ParksKeeps
    <3> QED
      BY <1>1, <3>1, <3>2 DEF GlideAsync, GlideAndWait
  <2> QED
    BY <2>2, <2>3 DEF IInv
<1>2. ASSUME NEW e \in Entities, NEW to \in Places, NEW d \in Durations,
             NEW way \in Arguments(MotionClips), NEW followup \in FollowUps,
             WalkAsync(e, to, d, way, followup) \/ WalkAndWait(e, to, d, way, followup)
      PROVE  IInv'
  <2>1. Walk(e, to, d, way, followup) /\ d \in Nat \ {0} /\ clock' = clock
    BY <1>2, Arguing DEF WalkAsync, WalkAndWait, Stays, Parks, Sleep, clockVars
  <2>2. SceneInv' /\ moves'[e].on /\ moves'[e].f1 = clock + d
    BY <1>0, <2>1, WalkKeeps
  <2>3. ClockTypes' /\ WaitsForMoves'
    <3>1. CASE Running /\ Stays
      BY <1>0, <3>1, StaysKeeps
    <3>2. CASE Parks(d, "move", e)
      BY <1>0, <2>1, <2>2, <3>2, ParksKeeps
    <3> QED
      BY <1>2, <3>1, <3>2 DEF WalkAsync, WalkAndWait
  <2> QED
    BY <2>2, <2>3 DEF IInv
<1>3. ASSUME NEW e \in Entities, NEW p \in Places, SetPosV(e, p) PROVE IInv'
  <2>1. ClockTypes' /\ WaitsForMoves' /\ clock' = clock
    BY <1>0, <1>3, StaysKeeps DEF SetPosV
  <2> QED
    BY <1>0, <1>3, <2>1, SetPosVKeeps DEF IInv
<1>4. \A e \in Entities : moves[e].on \in BOOLEAN /\ moves[e].f1 \in Nat
  BY <1>0 DEF SceneInv, SceneTypes, Movements
<1>5. ASSUME NEW e \in Entities, MoveWait(e) PROVE IInv'
  <2>1. moves[e].on /\ Remaining(e) \in Nat \ {0} /\ clock + Remaining(e) = moves[e].f1
    BY <1>0, <1>4, <1>5 DEF MoveWait, Remaining
  <2>2. Parks(Remaining(e), "named", e) /\ UNCHANGED sceneVars
    BY <1>5 DEF MoveWait
  <2>3. moves' = moves
    BY <2>2 DEF sceneVars
  <2>4. ClockTypes' /\ WaitsForMoves' /\ clock' = clock
    <3> DEFINE n == Remaining(e)
    <3> HIDE DEF n
    <3>1. n \in Nat \ {0} /\ clock + n = moves[e].f1 /\ Parks(n, "named", e)
      BY <2>1, <2>2 DEF n
    <3> QED
      BY <1>0, <2>1, <2>3, <3>1, ParksKeeps
  <2> QED
    BY <1>0, <2>2, <2>4, SceneStays DEF IInv
<1>6. CASE MoveWaitAll
  <2>1. PICK e \in Entities : /\ Remaining(e) > 0
                              /\ \A other \in Entities : Remaining(other) <= Remaining(e)
                              /\ Parks(Remaining(e), "all", "none")
    BY <1>6 DEF MoveWaitAll
  <2>2. Remaining(e) \in Nat \ {0}
    BY <1>0, <1>4, <2>1 DEF Remaining
  <2>3. UNCHANGED sceneVars /\ moves' = moves
    BY <1>6 DEF MoveWaitAll, sceneVars
  <2>4. ASSUME NEW x \in Entities, moves[x].on PROVE moves[x].f1 <= clock + Remaining(e)
    <3>1. Remaining(x) = moves[x].f1 - clock /\ Remaining(x) <= Remaining(e)
      BY <2>1, <2>4 DEF Remaining
    <3> QED
      BY <1>0, <1>4, <2>2, <3>1
  <2>5. ClockTypes' /\ WaitsForMoves' /\ clock' = clock
    <3> DEFINE n == Remaining(e)
    <3>1. n \in Nat \ {0} /\ Parks(n, "all", "none") /\ \A x \in Entities : moves[x].on => moves[x].f1 <= clock + n
      BY <2>1, <2>2, <2>4
    <3> HIDE DEF n
    <3> QED
      BY <1>0, <2>3, <3>1, ParksKeeps
  <2> QED
    BY <1>0, <2>3, <2>5, SceneStays DEF IInv
<1> QED
  BY <1>1, <1>2, <1>3, <1>5, <1>6 DEF MoveNatives

\* None of these waits is for a movement.
LEMMA OtherParksKeeps ==
  ASSUME ClockTypes, NEW n \in Nat \ {0}, NEW kind, NEW who, Parks(n, kind, who),
         kind \notin {"move", "named", "all"}
  PROVE  ClockTypes' /\ WaitsForMoves' /\ clock' = clock
BY ParksKeeps

LEMMA AnimationNativesWait ==
  ASSUME IInv, AnimationNatives
  PROVE  ClockTypes' /\ WaitsForMoves' /\ clock' = clock
<1>0. ClockTypes /\ clock \in Nat /\ \A e \in Entities : anim[e] \in Animations
  BY DEF IInv, ClockTypes, SceneInv, SceneTypes
<1>1. ASSUME Running, Stays PROVE ClockTypes' /\ WaitsForMoves' /\ clock' = clock
  BY <1>0, <1>1, StaysKeeps
<1>2. ASSUME NEW e \in Entities, NEW track \in Arguments(IdleClips), Turn(e, track)
      PROVE  ClockTypes' /\ WaitsForMoves' /\ clock' = clock
  <2> DEFINE wait == Duration(anim'[e].track.clip)
  <2>1. IF wait > 0 THEN Parks(wait, "turn", e) ELSE Running /\ Stays
    BY <1>2 DEF Turn
  <2>2. wait \in Nat
    <3>1. anim'[e] = SetIdle(anim[e], track, clock)
      BY <1>2 DEF Turn, Idles, IInv, SceneInv, SceneTypes
    <3>2. anim'[e] \in Animations
      BY <1>0, <3>1, Arguing, SetIdleTyped
    <3>3. anim'[e].track.clip \in Indices
      BY <3>2 DEF Animations, Tracks
    <3> QED
      BY <3>3, ClipFacts
  <2> HIDE DEF wait
  <2>3. CASE wait > 0
    <3>1. wait \in Nat \ {0}
      BY <2>2, <2>3
    <3> QED
      BY <1>0, <2>1, <2>3, <3>1, OtherParksKeeps
  <2>4. CASE ~(wait > 0)
    BY <1>1, <2>1, <2>4
  <2> QED
    BY <2>3, <2>4
<1>3. ASSUME NEW e \in Entities, ActionWait(e) PROVE ClockTypes' /\ WaitsForMoves' /\ clock' = clock
  <2> DEFINE n == ActionRemaining(anim[e], clock)
  <2>1. n > 0 /\ Parks(n, "action", e)
    BY <1>3 DEF ActionWait
  <2>2. n \in Nat
    BY <1>0 DEF ActionRemaining, Animations
  <2> HIDE DEF n
  <2>3. n \in Nat \ {0}
    BY <2>1, <2>2
  <2> QED
    BY <1>0, <2>1, <2>3, OtherParksKeeps
<1>4. ASSUME NEW e \in Entities, AnimationWait(e) PROVE ClockTypes' /\ WaitsForMoves' /\ clock' = clock
  <2> DEFINE n == Duration(anim[e].track.clip) - (clock - anim[e].since)
  <2>1. n > 0 /\ Parks(n, "clip", e)
    BY <1>4 DEF AnimationWait
  <2>2. n \in Int
    <3>1. anim[e].track.clip \in Indices /\ anim[e].since \in Nat
      BY <1>0 DEF Animations, Tracks
    <3>2. Duration(anim[e].track.clip) \in Nat
      BY <3>1, ClipFacts
    <3> QED
      BY <1>0, <3>1, <3>2
  <2> HIDE DEF n
  <2>3. n \in Nat \ {0}
    BY <2>1, <2>2
  <2> QED
    BY <1>0, <2>1, <2>3, OtherParksKeeps
<1> QED
  BY <1>1, <1>2, <1>3, <1>4 DEF AnimationNatives, PlaysAction, SetsIdle, SetsIndex

LEMMA NextInv == IInv /\ [Next]_vars => IInv'
<1> SUFFICES ASSUME IInv, [Next]_vars PROVE IInv'
  OBVIOUS
<1>0. ClockTypes /\ SceneInv /\ clock \in Nat /\ alarm \in Nat
  BY DEF IInv, ClockTypes
<1>1. CASE MoveNatives
  BY <1>1, MoveNativesKeep
<1>2. CASE AnimationNatives
  BY <1>0, <1>2, AnimationNativesWait, AnimationNativesKeep DEF IInv
<1>3. CASE Frame
  <2>1. /\ clock' = clock + 1 /\ alarm' = alarm /\ phase = "sleep"
        /\ phase' = IF clock + 1 >= alarm THEN "run" ELSE "sleep"
        /\ parked' = IF phase' = "run" THEN Awake ELSE parked
        /\ moves' = [e \in Entities |-> IF Arrives(moves[e], clock') THEN NoMove ELSE moves[e]]
    BY <1>3 DEF Frame, Tick
  <2>2. ClockTypes'
    BY <1>0, <2>1 DEF ClockTypes, Phases
  <2>3. WaitsForMoves'
    <3> SUFFICES ASSUME phase' = "sleep" PROVE WaitsForMoves'
      BY DEF WaitsForMoves
    <3>1. clock' < alarm' /\ parked' = parked
      BY <1>0, <2>1
    <3>2. ASSUME NEW e \in Entities, moves'[e].on PROVE moves'[e] = moves[e]
      BY <2>1, <3>2, NoMoveTyped DEF NoMoveFacts
    <3>3. ASSUME parked.kind \in {"move", "named"}
          PROVE  parked.who \in Entities /\ moves'[parked.who].on /\ moves'[parked.who].f1 = alarm
      <4>1. parked.who \in Entities /\ moves[parked.who].on /\ moves[parked.who].f1 = alarm
        BY <2>1, <3>3 DEF IInv, WaitsForMoves
      <4>2. ~Arrives(moves[parked.who], clock')
        BY <1>0, <2>1, <3>1, <4>1 DEF Arrives
      <4> QED
        BY <2>1, <4>1, <4>2
    <3>4. ASSUME parked.kind = "all", NEW e \in Entities, moves'[e].on PROVE moves'[e].f1 <= alarm
      BY <2>1, <3>2, <3>4 DEF IInv, WaitsForMoves
    <3> QED
      BY <2>1, <3>1, <3>3, <3>4 DEF WaitsForMoves
  <2> QED
    BY <1>0, <1>3, <2>2, <2>3, FrameKeeps DEF IInv
<1>4. CASE OtherWait
  <2>1. PICK n \in 1..LongestWait : Parks(n, "frames", "none")
    BY <1>4 DEF OtherWait
  <2>2. n \in Nat \ {0}
    BY LongestWaitAssumption
  <2>3. ClockTypes' /\ WaitsForMoves' /\ clock' = clock
    BY <1>0, <2>1, <2>2, OtherParksKeeps
  <2> QED
    BY <1>0, <1>4, <2>3, SceneStays DEF IInv, OtherWait
<1>5. CASE Start
  <2>1. ClockTypes' /\ WaitsForMoves'
    BY <1>5 DEF Start, Begin, ClockTypes, WaitsForMoves, Phases
  <2> QED
    BY <1>5, <2>1, FreshScene DEF IInv, Start
<1>6. CASE End
  <2>1. ClockTypes' /\ WaitsForMoves' /\ clock' = clock
    BY <1>0, <1>6 DEF End, Return, Halt, ClockTypes, WaitsForMoves, Phases
  <2> QED
    BY <1>0, <1>6, <2>1, SceneStays DEF IInv, End
<1>7. CASE UNCHANGED vars
  <2>1. clock' = clock /\ UNCHANGED sceneVars
    BY <1>7 DEF vars, clockVars
  <2>2. ClockTypes' /\ WaitsForMoves'
    BY <1>0, <1>7 DEF vars, clockVars, sceneVars, IInv, ClockTypes, WaitsForMoves
  <2> QED
    BY <1>0, <2>1, <2>2, SceneStays DEF IInv
<1> QED
  BY <1>1, <1>2, <1>3, <1>4, <1>5, <1>6, <1>7 DEF Next

THEOREM Invariance == Spec => []IInv
<1>1. Init => IInv
  BY InitInv
<1>2. IInv /\ [Next]_vars => IInv'
  BY NextInv
<1> QED
  BY <1>1, <1>2, PTL DEF Spec

\* Every entity stands somewhere and shows something, and every movement takes a frame.
THEOREM TypeCorrect == Spec => []TypeOK
<1>1. IInv => TypeOK
  BY DEF IInv, ClockTypes, SceneInv, SceneTypes, Everywhere, TypeOK
<1> QED
  BY <1>1, Invariance, PTL

-----------------------------------------------------------------------------
\* A movement can only end the motion it began (begin_motion(), finish_motion(),
\* animation.hpp:93-131), for any number of entities that share the controller.
THEOREM MotionsAreOwned == Spec => []MotionOwnership
<1>1. IInv => MotionOwnership
  BY DEF IInv, SceneInv
<1> QED
  BY <1>1, Invariance, PTL

\* A moving entity is on its path, and one that does not move stands on a place
\* (Registry::advance()).
THEOREM EntitiesOnPath == Spec => []OnPath
<1>1. IInv => OnPath
  BY DEF IInv, SceneInv
<1> QED
  BY <1>1, Invariance, PTL

\* A script that waited for a movement finds the entity at its goal; one that waited for all
\* finds nothing moving (MoveWait, MoveWaitAll, DrMove and their like).
THEOREM WaitsForMovesEnd == Spec => MovesOver
<1> DEFINE Found == /\ parked.kind \in {"move", "named"} =>
                         ~moves'[parked.who].on /\ pos'[parked.who] = moves[parked.who].to
                    /\ parked.kind = "all" => \A e \in Entities : ~moves'[e].on
<1>1. ASSUME IInv, [Next]_vars, Wakes PROVE Found
  <2>0. /\ clock \in Nat /\ alarm \in Nat
        /\ \A e \in Entities : moves[e].on \in BOOLEAN /\ moves[e].f1 \in Nat
    BY <1>1 DEF IInv, ClockTypes, SceneInv, SceneTypes, Movements
  <2>1. CASE Frame
    <3>1. /\ clock' = clock + 1 /\ clock' >= alarm /\ phase = "sleep"
          /\ pos' = [e \in Entities |-> IF moves[e].on THEN Whereabouts(moves[e], clock') ELSE pos[e]]
          /\ moves' = [e \in Entities |-> IF Arrives(moves[e], clock') THEN NoMove ELSE moves[e]]
      BY <1>1, <2>1 DEF Frame, Tick, Wakes
    <3>2. ASSUME NEW e \in Entities, moves[e].on, moves[e].f1 <= alarm
          PROVE  ~moves'[e].on /\ pos'[e] = moves[e].to
      <4>1. Arrives(moves[e], clock')
        BY <2>0, <3>1, <3>2 DEF Arrives
      <4> QED
        BY <3>1, <3>2, <4>1, NoMoveTyped DEF NoMoveFacts, Whereabouts
    <3>3. ASSUME parked.kind \in {"move", "named"}
          PROVE  ~moves'[parked.who].on /\ pos'[parked.who] = moves[parked.who].to
      <4>1. parked.who \in Entities /\ moves[parked.who].on /\ moves[parked.who].f1 = alarm
        BY <1>1, <3>1, <3>3 DEF IInv, WaitsForMoves
      <4> QED
        BY <2>0, <3>2, <4>1
    <3>4. ASSUME parked.kind = "all", NEW e \in Entities PROVE ~moves'[e].on
      <4>1. CASE moves[e].on
        BY <1>1, <3>1, <3>2, <3>4, <4>1 DEF IInv, WaitsForMoves
      <4>2. CASE ~moves[e].on
        BY <3>1, <4>2 DEF Arrives
      <4> QED
        BY <4>1, <4>2
    <3> QED
      BY <3>3, <3>4
  <2>2. CASE Start
    BY <1>1, <2>2 DEF Start, Begin, Wakes
  <2>3. CASE ~Frame /\ ~Start
    BY <1>1, <2>3 DEF Next, Wakes, MoveNatives, AnimationNatives, GlideAsync, GlideAndWait, WalkAsync,
       WalkAndWait, SetPosV, MoveWait, MoveWaitAll, PlaysAction, SetsIdle, Turn, SetsIndex, ActionWait,
       AnimationWait, OtherWait, End, Return, Halt, Running, Stays, Parks, Sleep, vars, clockVars
  <2> QED
    BY <2>1, <2>2, <2>3
<1>2. IInv /\ [Next]_vars => [Wakes => Found]_vars
  BY <1>1
<1> QED
  BY <1>2, Invariance, PTL DEF Spec, MovesOver

-----------------------------------------------------------------------------
(* What an entity shows: the second layer of the invariant, on top of IInv. *)

Successors == {Successor[c] : c \in Clips}

\* Nothing that is on is over.
Settled(a, f) ==
  /\ a.active => f < a.actionEnd
  /\ a.motionEnd # 0 => f < a.motionEnd

\* What may come in the place of an idle: the successor of a clip, or the track that a movement
\* was given to follow it.
Continuations == Successors \cup {followup.clip : followup \in {t \in FollowUps : t.named}}

\* The idle `d` asked for during an action or a motion is kept, and shown when both are over.
Keeps(a, d) ==
  d # NoClip =>
    /\ a.idle.named /\ a.idle.clip = d
    /\ ~a.active /\ a.token = 0 => a.track.clip \in {d} \cup Continuations

ContinuationsKnown(a) ==
  a.actionNext \in {NoClip} \cup Successors /\ a.motionNext \in {NoClip} \cup Successors

Shows(a, d, f) == Settled(a, f) /\ ContinuationsKnown(a) /\ Keeps(a, d)

\* A script that waits for an action wakes when it is over, or later.
WaitsForAction ==
  phase = "sleep" /\ parked.kind = "action" =>
    /\ parked.who \in Entities
    /\ anim[parked.who].active => anim[parked.who].actionEnd <= alarm

ShowInv == WaitsForAction /\ \A e \in Entities : Shows(anim[e], deferred[e], clock)

LEMMA SuccessorKept == \A c \in Indices : SuccessorOf(c) \in {NoClip} \cup Successors
BY DEF SuccessorOf, Successors, Indices

LEMMA PlayIndexShows ==
  ASSUME NEW a \in Animations, NEW c \in Indices, NEW f \in Nat
  PROVE  Shows(PlayIndex(a, c, f), NoClip, f)
BY DEF PlayIndex, Shows, Settled, Keeps, ContinuationsKnown, Animations

LEMMA SetIdleShows ==
  ASSUME NEW a \in Animations, NEW track \in Tracks, NEW f \in Nat, NEW d, Shows(a, d, f)
  PROVE  Shows(SetIdle(a, track, f),
               IF track.named /\ (a.active \/ a.token # 0) THEN track.clip ELSE NoClip, f)
<1> DEFINE b == SetIdle(a, track, f)
<1>1. /\ b.active = a.active /\ b.token = a.token /\ b.actionEnd = a.actionEnd /\ b.motionEnd = a.motionEnd
      /\ b.actionNext = a.actionNext /\ b.motionNext = a.motionNext /\ b.idle = track
  BY DEF SetIdle, Apply, Animations
<1> HIDE DEF b
<1>2. Shows(b, IF track.named /\ (a.active \/ a.token # 0) THEN track.clip ELSE NoClip, f)
  BY <1>1 DEF Shows, Settled, Keeps, ContinuationsKnown
<1> QED
  BY <1>2 DEF b

LEMMA PlayActionShows ==
  ASSUME NEW a \in Animations, NEW track \in Tracks, NEW f \in Nat, NEW d, Shows(a, d, f)
  PROVE  Shows(PlayAction(a, track, f), IF a.active THEN d ELSE NoClip, f)
<1> DEFINE shown == IF IntroOf(track.clip) > 0 THEN IntroOf(track.clip) ELSE Duration(track.clip)
           next == SuccessorOf(track.clip)
           end == f + AtLeast1(shown)
           b == PlayAction(a, track, f)
<1>1. track.clip \in Indices
  BY DEF Tracks
<1>2. shown \in Nat /\ next \in {NoClip} \cup Successors
  BY <1>1, ClipFacts, SuccessorKept
<1>3. f < end /\ end \in Nat
  BY <1>2 DEF AtLeast1
<1>4. /\ b.active = TRUE /\ b.actionEnd = end /\ b.actionNext = next
      /\ b.motionEnd = a.motionEnd /\ b.motionNext = a.motionNext /\ b.token = a.token
      /\ a.active => b.idle = a.idle
  BY DEF PlayAction, Apply, Animations
<1> HIDE DEF shown, next, end, b
<1>5. Shows(b, IF a.active THEN d ELSE NoClip, f)
  BY <1>2, <1>3, <1>4 DEF Shows, Settled, Keeps, ContinuationsKnown
<1> QED
  BY <1>5 DEF b

LEMMA BeginMotionShows ==
  ASSUME NEW a \in Animations, NEW track \in Tracks, NEW token \in Nat \ {0}, NEW f \in Nat, NEW d,
         Shows(a, d, f)
  PROVE  Shows(BeginMotion(a, track, token, f), d, f)
<1> DEFINE b == BeginMotion(a, track, token, f)
           end == f + AtLeast1(Duration(track.clip))
<1>1. track.clip \in Indices
  BY DEF Tracks
<1>2. f < end /\ end \in Nat
  BY <1>1, ClipFacts DEF AtLeast1
<1>3. /\ b.motionEnd \in {0, end} /\ b.token = token
      /\ b.active = FALSE
      /\ b.actionNext \in {NoClip, a.actionNext} /\ b.motionNext = SuccessorOf(track.clip)
      /\ a.idle.named => b.idle = a.idle
  BY DEF BeginMotion, Apply, Animations
<1>4. SuccessorOf(track.clip) \in {NoClip} \cup Successors
  BY <1>1, SuccessorKept
<1> HIDE DEF b, end
<1>5. Shows(b, d, f)
  BY <1>2, <1>3, <1>4 DEF Shows, Settled, Keeps, ContinuationsKnown
<1> QED
  BY <1>5 DEF b

\* finish_motion() leaves the action alone, and shows the idle that was kept unless the clip or
\* the movement has a continuation.
LEMMA FinishMotionShows ==
  ASSUME NEW a \in Animations, NEW token \in Nat, NEW followup \in FollowUps \cup {NoTrack}, NEW f \in Nat,
         NEW d, ContinuationsKnown(a), Keeps(a, d)
  PROVE  LET b == FinishMotion(a, token, followup, f)
         IN  /\ b.active = a.active /\ b.actionEnd = a.actionEnd
             /\ ContinuationsKnown(b) /\ Keeps(b, d)
<1>1. CASE token = 0 \/ a.token # token
  BY <1>1 DEF FinishMotion
<1>2. CASE ~(token = 0 \/ a.token # token)
  <2> DEFINE shown == CASE followup.named        -> Apply(a, followup, f)
                        [] ~followup.named /\ a.motionNext # NoClip
                                                 -> Apply(a, Track(a.motionNext), f)
                        [] ~followup.named /\ a.motionNext = NoClip /\ a.idle.named
                                                 -> Apply(a, a.idle, f)
                        [] OTHER                 -> a
             c == [shown EXCEPT !.token = 0, !.motionEnd = 0, !.motionNext = NoClip]
  <2>0. \A t \in Tracks : /\ Apply(a, t, f) \in Animations
                         /\ Apply(a, t, f).active = a.active /\ Apply(a, t, f).actionEnd = a.actionEnd
                         /\ Apply(a, t, f).actionNext = a.actionNext /\ Apply(a, t, f).idle = a.idle
                         /\ Apply(a, t, f).track = t
    BY ApplyTyped DEF Apply, Animations
  <2>1. a.idle \in Tracks /\ followup \in Tracks /\ Track(a.motionNext) \in Tracks
        /\ Track(a.motionNext).clip = a.motionNext
    BY Arguing DEF Animations, Track
  <2>2. /\ shown \in Animations /\ shown.active = a.active /\ shown.actionEnd = a.actionEnd
        /\ shown.actionNext = a.actionNext /\ shown.idle = a.idle
    BY <2>0, <2>1
  <2>3. a.idle.named => shown.track.clip \in {a.idle.clip} \cup Continuations
    <3>1. CASE followup.named
      <4>1. followup \in FollowUps
        BY <3>1 DEF NoTrack
      <4> QED
        BY <2>0, <2>1, <3>1, <4>1 DEF Continuations
    <3>2. CASE ~followup.named /\ a.motionNext # NoClip
      BY <2>0, <2>1, <3>2 DEF Continuations, ContinuationsKnown
    <3>3. CASE ~followup.named /\ a.motionNext = NoClip /\ a.idle.named
      BY <2>0, <2>1, <3>3
    <3>4. followup.named \in BOOLEAN
      BY <2>1 DEF Tracks
    <3> QED
      BY <3>1, <3>2, <3>3, <3>4
  <2> HIDE DEF shown
  <2>4. /\ c.active = shown.active /\ c.actionEnd = shown.actionEnd /\ c.actionNext = shown.actionNext
        /\ c.idle = shown.idle /\ c.track = shown.track /\ c.motionNext = NoClip
    BY <2>2 DEF Animations
  <2>5. FinishMotion(a, token, followup, f) = c
    BY <1>2 DEF FinishMotion, shown
  <2> HIDE DEF c
  <2> QED
    BY <2>2, <2>3, <2>4, <2>5 DEF Keeps, ContinuationsKnown
<1> QED
  BY <1>1, <1>2

\* advance() leaves nothing on that is over, ends no action early, and shows the idle that was
\* kept, unless the action has a continuation.
LEMMA AdvanceShows ==
  ASSUME NEW a \in Animations, NEW f \in Nat, NEW d, a.token = 0 => a.motionEnd = 0,
         ContinuationsKnown(a), Keeps(a, d)
  PROVE  LET b == AdvanceClip(a, f)
         IN  /\ Shows(b, d, f)
             /\ b.active => a.active /\ b.actionEnd = a.actionEnd /\ f < a.actionEnd
<1> DEFINE c == EndAction(a, f)
           b == EndMotionClip(c, f)
           shown == IF a.actionNext # NoClip THEN Apply(a, Track(a.actionNext), f)
                    ELSE IF a.idle.named THEN Apply(a, a.idle, f) ELSE a
<1>1. \A t \in Tracks : /\ Apply(a, t, f) \in Animations /\ SameMotion(Apply(a, t, f), a)
                        /\ Apply(a, t, f).track = t /\ Apply(a, t, f).idle = a.idle
  BY ApplyTyped DEF Apply, Animations
<1>2. a.idle \in Tracks /\ Track(a.actionNext) \in Tracks /\ Track(a.actionNext).clip = a.actionNext
  BY Arguing DEF Animations, Track
<1>3. c \in Animations /\ SameMotion(c, a) /\ ContinuationsKnown(c) /\ Keeps(c, d)
      /\ (c.active => a.active /\ c.actionEnd = a.actionEnd /\ f < a.actionEnd)
  <2>1. CASE ~a.active \/ f < a.actionEnd
    <3>1. c = a
      BY <2>1 DEF EndAction
    <3> HIDE DEF c
    <3> QED
      BY <2>1, <3>1 DEF SameMotion
  <2>2. CASE ~(~a.active \/ f < a.actionEnd)
    <3>1. shown \in Animations /\ SameMotion(shown, a) /\ shown.idle = a.idle
      BY <1>1, <1>2 DEF SameMotion
    <3>2. d # NoClip => shown.track.clip \in {d} \cup Continuations
      BY <1>1, <1>2, <2>2 DEF Keeps, ContinuationsKnown, Continuations
    <3>3. c = [shown EXCEPT !.active = FALSE, !.actionEnd = 0, !.actionNext = NoClip]
      BY <2>2 DEF EndAction
    <3> HIDE DEF shown, c
    <3>4. NoClip \in Indices 
      BY DEF Indices, Successors
    <3>5. c \in Animations /\ SameMotion(c, shown) /\ c.actionNext = NoClip /\ c.active = FALSE
          /\ c.track = shown.track /\ c.idle = shown.idle
      BY <3>1, <3>3, <3>4 DEF Animations, SameMotion
    <3> QED
      BY <3>1, <3>2, <3>4, <3>5 DEF SameMotion, Keeps, ContinuationsKnown
  <2> QED
    BY <2>1, <2>2
<1> HIDE DEF c, shown
<1>4. /\ b.active = c.active /\ b.actionEnd = c.actionEnd /\ b.actionNext = c.actionNext
      /\ b.motionEnd # 0 => f < b.motionEnd
      /\ b.motionNext \in {NoClip, c.motionNext} /\ b.token = c.token /\ b.idle = c.idle
      /\ c.token = 0 => b = c
  <2>1. CASE c.motionEnd = 0 \/ f < c.motionEnd
    BY <2>1 DEF EndMotionClip
  <2>2. CASE ~(c.motionEnd = 0 \/ f < c.motionEnd)
    <3> DEFINE s == IF c.motionNext # NoClip THEN Apply(c, Track(c.motionNext), f) ELSE c
    <3>1. /\ s.active = c.active /\ s.actionEnd = c.actionEnd /\ s.actionNext = c.actionNext
          /\ s.token = c.token /\ s.idle = c.idle /\ s \in Animations
      <4>1. Track(c.motionNext) \in Tracks
        BY <1>3, Arguing DEF Animations
      <4>2. Apply(c, Track(c.motionNext), f) \in Animations
        BY <1>3, <4>1, ApplyTyped
      <4>3. /\ Apply(c, Track(c.motionNext), f).active = c.active
            /\ Apply(c, Track(c.motionNext), f).actionEnd = c.actionEnd
            /\ Apply(c, Track(c.motionNext), f).actionNext = c.actionNext
            /\ Apply(c, Track(c.motionNext), f).token = c.token
            /\ Apply(c, Track(c.motionNext), f).idle = c.idle
        BY <1>3 DEF Apply, Animations
      <4> QED
        BY <1>3, <4>2, <4>3
    <3>2. b = [s EXCEPT !.motionEnd = 0, !.motionNext = NoClip]
      BY <2>2 DEF EndMotionClip
    <3> HIDE DEF s, b
    <3>3. c.token # 0
      BY <1>3, <2>2 DEF SameMotion
    <3> QED
      BY <3>1, <3>2, <3>3 DEF Animations
  <2> QED
    BY <2>1, <2>2
<1> HIDE DEF b
<1>5. AdvanceClip(a, f) = b
  BY DEF AdvanceClip, b, c
<1>6. Shows(b, d, f)
  <2>1. Keeps(b, d)
    BY <1>3, <1>4 DEF Keeps
  <2>2. Settled(b, f)
    BY <1>3, <1>4 DEF Settled
  <2>3. ContinuationsKnown(b)
    BY <1>3, <1>4 DEF ContinuationsKnown
  <2> QED
    BY <2>1, <2>2, <2>3 DEF Shows
<1> QED
  BY <1>3, <1>4, <1>5, <1>6

\* A native that animates one entity, or none.
LEMMA OneShows ==
  ASSUME IInv, ShowInv, clock' = clock, NEW e \in Entities, NEW b, NEW d,
         anim' = [anim EXCEPT ![e] = b], deferred' = [deferred EXCEPT ![e] = d], Shows(b, d, clock)
  PROVE  \A x \in Entities : Shows(anim'[x], deferred'[x], clock')
<1>1. \A x \in Entities : /\ anim'[x] = IF x = e THEN b ELSE anim[x]
                          /\ deferred'[x] = IF x = e THEN d ELSE deferred[x]
  BY DEF IInv, SceneInv, SceneTypes
<1> QED
  BY <1>1 DEF ShowInv

\* The script runs on, or is parked for something that is not an action.
LEMMA NoActionAwaited ==
  ASSUME \/ Running /\ Stays
         \/ \E n, kind, who : kind # "action" /\ Parks(n, kind, who)
  PROVE  WaitsForAction' /\ clock' = clock
BY DEF Running, Stays, Parks, Sleep, For, clockVars, WaitsForAction

LEMMA MoveNativesShow == ASSUME IInv, ShowInv, MoveNatives PROVE ShowInv'
<1>0. /\ clock \in Nat /\ nextToken \in Nat \ {0}
      /\ \A e \in Entities : anim[e] \in Animations /\ Shows(anim[e], deferred[e], clock)
  BY DEF IInv, ClockTypes, SceneInv, SceneTypes, ShowInv
<1>1. WaitsForAction' /\ clock' = clock
  BY NoActionAwaited DEF MoveNatives, GlideAsync, GlideAndWait, WalkAsync, WalkAndWait, SetPosV, MoveWait,
     MoveWaitAll
<1>2. ASSUME UNCHANGED <<anim, deferred>> PROVE ShowInv'
  BY <1>0, <1>1, <1>2 DEF ShowInv
<1>3. ASSUME NEW e \in Entities, NEW to, NEW d, NEW way \in Arguments(MotionClips), NEW followup,
             Walk(e, to, d, way, followup)
      PROVE  ShowInv'
  <2>1. CASE ~way.named
    BY <1>2, <1>3, <2>1 DEF Walk, Glide
  <2>2. CASE way.named
    <3> DEFINE b == BeginMotion(anim[e], way, nextToken, clock)
    <3>1. way \in Tracks
      BY Arguing
    <3>2. Shows(b, deferred[e], clock)
      BY <1>0, <3>1, BeginMotionShows
    <3>3. anim' = [anim EXCEPT ![e] = b] /\ deferred' = [deferred EXCEPT ![e] = deferred[e]]
      <4>1. deferred \in [Entities -> Indices]
        BY DEF IInv, SceneInv, SceneTypes
      <4> QED
        BY <1>3, <2>2, <4>1 DEF Walk
    <3> HIDE DEF b
    <3> QED
      BY <1>1, <3>2, <3>3, OneShows DEF ShowInv
  <2> QED
    BY <2>1, <2>2
<1>4. CASE \E e \in Entities, to \in Places, d \in Durations, way \in Arguments(MotionClips),
              followup \in FollowUps :
             WalkAsync(e, to, d, way, followup) \/ WalkAndWait(e, to, d, way, followup)
  BY <1>3, <1>4 DEF WalkAsync, WalkAndWait
<1>5. CASE \E e \in Entities, to \in Places, d \in Durations : GlideAsync(e, to, d) \/ GlideAndWait(e, to, d)
  BY <1>2, <1>5 DEF GlideAsync, GlideAndWait, Glide
<1>6. CASE (\E e \in Entities, p \in Places : SetPosV(e, p)) \/ (\E e \in Entities : MoveWait(e)) \/ MoveWaitAll
  BY <1>2, <1>6 DEF SetPosV, MoveWait, MoveWaitAll, sceneVars
<1> QED
  BY <1>4, <1>5, <1>6 DEF MoveNatives

LEMMA AnimationNativesShow == ASSUME IInv, ShowInv, AnimationNatives PROVE ShowInv'
<1>0. /\ clock \in Nat
      /\ \A e \in Entities : anim[e] \in Animations /\ Shows(anim[e], deferred[e], clock)
      /\ WaitsForAction
  BY DEF IInv, ClockTypes, SceneInv, SceneTypes, ShowInv
<1>1. ASSUME NEW e \in Entities, NEW track \in Arguments(ActionClips), PlaysAction(e, track)
      PROVE  ShowInv'
  <2> DEFINE b == PlayAction(anim[e], track, clock)
             d == IF anim[e].active THEN deferred[e] ELSE NoClip
  <2>1. Shows(b, d, clock)
    BY <1>0, Arguing, PlayActionShows
  <2>2. anim' = [anim EXCEPT ![e] = b] /\ deferred' = [deferred EXCEPT ![e] = d]
    BY <1>1 DEF PlaysAction
  <2>3. WaitsForAction' /\ clock' = clock
    BY <1>1, NoActionAwaited DEF PlaysAction
  <2> HIDE DEF b, d
  <2> QED
    BY <2>1, <2>2, <2>3, OneShows DEF ShowInv
<1>2. ASSUME NEW e \in Entities, NEW track \in Arguments(IdleClips), Idles(e, track), clock' = clock
      PROVE  \A x \in Entities : Shows(anim'[x], deferred'[x], clock')
  <2> DEFINE b == SetIdle(anim[e], track, clock)
             d == IF track.named /\ (anim[e].active \/ anim[e].token # 0) THEN track.clip ELSE NoClip
  <2>1. Shows(b, d, clock)
    BY <1>0, Arguing, SetIdleShows
  <2>2. anim' = [anim EXCEPT ![e] = b] /\ deferred' = [deferred EXCEPT ![e] = d]
    BY <1>2 DEF Idles
  <2> HIDE DEF b, d
  <2> QED
    BY <1>2, <2>1, <2>2, OneShows
<1>3. ASSUME NEW e \in Entities, NEW track \in Arguments(IdleClips), SetsIdle(e, track) \/ Turn(e, track)
      PROVE  ShowInv'
  <2>1. WaitsForAction' /\ clock' = clock
    BY <1>3, NoActionAwaited DEF SetsIdle, Turn
  <2> QED
    BY <1>2, <1>3, <2>1 DEF SetsIdle, Turn, ShowInv
<1>4. ASSUME NEW e \in Entities, NEW c \in IdleClips, SetsIndex(e, c) PROVE ShowInv'
  <2> DEFINE b == PlayIndex(anim[e], c, clock)
  <2>1. Shows(b, NoClip, clock)
    BY <1>0, Arguing, PlayIndexShows
  <2>2. anim' = [anim EXCEPT ![e] = b] /\ deferred' = [deferred EXCEPT ![e] = NoClip]
    BY <1>4 DEF SetsIndex
  <2>3. WaitsForAction' /\ clock' = clock
    BY <1>4, NoActionAwaited DEF SetsIndex
  <2> HIDE DEF b
  <2> QED
    BY <2>1, <2>2, <2>3, OneShows DEF ShowInv
<1>5. ASSUME NEW e \in Entities, ActionWait(e) PROVE ShowInv'
  <2>1. /\ clock' = clock /\ anim' = anim /\ deferred' = deferred
        /\ alarm' = clock + ActionRemaining(anim[e], clock)
        /\ parked' = [kind |-> "action", who |-> e]
        /\ ActionRemaining(anim[e], clock) > 0
    BY <1>5 DEF ActionWait, Parks, Sleep, For, sceneVars
  <2>2. alarm' = anim[e].actionEnd
    BY <1>0, <2>1 DEF ActionRemaining, Animations
  <2>3. anim[e].actionEnd \in Nat
    BY <1>0 DEF Animations
  <2>4. WaitsForAction'
    BY <2>1, <2>2, <2>3 DEF WaitsForAction
  <2> QED
    BY <1>0, <2>1, <2>4 DEF ShowInv
<1>6. ASSUME NEW e \in Entities, AnimationWait(e) PROVE ShowInv'
  <2>1. WaitsForAction' /\ clock' = clock
    BY <1>6, NoActionAwaited DEF AnimationWait
  <2> QED
    BY <1>0, <1>6, <2>1 DEF AnimationWait, ShowInv, sceneVars
<1> QED
  BY <1>1, <1>3, <1>4, <1>5, <1>6 DEF AnimationNatives

\* A frame ends what is over in it, the action a script waits for included.
LEMMA FrameShows ==
  ASSUME IInv, ShowInv, Frame
  PROVE  /\ ShowInv'
         /\ phase = "sleep" /\ parked.kind = "action" /\ phase' = "run" => ~anim'[parked.who].active
<1>1. /\ clock' = clock + 1 /\ clock' \in Nat /\ alarm' = alarm /\ alarm \in Nat /\ deferred' = deferred
      /\ phase' = IF clock' >= alarm THEN "run" ELSE "sleep"
      /\ parked' = IF phase' = "run" THEN Awake ELSE parked
  BY DEF Frame, Tick, IInv, ClockTypes
<1>2. ASSUME NEW e \in Entities
      PROVE  /\ Shows(anim'[e], deferred'[e], clock')
             /\ anim'[e].active => /\ anim[e].active /\ anim'[e].actionEnd = anim[e].actionEnd
                                   /\ clock' < anim[e].actionEnd
  <2> DEFINE a == IF Arrives(moves[e], clock')
                    THEN FinishMotion(anim[e], moves[e].token, moves[e].followup, clock')
                    ELSE anim[e]
  <2>1. /\ anim[e] \in Animations /\ moves[e].token \in Nat /\ moves[e].followup \in Tracks
        /\ moves[e].followup \in FollowUps \cup {NoTrack}
        /\ (anim[e].token = 0 => anim[e].motionEnd = 0)
        /\ ContinuationsKnown(anim[e]) /\ Keeps(anim[e], deferred[e])
    BY DEF IInv, SceneInv, SceneTypes, Movements, MotionOwnership, MovesIssued, ShowInv, Shows
  <2>2. /\ a \in Animations /\ (a.token = 0 => a.motionEnd = 0)
        /\ a.active = anim[e].active /\ a.actionEnd = anim[e].actionEnd
        /\ ContinuationsKnown(a) /\ Keeps(a, deferred[e])
    <3>1. CASE Arrives(moves[e], clock')
      <4> DEFINE b == FinishMotion(anim[e], moves[e].token, moves[e].followup, clock')
      <4>1. a = b
        BY <3>1
      <4>2. b \in Animations /\ (b = anim[e] \/ (b.token = 0 /\ b.motionEnd = 0))
        BY <1>1, <2>1, FinishMotionTyped
      <4>3. /\ b.active = anim[e].active /\ b.actionEnd = anim[e].actionEnd
            /\ ContinuationsKnown(b) /\ Keeps(b, deferred[e])
        BY <1>1, <2>1, FinishMotionShows
      <4> HIDE DEF a, b
      <4> QED
        BY <2>1, <4>1, <4>2, <4>3
    <3>2. CASE ~Arrives(moves[e], clock')
      BY <2>1, <3>2
    <3> QED
      BY <3>1, <3>2
  <2>3. anim'[e] = AdvanceClip(a, clock')
    BY DEF Frame
  <2> HIDE DEF a
  <2> QED
    BY <1>1, <2>2, <2>3, AdvanceShows
<1>3. phase = "sleep"
  BY DEF Frame, Tick
<1>4. ASSUME parked.kind = "action"
      PROVE  /\ parked.who \in Entities
             /\ anim'[parked.who].active => anim'[parked.who].actionEnd <= alarm /\ clock' < alarm
  <2>1. parked.who \in Entities /\ (anim[parked.who].active => anim[parked.who].actionEnd <= alarm)
    BY <1>3, <1>4 DEF ShowInv, WaitsForAction
  <2>2. anim[parked.who].actionEnd \in Nat
    BY <2>1 DEF IInv, SceneInv, SceneTypes, Animations
  <2> QED
    BY <1>1, <1>2, <2>1, <2>2
<1>5. WaitsForAction'
  BY <1>1, <1>4 DEF WaitsForAction
<1>6. parked.kind = "action" /\ phase' = "run" => ~anim'[parked.who].active
  BY <1>1, <1>4
<1> QED
  BY <1>2, <1>5, <1>6 DEF ShowInv

LEMMA NextShow == IInv /\ ShowInv /\ [Next]_vars => ShowInv'
<1> SUFFICES ASSUME IInv, ShowInv, [Next]_vars PROVE ShowInv'
  OBVIOUS
<1>1. ASSUME UNCHANGED <<clock, anim, deferred>>, WaitsForAction' PROVE ShowInv'
  BY <1>1 DEF ShowInv
<1>2. CASE OtherWait
  <2>1. WaitsForAction' /\ clock' = clock
    BY <1>2, NoActionAwaited DEF OtherWait
  <2> QED
    BY <1>1, <1>2, <2>1 DEF OtherWait, sceneVars
<1>3. CASE Start
  <2>1. Shows(Fresh, NoClip, 0)
    BY DEF Shows, Settled, Keeps, ContinuationsKnown, Fresh
  <2>2. WaitsForAction' /\ clock' = 0
    BY <1>3 DEF Start, Begin, WaitsForAction
  <2> QED
    BY <1>3, <2>1, <2>2 DEF Start, ShowInv
<1>4. CASE End
  <2>1. WaitsForAction' /\ clock' = clock
    BY <1>4 DEF End, Return, Halt, WaitsForAction
  <2> QED
    BY <1>1, <1>4, <2>1 DEF End, sceneVars
<1>5. CASE UNCHANGED vars
  BY <1>1, <1>5 DEF vars, clockVars, sceneVars, WaitsForAction, ShowInv
<1> QED
  BY <1>2, <1>3, <1>4, <1>5, MoveNativesShow, AnimationNativesShow, FrameShows DEF Next

LEMMA ShowInvariance == Spec => []ShowInv
<1>1. Init => ShowInv
  BY DEF Init, ClockInit, ShowInv, WaitsForAction, Shows, Settled, Keeps, ContinuationsKnown, Fresh
<1> QED
  BY <1>1, NextShow, Invariance, PTL DEF Spec

\* Another Registry::advance() in the same frame (flush_keyframe(), registry.cpp:777) ends
\* nothing: recording a run does not change what it shows.
THEOREM RecordingIsPassive == Spec => []ClipsSettled
<1>1. ShowInv => ClipsSettled
  BY DEF ShowInv, Shows, Settled, ClipsSettled, AdvanceClip, EndAction, EndMotionClip
<1> QED
  BY <1>1, ShowInvariance, PTL

\* An idle asked for while an action or a motion was on is shown when the entity has neither any
\* more, unless the last of them has a continuation or the movement a track to follow it
\* (set_idle(), play_action(), begin_motion(), finish_motion(), advance(), animation.hpp).  Only
\* an action played during a motion drops it: the clip on show then is the idle to come.
THEOREM DeferredIdles == Spec => []DeferredIdleShown
<1>1. ShowInv => DeferredIdleShown
  <2> SUFFICES ASSUME ShowInv, NEW e \in Entities, deferred[e] # NoClip, ~anim[e].active, anim[e].token = 0
               PROVE  anim[e].track.clip \in {deferred[e]} \cup {Successor[c] : c \in Clips}
                                              \cup {followup.clip : followup \in {t \in FollowUps : t.named}}
    BY DEF DeferredIdleShown
  <2>1. Keeps(anim[e], deferred[e])
    BY DEF ShowInv, Shows
  <2> QED
    BY <2>1 DEF Keeps, Successors, Continuations
<1> QED
  BY <1>1, ShowInvariance, PTL

\* DrActionWait returns when the intro it waits for is over.
THEOREM ActionsAreOver == Spec => ActionOver
<1>1. ASSUME IInv, ShowInv, [Next]_vars, Wakes, parked.kind = "action"
      PROVE  ~anim'[parked.who].active
  <2>1. CASE Frame
    BY <1>1, <2>1, FrameShows DEF Wakes
  <2>2. CASE ~Frame
    BY <1>1, <2>2 DEF Next, Wakes, MoveNatives, AnimationNatives, GlideAsync, GlideAndWait, WalkAsync,
       WalkAndWait, SetPosV, MoveWait, MoveWaitAll, PlaysAction, SetsIdle, Turn, SetsIndex, ActionWait,
       AnimationWait, OtherWait, Start, Begin, End, Return, Halt, Running, Stays, Parks, Sleep, vars,
       clockVars
  <2> QED
    BY <2>1, <2>2
<1>2. IInv /\ ShowInv /\ [Next]_vars => [Wakes /\ parked.kind = "action" => ~anim'[parked.who].active]_vars
  BY <1>1
<1> QED
  BY <1>2, Invariance, ShowInvariance, PTL DEF Spec, ActionOver

=============================================================================
