------------------------------ MODULE Movement ------------------------------
(***************************************************************************)
(* Entities that move and are animated (registry_movement.cpp,              *)
(* registry_animation.cpp and the part of Registry::advance() that steps     *)
(* them): the natives a script calls in a frame, the table _moves of running *)
(* movements, and the natives that park the script until a movement or an    *)
(* animation is over.                                                        *)
(*                                                                         *)
(* A position is a place the script named, or Between two of them.  The      *)
(* duration a native computes from distance and speed is any duration.       *)
(***************************************************************************)
EXTENDS ScriptClock, Animation

CONSTANTS
  Entities,      \* created by the script in its first frame
  Places,        \* where natives put entities
  Between,       \* on the way
  Durations,     \* frames a movement takes
  MotionClips,   \* clips the movement natives are given for the way
  FollowUps,     \* tracks they are given to follow it, NoTrack for the empty string
  ActionClips,   \* clips passed to DrAnimation
  IdleClips,     \* clips passed to DrSetIdleAnimation and SetSpriteMoneAnimation
  MaxClock,      \* bound: frames
  MaxTokens      \* bound: motions begun

ASSUME MovementAssumption ==
  /\ Between \notin Places /\ Places # {}
  /\ Durations \subseteq 1..LongestWait
  /\ FollowUps \subseteq Tracks
  /\ MotionClips \subseteq Indices /\ ActionClips \subseteq Indices /\ IdleClips \subseteq Indices
  /\ \A c \in Clips : Frames[c] <= LongestWait /\ Intro[c] <= LongestWait
  /\ MaxClock \in Nat /\ MaxTokens \in Nat

VARIABLES
  pos,         \* RuntimeEntity::pos
  anim,        \* the animation record of each entity
  moves,       \* Registry::_moves, NoMove for an entity that has none
  nextToken,   \* AnimationController::_next_token
  parked,      \* what the sleeping script waits for
  deferred     \* history: the idle last asked for while an action or a motion was on

sceneVars == <<pos, anim, moves, nextToken, deferred>>
vars == <<clockVars, sceneVars, parked>>

NoMove == [on |-> FALSE, from |-> Between, to |-> Between, f0 |-> 0, f1 |-> 0,
           token |-> 0, followup |-> NoTrack]

\* An animation argument: the empty string, or a name that resolves to one of `clips`.
Arguments(clips) == {NoTrack} \cup {Track(c) : c \in clips}

Awake == [kind |-> "nothing", who |-> "none"]
For(kind, who) == [kind |-> kind, who |-> who]

-----------------------------------------------------------------------------
Init ==
  /\ ClockInit
  /\ pos = [e \in Entities |-> CHOOSE p \in Places : TRUE]
  /\ anim = [e \in Entities |-> Fresh]
  /\ moves = [e \in Entities |-> NoMove]
  /\ nextToken = 1
  /\ parked = Awake
  /\ deferred = [e \in Entities |-> NoClip]

Running == phase = "run"
Stays == UNCHANGED <<clockVars, parked>>
Parks(n, kind, who) == Sleep(n) /\ parked' = For(kind, who)

(***************************************************************************)
(* Movements.  The table holds one movement per entity: a new one replaces   *)
(* the old one where the entity stands.                                     *)
(***************************************************************************)
Begins(e, to, d, token, followup) ==
  moves' = [moves EXCEPT ![e] = [on |-> TRUE, from |-> pos[e], to |-> to, f0 |-> clock,
                                 f1 |-> clock + d, token |-> token, followup |-> followup]]

\* Move, MoveAbs, DrJumpAsync, DrUiSetPosV with a time, FlAddSymbolAiMove.
Glide(e, to, d) ==
  /\ Begins(e, to, d, 0, NoTrack)
  /\ UNCHANGED <<pos, anim, nextToken, deferred>>

GlideAsync(e, to, d) == Running /\ Glide(e, to, d) /\ Stays

\* DrJump, MoveAbsByTime, MoveBack, MoveBackAbs, MoveBackAbsByTime.
GlideAndWait(e, to, d) == Glide(e, to, d) /\ Parks(d, "move", e)

\* Mutant: the token is used again.
WalkSameToken(e, to, d, way, followup) ==
  IF way.named
    THEN /\ anim' = [anim EXCEPT ![e] = BeginMotion(@, way, nextToken, clock)]
         /\ Begins(e, to, d, nextToken, followup)
         /\ UNCHANGED <<pos, nextToken, deferred>>
    ELSE Glide(e, to, d)

\* DrMove*, DrShortMove*, DrMoveAbsByTimeAsync: a movement with an animation for the way
\* (none when the string is empty) and one to follow it.
Walk(e, to, d, way, followup) ==
  IF way.named
    THEN /\ nextToken <= MaxTokens
         /\ anim' = [anim EXCEPT ![e] = BeginMotion(@, way, nextToken, clock)]
         /\ Begins(e, to, d, nextToken, followup)
         /\ nextToken' = nextToken + 1
         /\ UNCHANGED <<pos, deferred>>
    ELSE Glide(e, to, d)

WalkAsync(e, to, d, way, followup) == Running /\ Walk(e, to, d, way, followup) /\ Stays

WalkAndWait(e, to, d, way, followup) ==
  Walk(e, to, d, way, followup) /\ Parks(d, "move", e)

\* Mutant: the movement is not erased.
SetPosVOnly(e, p) ==
  /\ Running
  /\ pos' = [pos EXCEPT ![e] = p]
  /\ UNCHANGED <<moves, anim, nextToken, deferred>>
  /\ Stays

\* SetPosV, DrSetPosV, SetSpritePosV, DrUiSetPosV without a time.
SetPosV(e, p) ==
  /\ Running
  /\ pos' = [pos EXCEPT ![e] = p]
  /\ moves' = [moves EXCEPT ![e] = NoMove]
  /\ UNCHANGED <<anim, nextToken, deferred>>
  /\ Stays

Remaining(e) == IF moves[e].on THEN moves[e].f1 - clock ELSE 0

\* MoveWait compares its argument with the keys of _moves, which are the names entities
\* were created with: for an alias, as for an entity at rest, it returns at once.
MoveWait(e) ==
  /\ Remaining(e) > 0
  /\ Parks(Remaining(e), "named", e)
  /\ UNCHANGED sceneVars

\* Mutant: waits for one of them.
MoveWaitOne ==
  /\ \E e \in Entities : Remaining(e) > 0 /\ Parks(Remaining(e), "all", "none")
  /\ UNCHANGED sceneVars

MoveWaitAll ==
  /\ \E e \in Entities :
       /\ Remaining(e) > 0
       /\ \A other \in Entities : Remaining(other) <= Remaining(e)
       /\ Parks(Remaining(e), "all", "none")
  /\ UNCHANGED sceneVars

-----------------------------------------------------------------------------
(***************************************************************************)
(* Animations.                                                              *)
(***************************************************************************)
\* DrAnimation, DrAnimationAsync.  An action played over no other one takes the clip on show for
\* the idle, that of a motion too: an idle put off until the motion ends is dropped.
PlaysAction(e, track) ==
  /\ Running /\ track.named
  /\ anim' = [anim EXCEPT ![e] = PlayAction(@, track, clock)]
  /\ deferred' = [deferred EXCEPT ![e] = IF anim[e].active THEN @ ELSE NoClip]
  /\ UNCHANGED <<pos, moves, nextToken>>
  /\ Stays

Idles(e, track) ==
  /\ anim' = [anim EXCEPT ![e] = SetIdle(@, track, clock)]
  /\ deferred' = [deferred EXCEPT ![e] =
                    IF track.named /\ (anim[e].active \/ anim[e].token # 0)
                      THEN track.clip ELSE NoClip]
  /\ UNCHANGED <<pos, moves, nextToken>>

\* DrSetIdleAnimation.
SetsIdle(e, track) == Running /\ Idles(e, track) /\ Stays

\* DrTurn: an idle animation, and a wait for as long as the clip on show is.
Turn(e, track) ==
  /\ Idles(e, track)
  /\ LET wait == Duration(anim'[e].track.clip)
     IN  IF wait > 0 THEN Parks(wait, "turn", e) ELSE Running /\ Stays

\* SetSpriteMoneAnimation, SetSpriteMoneAnimationPaused, DrUiSetAnimation.
SetsIndex(e, c) ==
  /\ Running
  /\ anim' = [anim EXCEPT ![e] = PlayIndex(@, c, clock)]
  /\ deferred' = [deferred EXCEPT ![e] = NoClip]
  /\ UNCHANGED <<pos, moves, nextToken>>
  /\ Stays

ActionWait(e) ==
  /\ ActionRemaining(anim[e], clock) > 0
  /\ Parks(ActionRemaining(anim[e], clock), "action", e)
  /\ UNCHANGED sceneVars

\* WaitSpriteMoneAnimationEnd, DrAnimationWait: what is left of the clip on show.
AnimationWait(e) ==
  /\ LET left == Duration(anim[e].track.clip) - (clock - anim[e].since)
     IN  left > 0 /\ Parks(left, "clip", e)
  /\ UNCHANGED sceneVars

-----------------------------------------------------------------------------
(***************************************************************************)
(* One frame of Registry::advance(): every movement is evaluated, the ones   *)
(* that have arrived are erased and finish their motion, and then every      *)
(* animation advances.                                                       *)
(***************************************************************************)
Arrives(m, f) == m.on /\ f >= m.f1

\* Where movement m puts its entity in frame f.
Whereabouts(m, f) == IF Arrives(m, f) THEN m.to
                     ELSE IF f = m.f0 \/ m.from = m.to THEN m.from ELSE Between

\* A keyframe is recorded after another advance() in the same frame, which changes nothing:
\* OnPath and ClipsSettled say so.
Frame ==
  /\ clock < MaxClock
  /\ Tick
  /\ pos' = [e \in Entities |-> IF moves[e].on THEN Whereabouts(moves[e], clock') ELSE pos[e]]
  /\ anim' = [e \in Entities |->
                AdvanceClip(IF Arrives(moves[e], clock')
                              THEN FinishMotion(anim[e], moves[e].token, moves[e].followup, clock')
                              ELSE anim[e],
                            clock')]
  /\ moves' = [e \in Entities |-> IF Arrives(moves[e], clock') THEN NoMove ELSE moves[e]]
  /\ parked' = IF phase' = "run" THEN Awake ELSE parked
  /\ UNCHANGED <<nextToken, deferred>>

\* Any other native that parks the script.
OtherWait ==
  /\ \E n \in 1..LongestWait : Parks(n, "frames", "none")
  /\ UNCHANGED sceneVars

\* RuntimeSession::start(): Registry::reset(), and the script creates its entities anew.
Start ==
  /\ Begin
  /\ pos' = [e \in Entities |-> CHOOSE p \in Places : TRUE]
  /\ anim' = [e \in Entities |-> Fresh]
  /\ moves' = [e \in Entities |-> NoMove]
  /\ nextToken' = 1
  /\ parked' = Awake
  /\ deferred' = [e \in Entities |-> NoClip]

End == (Return \/ Halt) /\ UNCHANGED <<sceneVars, parked>>

MoveNatives ==
  \/ \E e \in Entities, to \in Places, d \in Durations :
       GlideAsync(e, to, d) \/ GlideAndWait(e, to, d)
  \/ \E e \in Entities, to \in Places, d \in Durations,
        way \in Arguments(MotionClips), followup \in FollowUps :
       WalkAsync(e, to, d, way, followup) \/ WalkAndWait(e, to, d, way, followup)
  \/ \E e \in Entities, p \in Places : SetPosV(e, p)
  \/ \E e \in Entities : MoveWait(e)
  \/ MoveWaitAll

AnimationNatives ==
  \/ \E e \in Entities, track \in Arguments(ActionClips) : PlaysAction(e, track)
  \/ \E e \in Entities, track \in Arguments(IdleClips) : SetsIdle(e, track) \/ Turn(e, track)
  \/ \E e \in Entities, c \in IdleClips : SetsIndex(e, c)
  \/ \E e \in Entities : ActionWait(e) \/ AnimationWait(e)

Next == MoveNatives \/ AnimationNatives \/ Frame \/ OtherWait \/ Start \/ End

Spec == Init /\ [][Next]_vars

-----------------------------------------------------------------------------
Animations ==
  [track : Tracks, since : Nat, idle : Tracks,
   token : Nat, motionEnd : Nat, motionNext : Indices,
   active : BOOLEAN, actionEnd : Nat, actionNext : Indices]

Movements ==
  [on : BOOLEAN, from : Places \cup {Between}, to : Places \cup {Between}, f0 : Nat, f1 : Nat,
   token : Nat, followup : Tracks]

\* Every entity stands somewhere and shows something; a movement takes at least a frame.
TypeOK ==
  /\ clock \in Nat /\ alarm \in Nat /\ phase \in Phases
  /\ pos \in [Entities -> Places \cup {Between}]
  /\ anim \in [Entities -> Animations]
  /\ moves \in [Entities -> Movements]
  /\ \A e \in Entities : moves[e].on => moves[e].to \in Places /\ moves[e].f0 < moves[e].f1
  /\ nextToken \in Nat \ {0}
  /\ deferred \in [Entities -> Indices]

\* A moving entity is on its path, and starts where it stood: nothing puts it elsewhere
\* and leaves the movement to drag it back, and evaluating the movement once more in the
\* same frame (flush_keyframe(), registry.cpp:777) does not move it.  An entity that does
\* not move stands on a place.
OnPath ==
  \A e \in Entities :
    IF moves[e].on
      THEN clock < moves[e].f1 /\ pos[e] = Whereabouts(moves[e], clock)
      ELSE pos[e] # Between

\* Recording is passive: another advance() in the same frame ends no action and no motion
\* clip, so a recorded run (Host::run) shows what an unrecorded one (the viewer) shows.
ClipsSettled == \A e \in Entities : AdvanceClip(anim[e], clock) = anim[e]

\* A motion belongs to one entity, and a movement can only end the motion it began: the
\* token of a movement is its entity's, or one that no entity holds any more
\* (animation.hpp:93, 131; the test "animation controller tracks motion ownership").
MotionOwnership ==
  \A e \in Entities :
    /\ anim[e].token < nextToken
    /\ anim[e].token = 0 => anim[e].motionEnd = 0
    /\ moves[e].token # 0 => anim[e].token \in {0, moves[e].token}
    /\ \A other \in Entities \ {e} :
         anim[e].token # 0 => /\ anim[other].token # anim[e].token
                              /\ moves[other].token # anim[e].token

\* An idle asked for while an action or a motion was on is shown when the entity has neither
\* any more, however many actions, motions and movements came on top of one another meanwhile,
\* unless the last one has a continuation of its own or the movement a track to follow it (the
\* test "async animation actions defer their idle track").  The one thing that drops it is an
\* action played during a motion (animation.hpp:69).
DeferredIdleShown ==
  \A e \in Entities :
    deferred[e] # NoClip /\ ~anim[e].active /\ anim[e].token = 0 =>
      anim[e].track.clip \in {deferred[e]} \cup {Successor[c] : c \in Clips}
                             \cup {followup.clip : followup \in {t \in FollowUps : t.named}}

\* A script that waited for a movement finds the entity at its goal, one that waited for
\* all of them finds nothing moving.
Wakes == phase = "sleep" /\ phase' = "run" /\ clock' # 0
MovesOver ==
  [][Wakes => /\ parked.kind \in {"move", "named"} =>
                   /\ ~moves'[parked.who].on
                   /\ pos'[parked.who] = moves[parked.who].to
              /\ parked.kind = "all" => \A e \in Entities : ~moves'[e].on]_vars

\* DrActionWait returns when the intro is over, not in the frame before its end.
ActionOver == [][Wakes /\ parked.kind = "action" => ~anim'[parked.who].active]_vars

=============================================================================
