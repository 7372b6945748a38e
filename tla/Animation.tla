----------------------------- MODULE Animation -----------------------------
(***************************************************************************)
(* asb::AnimationController (scarlett/animation.hpp): which clip an entity  *)
(* shows, and what replaces it.  A clip is selected as idle, as action (a   *)
(* one-shot intro that gives way to the idle) or as motion (owned by a      *)
(* movement through a token, and ended by it).                              *)
(*                                                                         *)
(* The module holds the controller's methods as functions of one entity's   *)
(* record: the fields of RuntimeEntity and of AnimationController::State    *)
(* that belong together.  RuntimeEntity's own idle and action fields always  *)
(* repeat the State's, and a missing State is one with default fields.  The *)
(* fields of an action or a motion that is off are never read; here they    *)
(* are 0 and NoClip.                                                        *)
(***************************************************************************)
EXTENDS Integers

CONSTANTS
  Clips,      \* tracks of the entities' assets
  NoClip,     \* track index -1
  Frames,     \* TrackInfo::duration_frames of a clip; 0 when it is not known
  Intro,      \* TrackInfo::action_frames
  Successor   \* TrackInfo::continuation_track of a one-shot clip, else NoClip

ASSUME AnimationAssumption ==
  /\ NoClip \notin Clips
  /\ Frames \in [Clips -> Nat] /\ Intro \in [Clips -> Nat]
  /\ Successor \in [Clips -> Clips \cup {NoClip}]
  /\ \A c \in Clips : Successor[c] # NoClip => Frames[c] > 0

Indices == Clips \cup {NoClip}

\* A track: its index, and whether it has a name.  Natives that take an index leave the
\* name as it was; a name the asset does not have resolves to NoClip.
Tracks  == [clip : Indices, named : BOOLEAN]
NoTrack == [clip |-> NoClip, named |-> FALSE]
Track(c) == [clip |-> c, named |-> TRUE]

\* info_for(): nothing is known of the track index -1.
Duration(c) == IF c \in Clips THEN Frames[c] ELSE 0
IntroOf(c)  == IF c \in Clips THEN Intro[c] ELSE 0
SuccessorOf(c) == IF c \in Clips THEN Successor[c] ELSE NoClip

Fresh == [track |-> NoTrack, since |-> 0, idle |-> NoTrack,
          token |-> 0, motionEnd |-> 0, motionNext |-> NoClip,
          active |-> FALSE, actionEnd |-> 0, actionNext |-> NoClip]

AtLeast1(n) == IF n > 1 THEN n ELSE 1

Apply(a, track, frame) == [a EXCEPT !.track = track, !.since = frame]

\* play_index(): selects an index, ends the motion and the action.
PlayIndex(a, c, frame) ==
  [a EXCEPT !.track.clip = c, !.since = frame,
            !.token = 0, !.motionEnd = 0, !.motionNext = NoClip,
            !.active = FALSE, !.actionEnd = 0, !.actionNext = NoClip]

\* play_idle() and set_idle(): shown at once unless an action or a motion is on.
SetIdle(a, track, frame) ==
  LET b == [a EXCEPT !.idle = track]
  IN  IF ~b.active /\ b.token = 0 THEN Apply(b, track, frame) ELSE b

\* Mutant: a clip without an intro is over at once.
PlayActionBarely(a, track, frame) ==
  [Apply(IF a.active THEN a ELSE [a EXCEPT !.idle = a.track], track, frame) EXCEPT
     !.active = TRUE, !.actionEnd = frame + IntroOf(track.clip),
     !.actionNext = SuccessorOf(track.clip)]

\* play_action(): the clip on show becomes the idle, unless it is an action's.
PlayAction(a, track, frame) ==
  LET b == Apply(IF a.active THEN a ELSE [a EXCEPT !.idle = a.track], track, frame)
      shown == IF IntroOf(track.clip) > 0 THEN IntroOf(track.clip) ELSE Duration(track.clip)
  IN  [b EXCEPT !.active = TRUE,
                !.actionEnd = frame + AtLeast1(shown),
                !.actionNext = SuccessorOf(track.clip)]

\* Mutant: the clip on show becomes the idle, also when there is one.
BeginMotionOver(a, track, token, frame) ==
  LET quiet == IF a.active THEN [a EXCEPT !.active = FALSE, !.actionEnd = 0, !.actionNext = NoClip]
               ELSE [a EXCEPT !.idle = a.track]
      next == SuccessorOf(track.clip)
  IN  [Apply(quiet, track, frame) EXCEPT
         !.token = token,
         !.motionEnd = IF next # NoClip THEN frame + AtLeast1(Duration(track.clip)) ELSE 0,
         !.motionNext = next]

\* begin_motion() for a track with a name; `token` is the controller's _next_token.
BeginMotion(a, track, token, frame) ==
  LET quiet == IF a.active THEN [a EXCEPT !.active = FALSE, !.actionEnd = 0, !.actionNext = NoClip]
               ELSE IF ~a.idle.named THEN [a EXCEPT !.idle = a.track] ELSE a
      next == SuccessorOf(track.clip)
  IN  [Apply(quiet, track, frame) EXCEPT
         !.token = token,
         !.motionEnd = IF next # NoClip THEN frame + AtLeast1(Duration(track.clip)) ELSE 0,
         !.motionNext = next]

\* finish_motion(): only the motion that still owns the entity is finished.
FinishMotion(a, token, followup, frame) ==
  IF token = 0 \/ a.token # token THEN a
  ELSE LET b == CASE followup.named        -> Apply(a, followup, frame)
                  [] ~followup.named /\ a.motionNext # NoClip
                                           -> Apply(a, Track(a.motionNext), frame)
                  [] ~followup.named /\ a.motionNext = NoClip /\ a.idle.named
                                           -> Apply(a, a.idle, frame)
                  [] OTHER                 -> a
       IN  [b EXCEPT !.token = 0, !.motionEnd = 0, !.motionNext = NoClip]

ActionRemaining(a, frame) ==
  IF a.active /\ a.actionEnd > frame THEN a.actionEnd - frame ELSE 0

\* Mutant: over a frame late.
EndActionLate(a, frame) ==
  IF ~a.active \/ frame <= a.actionEnd THEN a
  ELSE [Apply(a, a.idle, frame) EXCEPT !.active = FALSE, !.actionEnd = 0]

\* advance(), its first half: an action that is over gives way to its continuation or to
\* the idle.
EndAction(a, frame) ==
  IF ~a.active \/ frame < a.actionEnd THEN a
  ELSE LET b == IF a.actionNext # NoClip THEN Apply(a, Track(a.actionNext), frame)
                ELSE IF a.idle.named THEN Apply(a, a.idle, frame) ELSE a
       IN  [b EXCEPT !.active = FALSE, !.actionEnd = 0, !.actionNext = NoClip]

\* advance(), its second half: a one-shot motion that is over gives way to its continuation.
EndMotionClip(a, frame) ==
  IF a.motionEnd = 0 \/ frame < a.motionEnd THEN a
  ELSE LET b == IF a.motionNext # NoClip THEN Apply(a, Track(a.motionNext), frame) ELSE a
       IN  [b EXCEPT !.motionEnd = 0, !.motionNext = NoClip]

AdvanceClip(a, frame) == EndMotionClip(EndAction(a, frame), frame)

=============================================================================
