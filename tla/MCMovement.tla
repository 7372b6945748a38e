----------------------------- MODULE MCMovement -----------------------------
(* Movement with clips of one to three frames.  "rise" is a one-shot clip   *)
(* that goes on as "sit"; the others loop, "wave" after an intro of a frame. *)
EXTENDS Movement, TLC

CONSTANTS walk, wave, rise, sit, idle   \* clips

SomeClips == {walk, wave, rise, sit, idle}
ClipFrames == (walk :> 2) @@ (wave :> 3) @@ (rise :> 1) @@ (sit :> 2) @@ (idle :> 0)
ClipIntro == [c \in SomeClips |-> IF c = wave THEN 2 ELSE 0]
ClipSuccessor == [c \in SomeClips |-> IF c = rise THEN sit ELSE NoClip]

CONSTANTS actor, partner

OneEntity == {actor}
TwoEntities == {actor, partner}

SitOrNothing == {NoTrack, Track(sit)}
Nothing == {NoTrack}

=============================================================================
