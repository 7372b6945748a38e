-------------------------- MODULE MCSpritePlayback --------------------------
(* A one-shot clip with a jump, an idle whose loop has an intro and that has  *)
(* a run that plays once up to an end mark, and a clip with an empty run.     *)
EXTENDS SpritePlayback

Shown(n) == [ticks |-> n, jump |-> FALSE, target |-> 0, last |-> FALSE,
             visible |-> TRUE, textured |-> TRUE]
Blank(n) == [Shown(n) EXCEPT !.visible = FALSE]
Plate(n) == [Shown(n) EXCEPT !.textured = FALSE]
EndMark  == [Blank(1) EXCEPT !.last = TRUE]
Jump(n, target) == [Shown(n) EXCEPT !.jump = TRUE, !.target = target]
Run(entries, start, intro, once) ==
  [entries |-> entries, start |-> start, intro |-> intro, once |-> once]

Idle == [oneShot |-> FALSE,
         runs |-> <<Run(<<Shown(2), Shown(1), Blank(2)>>, 0, 2, FALSE),
                    Run(<<Shown(1), Blank(2), EndMark>>, 0, 0, TRUE),
                    Run(<<Blank(1), Plate(2), EndMark>>, 1, 0, TRUE)>>]
Clip == [oneShot |-> TRUE,
         runs |-> <<Run(<<Shown(1), Shown(3)>>, 0, 0, FALSE),
                    Run(<<Shown(2), Jump(1, 7), Blank(1)>>, 0, 0, FALSE),
                    Run(<<Shown(1), Jump(1, 0)>>, 0, 0, TRUE)>>]
Poof == [oneShot |-> FALSE,
         runs |-> <<Run(<<Shown(3), Blank(2)>>, 1, 0, TRUE),
                    Run(<<>>, 0, 0, FALSE),
                    Run(<<Shown(1), Jump(2, -1)>>, 1, 0, FALSE)>>]
Lone == [oneShot |-> FALSE, runs |-> <<Run(<<Shown(1), Blank(1), EndMark>>, 0, 0, TRUE)>>]

MCTracks == <<Idle, Clip, Poof, Lone>>
=============================================================================
