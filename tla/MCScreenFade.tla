---------------------------- MODULE MCScreenFade ----------------------------
(* ScreenFade with fades of one and two frames and three alphas. *)
EXTENDS ScreenFade

ShortTimes == {-1, 2}

=============================================================================
