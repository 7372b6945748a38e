------------------------------ MODULE MCCamera ------------------------------
(* Camera with two positions and two zooms, and tweens of two frames after a delay of one. *)
EXTENDS Camera

=============================================================================
