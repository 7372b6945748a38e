----------------------------- MODULE MCMessages -----------------------------
(* Messages of one and two frames, up to three of them. *)
EXTENDS Messages

=============================================================================
