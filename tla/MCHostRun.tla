----------------------------- MODULE MCHostRun -----------------------------
(* HostRun with waits of up to three frames and three lines per burst. *)
EXTENDS HostRun

=============================================================================
