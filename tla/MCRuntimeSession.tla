-------------------------- MODULE MCRuntimeSession --------------------------
(* RuntimeSession on small instances: waits of up to three frames, one line   *)
(* per burst, caps the clock can reach, a start and two restarts.             *)
EXTENDS RuntimeSession

=============================================================================
