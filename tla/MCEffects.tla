------------------------------ MODULE MCEffects ------------------------------
(* Effects: one that lasts, one that deletes itself after a frame, one whose  *)
(* track has no frames, and one whose asset is missing.                      *)
EXTENDS Effects

FewCues == {
  [at |-> 0, loads |-> TRUE, length |-> 1, autoDelete |-> FALSE],
  [at |-> 3, loads |-> TRUE, length |-> 1, autoDelete |-> TRUE],
  [at |-> 0, loads |-> TRUE, length |-> 0, autoDelete |-> TRUE],
  [at |-> 3, loads |-> FALSE, length |-> 1, autoDelete |-> TRUE]}

=============================================================================
