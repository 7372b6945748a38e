-------------------------- MODULE MCScenePlayback --------------------------
(* Command lines for scenes of a few frames. *)
EXTENDS ScenePlayback

Viewer(captures, probes, hold, picture) ==
  [driver |-> "viewer", captures |-> captures, probes |-> probes, hold |-> hold, picture |-> picture]
Headless(probes, hold) ==
  [driver |-> "headless", captures |-> {}, probes |-> probes, hold |-> hold, picture |-> 0]

SomePlans ==
  { Viewer({}, {}, -1, 0), Viewer({}, {}, -1, 2), Viewer({}, {}, 3, 0), Viewer({}, {}, 2, 1),
    Viewer({1, 3}, {}, -1, 0), Viewer({0, 4}, {}, 2, 0), Viewer({}, {0, 3}, -1, 0),
    Viewer({}, {2, 4}, -1, 0), Viewer({1, 3}, {1, 3}, -1, 0), Viewer({2, 4}, {1, 3}, -1, 0),
    Viewer({}, {0, 3}, -1, 2), Viewer({1, 3}, {}, -1, 2),
    Headless({}, -1), Headless({0, 2}, -1), Headless({1, 4}, 3), Headless({2, 7}, 3) }

=============================================================================
