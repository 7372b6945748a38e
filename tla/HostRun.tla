------------------------------ MODULE HostRun ------------------------------
(***************************************************************************)
(* Host::run() (scarlett/src/host.cpp): the offline driver that plays one    *)
(* script function from beginning to end and returns what was recorded.  It  *)
(* owns a RuntimeSession, starts it once, and calls advance() in a loop.     *)
(***************************************************************************)
EXTENDS RuntimeSession

VARIABLES
  at,         \* where run() is: "entry", "starting", "loop", "returned"
  timeline    \* the keyframes it returned

runVars == <<vars, at, timeline>>

RunInit ==
  /\ Init
  /\ record = TRUE               \* set_record_keyframes(true)
  /\ at = "entry"
  /\ timeline = <<>>

\* session.start(fn): no prelude, and a function that may be null.
RunStarts ==
  /\ at = "entry"
  /\ StartNull \/ StartNoContext \/ StartMain
  /\ at' = "starting"
  /\ UNCHANGED timeline

\* The session is executing the script, in start() or in advance().
RunExecutes == Execute /\ UNCHANGED <<at, timeline>>

\* start() has returned.
RunFails ==
  /\ at = "starting" /\ pc = "idle"
  /\ result = "StartFailed"
  /\ at' = "returned"
  /\ timeline' = <<>>
  /\ UNCHANGED vars

RunEntersLoop ==
  /\ at = "starting" /\ pc = "idle"
  /\ result = "Started"
  /\ at' = "loop"
  /\ UNCHANGED <<vars, timeline>>

RunAdvances ==
  /\ at = "loop" /\ pc = "idle"
  /\ ~finished /\ ~limit
  /\ Advance
  /\ UNCHANGED <<at, timeline>>

RunReturns ==
  /\ at = "loop" /\ pc = "idle"
  /\ finished \/ limit
  /\ at' = "returned"
  /\ timeline' = keyframes       \* take_timeline()
  /\ UNCHANGED vars

RunNext ==
  \/ RunStarts \/ RunExecutes \/ RunFails \/ RunEntersLoop \/ RunAdvances \/ RunReturns

RunSpec == RunInit /\ [][RunNext]_runVars /\ WF_runVars(RunNext)

-----------------------------------------------------------------------------
\* run() comes back, whatever the script does: it is a sequence of calls that return.
ComesBack == <>(at = "returned")

\* What run() returns is the whole recording: nothing when start() failed, also when the
\* script failed after it had been recorded; else from frame 0 on, and when the script ran to
\* its end, with nothing of its last burst unrecorded.
TimelineWhole ==
  at = "returned" =>
    IF result = "StartFailed" THEN timeline = <<>>
    ELSE timeline # <<>> /\ timeline[1] = 0 /\ (finished => ~dirty)

=============================================================================
