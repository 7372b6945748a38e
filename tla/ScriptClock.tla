---------------------------- MODULE ScriptClock ----------------------------
(***************************************************************************)
(* What a RuntimeSession promises the scene it drives, without contexts,    *)
(* step budgets, error texts or keyframes: a clock counted in frames and    *)
(* one script that runs only while the clock stands still, goes to sleep    *)
(* for a positive number of frames, and is resumed in exactly the frame it   *)
(* asked for.  RuntimeSession implements this module; the modules about     *)
(* parts of the scene are built on it.                                      *)
(***************************************************************************)
EXTENDS Integers

CONSTANT LongestWait    \* the longest wait a native asks for, in frames

ASSUME LongestWaitAssumption == LongestWait \in Nat \ {0}

VARIABLES
  clock,    \* the scene frame
  alarm,    \* the frame the sleeping script is resumed in; 0 when it was abandoned
  phase     \* "unborn", "run", "sleep", "over" (returned or failed), "halted" (frame cap)

clockVars == <<clock, alarm, phase>>

Phases == {"unborn", "run", "sleep", "over", "halted"}

ClockInit ==
  /\ clock = 0
  /\ alarm = 0
  /\ phase = "unborn"

\* A script is started, or started over, in frame 0.
Begin ==
  /\ phase # "run"
  /\ clock' = 0
  /\ alarm' = 0
  /\ phase' = "run"

Sleep(n) ==
  /\ phase = "run"
  /\ phase' = "sleep"
  /\ alarm' = clock + n
  /\ UNCHANGED clock

Return ==
  /\ phase = "run"
  /\ phase' = "over"
  /\ UNCHANGED <<clock, alarm>>

\* One frame.  The script runs again in the frame of its alarm, in no other.
Tick ==
  /\ phase = "sleep"
  /\ clock' = clock + 1
  /\ phase' = IF clock + 1 >= alarm THEN "run" ELSE "sleep"
  /\ UNCHANGED alarm

Halt ==
  /\ phase = "sleep"
  /\ phase' = "halted"
  /\ UNCHANGED <<clock, alarm>>

\* A start that fails after the scene was reset: a sleeping script keeps its phase
\* and its clock, but has lost its alarm.
Abandon ==
  /\ phase # "run"
  /\ alarm' = 0
  /\ UNCHANGED <<clock, phase>>

ClockNext ==
  \/ Begin
  \/ \E n \in 1..LongestWait : Sleep(n)
  \/ Return
  \/ Tick
  \/ Halt
  \/ Abandon

ClockSpec == ClockInit /\ [][ClockNext]_clockVars

=============================================================================
