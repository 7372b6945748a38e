--------------------------- MODULE ScenePlayback ---------------------------
(***************************************************************************)
(* The two programs that drive a session for a user: the viewer (the loop   *)
(* of Engine::run over Scene and ScenePlayback, which steps in real time,   *)
(* holds a frame, or steps from one frame to be captured or probed to the   *)
(* next) and the run without a window (run_headless).                       *)
(*                                                                         *)
(* What a burst of the script does to the scene is left to the modules       *)
(* about the scene; files are written as a whole.                            *)
(***************************************************************************)
EXTENDS ScriptClock, FiniteSetsExt

CONSTANTS
  Plans,      \* command lines: driver, capture and probe frames, frame to hold (-1: none),
              \* renderings before the screenshot (0: no screenshot)
  Cap,        \* frame cap of the session, which headless sets from --max-frames
  MostOwed    \* the frames an iteration of the loop owes at most: 0.25 s of them

\* ScenePlayback's constructor and run_headless(): the last frame asked for.
Asked(p) == {p.hold} \cup p.captures \cup p.probes
LastAsked(p) == Max(Asked(p))

ASSUME PlaybackAssumption ==
  /\ \A p \in Plans : /\ DOMAIN p = {"driver", "captures", "probes", "hold", "picture"}
                      /\ p.captures \cup p.probes \subseteq Nat /\ p.hold \in Nat \cup {-1}
                      /\ \E last \in Asked(p) : \A f \in Asked(p) : f <= last
                      /\ \/ p.driver = "viewer" /\ LastAsked(p) <= Cap
                         \/ p.driver = "headless" /\ p.captures = {}
  /\ Cap \in Nat \ {0} /\ MostOwed \in Nat

VARIABLES
  plan,       \* the command line
  pc,         \* where the driver is
  frame,      \* ScenePlayback::_frame
  owed,       \* whole frames in _accum
  held,       \* _stepped
  stop,       \* Engine::run(): the loop is to end
  captured,   \* frames captured
  allDone,    \* _captures_done
  taken,      \* the screenshot is written
  renders,    \* renderings so far, as far as they are counted
  probed,     \* ProbeWriter::_written
  failed,     \* history: those of them whose state or summary could not be opened, which is logged
  probing,    \* ProbeWriter::_enabled
  shown,      \* the frame last rendered, -1 if none
  user        \* history: the user closed the window

fileVars == <<captured, allDone, taken, renders, probed, failed, probing, shown>>
loopVars == <<plan, owed, held, stop, user>>
vars == <<clockVars, plan, pc, frame, owed, held, stop, fileVars, user>>

-----------------------------------------------------------------------------
Over == phase = "over"

CaptureMode == plan.captures # {}
ProbeMode == plan.probes # {} /\ ~CaptureMode

Hold == LastAsked(plan)

RealTime == ~CaptureMode /\ ~ProbeMode /\ plan.hold < 0

\* run_headless(): no further than the cap.
RunTo == IF Hold < 0 \/ Hold > Cap THEN Cap ELSE Hold

\* capture_target(), probe_target(): the first frame not yet written, or none.
ToWrite == IF CaptureMode THEN plan.captures \ captured ELSE plan.probes \ probed

ProbesDone == plan.probes # {} /\ (probing => plan.probes \subseteq probed)

\* Mutant: steps to the last frame asked for.
SteppingToLast ==
  IF CaptureMode \/ ProbeMode THEN ToWrite # {} /\ frame < Max(ToWrite)
  ELSE IF plan.hold >= 0 THEN ~held /\ frame < Hold
  ELSE owed > 0

\* Mutant: stops short of the frame to hold.
SteppingShort ==
  IF CaptureMode \/ ProbeMode THEN ToWrite # {} /\ frame < Min(ToWrite)
  ELSE IF plan.hold >= 0 THEN ~held /\ frame + 1 < Hold
  ELSE owed > 0

\* The loop conditions of update(), but for finished().
Stepping ==
  IF CaptureMode \/ ProbeMode THEN ToWrite # {} /\ frame < Min(ToWrite)
  ELSE IF plan.hold >= 0 THEN ~held /\ frame < Hold
  ELSE owed > 0

-----------------------------------------------------------------------------
Init ==
  /\ ClockInit
  /\ plan \in Plans
  /\ pc = "start"
  /\ frame = 0 /\ owed = 0 /\ held = FALSE /\ stop = FALSE /\ user = FALSE
  /\ captured = {} /\ allDone = FALSE /\ taken = FALSE /\ renders = 0
  /\ probed = {} /\ failed = {} /\ probing \in (IF plan.probes = {} THEN {FALSE} ELSE BOOLEAN) /\ shown = -1

\* GameRuntime::start(), up to the first burst.
Start ==
  /\ pc = "start"
  /\ Begin
  /\ pc' = "burst"
  /\ UNCHANGED <<frame, loopVars, fileVars>>

\* The files of a probe: one whose state or summary cannot be opened is written all the same.
WriteProbe(f) ==
  /\ probed' = probed \cup {f}
  /\ failed' \in {failed, failed \cup {f}}

\* run_headless() writes a probe as soon as the scene is in its frame.
Written(f) ==
  IF plan.driver = "headless" /\ probing /\ f \in plan.probes \ probed THEN WriteProbe(f)
  ELSE UNCHANGED <<probed, failed>>

\* An advance() has come back: the driver takes the frame over.
Arrives ==
  /\ frame' = clock'
  /\ Written(clock')
  /\ pc' = IF plan.driver = "headless" THEN "loop" ELSE IF pc = "burst" /\ clock' = 0 THEN "inputs" ELSE "update"
  /\ UNCHANGED <<loopVars, captured, allDone, taken, renders, probing, shown>>

\* The script waits, returns or throws: advance() calls all but the first "finished".
BurstEnds ==
  /\ pc = "burst"
  /\ \/ \E n \in 1..LongestWait : Sleep(n)
     \/ Return
  /\ Arrives

\* A script that throws in its first burst: start() fails, and with it the program.
StartFails ==
  /\ pc = "burst" /\ clock = 0
  /\ Return
  /\ pc' = "failed"
  /\ UNCHANGED <<frame, loopVars, fileVars>>

\* RuntimeSession::advance(), as far as a burst if there is one.
Advance ==
  \/ /\ clock < Cap
     /\ Tick
     /\ IF phase' = "run" THEN pc' = "burst" /\ UNCHANGED <<frame, fileVars>>
        ELSE /\ frame' = clock'
             /\ Written(clock')
             /\ UNCHANGED <<pc, captured, allDone, taken, renders, probing, shown>>
  \/ clock >= Cap /\ Halt /\ UNCHANGED <<pc, frame, fileVars>>
  \/ phase = "halted" /\ UNCHANGED <<clockVars, pc, frame, fileVars>>

\* ScenePlayback::step() in one of the loops of update().
Step ==
  /\ pc = "update"
  /\ Stepping /\ ~Over
  /\ Advance
  /\ owed' = IF RealTime THEN owed - 1 ELSE owed
  /\ UNCHANGED <<plan, held, stop, user>>

\* Mutant: every capture is given up when the scene has finished.
GivesUpAtEnd == CaptureMode /\ Over

\* A capture that the scene will not reach is given up, and those after it.
GivesUp == CaptureMode /\ Over /\ ToWrite # {} /\ frame < Min(ToWrite)

\* update() leaves its loop.
UpdateEnds ==
  /\ pc = "update"
  /\ ~Stepping \/ Over
  /\ allDone' = (allDone \/ GivesUp)
  /\ held' = (held \/ (~CaptureMode /\ ~ProbeMode /\ plan.hold >= 0))
  /\ pc' = "render"
  /\ UNCHANGED <<clockVars, plan, frame, owed, stop, user, captured, taken, renders, probed, failed, probing, shown>>

\* Mutant: a scene that has finished is not reported.
StopsWhenAllWritten ==
  \/ plan.picture > 0 /\ taken
  \/ CaptureMode /\ plan.captures \subseteq captured
  \/ plan.probes # {} /\ ProbesDone

\* Scene::handle_inputs(), apart from the user.
StopsByItself ==
  \/ plan.picture > 0 /\ taken
  \/ CaptureMode /\ allDone
  \/ plan.probes # {} /\ (ProbesDone \/ Over)

\* handle_inputs(), and the time that has passed in real-time mode.  The iteration goes on even
\* when the loop is to end.
Inputs ==
  /\ pc = "inputs"
  /\ user' \in BOOLEAN
  /\ stop' = (user' \/ StopsByItself)
  /\ owed' \in (IF RealTime /\ ~Over THEN 0..MostOwed ELSE {owed})
  /\ pc' = "update"
  /\ UNCHANGED <<clockVars, plan, frame, held, fileVars>>

LoopEnds == pc' = IF stop THEN "end" ELSE "inputs"

\* Nothing is drawn while the window is minimized.
Minimized ==
  /\ pc = "render"
  /\ LoopEnds
  /\ UNCHANGED <<clockVars, frame, loopVars, fileVars>>

\* render(): a probe of this frame.  A draw file that cannot be opened ends probing.
Probe ==
  IF probing /\ clock \in plan.probes \ probed
  THEN \/ WriteProbe(clock) /\ UNCHANGED probing
       \/ probing' = FALSE /\ UNCHANGED <<probed, failed>>
  ELSE UNCHANGED <<probed, failed, probing>>

\* capture(): a picture of this frame, if it can be written.
Capture ==
  IF CaptureMode
  THEN /\ captured' \in {captured, captured \cup ({clock} \cap plan.captures)}
       /\ allDone' = IF captured' # captured THEN plan.captures \subseteq captured' ELSE allDone
       /\ UNCHANGED taken
  ELSE /\ taken' \in {taken, taken \/ (plan.picture > 0 /\ renders' >= plan.picture)}
       /\ UNCHANGED <<captured, allDone>>

Render ==
  /\ pc = "render"
  /\ shown' = clock
  /\ renders' = IF renders < plan.picture THEN renders + 1 ELSE renders
  /\ Probe
  /\ Capture
  /\ LoopEnds
  /\ UNCHANGED <<clockVars, frame, loopVars>>

\* The loop of run_headless().
HeadlessStep ==
  /\ pc = "loop"
  /\ ~Over /\ frame < RunTo
  /\ Advance
  /\ UNCHANGED loopVars

HeadlessEnds ==
  /\ pc = "loop"
  /\ Over \/ frame >= RunTo
  /\ pc' = "end"
  /\ UNCHANGED <<clockVars, frame, loopVars, fileVars>>

Next ==
  \/ Start \/ BurstEnds \/ StartFails
  \/ Inputs \/ Step \/ UpdateEnds \/ Render \/ Minimized
  \/ HeadlessStep \/ HeadlessEnds

\* A rendering that could write what it is to write.
Writes == Render /\ probing' = probing /\ (captured' # captured \/ taken' # taken \/ probed' # probed)

\* The process runs; the window is shown again and again, also while there is something to
\* write, and a file that is tried for ever is written in the end.
Fairness ==
  /\ WF_vars(Next)
  /\ SF_vars(Render)
  /\ SF_vars(Writes)

Spec == Init /\ [][Next]_vars /\ Fairness

-----------------------------------------------------------------------------
\* The scene is never past a frame that is still to be captured, nor past the frame to hold or
\* to run to; nor, in a program that captures nothing, past a frame that is still to be probed,
\* unless probing has been given up.  A program that captures goes by its captures alone
\* (scene_playback.cpp:100): it passes the frames to be probed in between, and of the frames it
\* captures it has probed, before the picture, all it was asked to probe.
NoFramePassed ==
  IF plan.driver = "headless"
  THEN clock <= RunTo /\ (probing => \A f \in plan.probes : f < frame => f \in probed)
  ELSE /\ (CaptureMode \/ ProbeMode) /\ ToWrite # {} => clock <= Min(ToWrite)
       /\ ~CaptureMode /\ ~ProbeMode /\ plan.hold >= 0 => clock <= plan.hold
       /\ probing => captured \cap plan.probes \subseteq probed

\* What the scene ended before.
OutOfReach(f) == Over /\ clock < f

\* What a program has left undone that ends by itself, that is not for the user.
\*  - A picture: its frame is out of reach.  But captures given together with probes are
\*    dropped when all probes are done, given up or not, or the scene is over (scene.cpp:49).
\*  - A probe, if there are no captures: its files were opened in vain, which is only logged
\*    (probe.cpp:465-480); its frame is out of reach, or lies beyond the cap of a run without
\*    a window, or is the last of the scene and the window did not show it (scene.cpp:49).
\*    But all are dropped when a draw file or the directory of the probes cannot be opened,
\*    which ends probing (probe.cpp:418, 445), and when the screenshot is taken (scene.cpp:45).
NothingLost ==
  pc = "end" /\ ~user =>
    /\ CaptureMode => \/ \A f \in plan.captures \ captured : OutOfReach(f)
                      \/ plan.probes # {} /\ (ProbesDone \/ Over)
    /\ ProbeMode /\ probing /\ ~taken =>
         \A f \in plan.probes \ (probed \ failed) :
           \/ f \in failed \/ OutOfReach(f)
           \/ IF plan.driver = "headless" THEN f > Cap ELSE Over /\ clock = f /\ shown # f

\* A run that is to write something, or that has no window, comes to an end, whatever the script
\* does, if the session's cap lies beyond the frames asked for.
Quits == plan.driver = "headless" \/ CaptureMode \/ ProbeMode \/ plan.picture > 0 ~> pc \in {"end", "failed"}

\* main.cpp:105: "Advance to this scene frame, then hold".
Holds ==
  plan.driver = "viewer" /\ plan.hold >= 0 /\ ~CaptureMode /\ ~ProbeMode
    ~> [](clock = plan.hold \/ Over \/ pc \in {"end", "failed"})

=============================================================================
