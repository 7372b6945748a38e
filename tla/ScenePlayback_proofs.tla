------------------------ MODULE ScenePlayback_proofs ------------------------
(***************************************************************************)
(* The drivers never step past a frame they were asked for, for all command   *)
(* lines, caps and waits of the script.  The inductive invariant says what     *)
(* the driver's copy of the scene frame is worth: it is the frame of the       *)
(* scene whenever the driver looks at it, and only inside a burst it is older.  *)
(***************************************************************************)
EXTENDS ScenePlayback, WellFoundedInduction, TLAPS

USE PlaybackAssumption, LongestWaitAssumption

InLoop == {"inputs", "update", "render"}

Where ==
  /\ clock \in Nat /\ frame \in Nat /\ plan \in Plans
  /\ pc \in InLoop \cup {"start", "burst", "failed", "loop", "end"}
  /\ pc = "start" => clock = 0
  /\ IF plan.driver = "headless" THEN pc \notin InLoop ELSE pc # "loop"
  /\ IF pc \in InLoop \cup {"loop", "end"} THEN frame = clock ELSE frame <= clock

\* run_headless() has written every probe of the frames it has been through.
ProbedSoFar ==
  plan.driver = "headless" /\ probing =>
    \A f \in plan.probes : f < clock \/ (f = clock /\ pc \in {"loop", "end"}) => f \in probed

NotPast ==
  IF plan.driver = "headless" THEN clock <= RunTo
  ELSE IF CaptureMode \/ ProbeMode THEN \A f \in ToWrite : clock <= f
  ELSE plan.hold >= 0 => clock <= plan.hold

\* render() comes before capture(): a picture of a frame to be probed was probed.
PicturesProbed == probing => captured \cap plan.probes \subseteq probed

RanToItsEnd == pc = "end" /\ plan.driver = "headless" => Over \/ clock >= RunTo

IInv == Where /\ ProbedSoFar /\ NotPast /\ PicturesProbed /\ RanToItsEnd

-----------------------------------------------------------------------------
(* The first and the last of the frames asked for. *)

LEMMA FirstOf ==
  ASSUME NEW T, T \subseteq Nat, T # {}
  PROVE  Min(T) \in T /\ \A y \in T : Min(T) <= y
<1>1. IsWellFoundedOn(OpToRel(<, Nat), Nat)
  BY NatLessThanWellFounded
<1>2. PICK x \in T : \A y \in T : ~(<<y, x>> \in OpToRel(<, Nat))
  BY <1>1, WFMin
<1>3. \A y \in T : ~(y < x)
  BY <1>2 DEF OpToRel
<1>4. \E m \in T : \A y \in T : m <= y
  BY <1>3
<1> QED
  BY <1>4 DEF Min

LEMMA ToWriteInNat == ASSUME plan \in Plans PROVE ToWrite \subseteq Nat
BY DEF ToWrite, CaptureMode

LEMMA LastAskedIs ==
  ASSUME NEW p \in Plans
  PROVE  LastAsked(p) \in Asked(p) /\ \A f \in Asked(p) : f <= LastAsked(p)
<1>1. PICK m \in Asked(p) : \A f \in Asked(p) : f <= m
  OBVIOUS
<1>2. Asked(p) \subseteq Int
  BY DEF Asked
<1>3. \E m1 \in Asked(p) : \A f \in Asked(p) : m1 >= f
  BY <1>1, <1>2
<1>4. LastAsked(p) \in Asked(p) /\ \A f \in Asked(p) : LastAsked(p) >= f
  BY <1>3 DEF LastAsked, Max
<1> QED
  BY <1>2, <1>4

LEMMA RunToInNat == ASSUME plan \in Plans PROVE RunTo \in Nat
<1>1. Hold \in Int
  BY LastAskedIs DEF Hold, Asked
<1> QED
  BY <1>1 DEF RunTo

LEMMA HoldIs ==
  ASSUME plan \in Plans, ~CaptureMode, ~ProbeMode
  PROVE  Hold = plan.hold
<1>1. Asked(plan) = {plan.hold}
  BY DEF Asked, CaptureMode, ProbeMode
<1> QED
  BY <1>1, LastAskedIs DEF Hold

LEMMA WrittenDoes ==
  ASSUME NEW f, Written(f)
  PROVE  /\ probed \subseteq probed'
         /\ plan.driver = "headless" /\ probing /\ f \in plan.probes => f \in probed'
BY DEF Written, WriteProbe

-----------------------------------------------------------------------------
LEMMA InitInv == Init => IInv
<1> SUFFICES ASSUME Init PROVE IInv
  OBVIOUS
<1>1. /\ clock = 0 /\ frame = 0 /\ plan \in Plans /\ pc = "start" /\ captured = {}
  BY DEF Init, ClockInit
<1>2. Where
  BY <1>1 DEF Where, InLoop
<1>3. ProbedSoFar
  BY <1>1 DEF ProbedSoFar
<1>4. NotPast
  BY <1>1, RunToInNat, ToWriteInNat DEF NotPast
<1> QED
  BY <1>1, <1>2, <1>3, <1>4 DEF IInv, PicturesProbed, RanToItsEnd

\* One advance() of a driver that has the scene frame and may go on.
LEMMA AdvanceKeeps ==
  ASSUME IInv, pc \in {"update", "loop"}, Advance, plan' = plan,
         IF plan.driver = "headless" THEN clock < RunTo
         ELSE IF CaptureMode \/ ProbeMode THEN \A f \in ToWrite : clock < f
         ELSE plan.hold >= 0 => clock < plan.hold
  PROVE  IInv'
<1> USE DEF IInv
<1>0. /\ clock \in Nat /\ plan \in Plans /\ frame = clock /\ RunTo \in Nat /\ ToWrite \subseteq Nat
      /\ plan.hold \in Int
  BY RunToInNat, ToWriteInNat DEF Where, InLoop
<1>1. CASE Tick /\ phase' = "run" /\ pc' = "burst" /\ UNCHANGED <<frame, fileVars>>
  <2>1. clock' = clock + 1 /\ frame' = frame /\ pc' = "burst" /\ captured' = captured
        /\ probed' = probed /\ probing' = probing
    BY <1>1 DEF Tick, fileVars
  <2>2. Where'
    BY <1>0, <2>1 DEF Where, InLoop
  <2>3. ProbedSoFar'
    <3> SUFFICES ASSUME plan.driver = "headless", probing, NEW f \in plan.probes, f < clock + 1
                 PROVE  f \in probed
      BY <2>1 DEF ProbedSoFar
    <3>1. f \in Nat
      BY <1>0
    <3>2. f < clock \/ f = clock
      BY <1>0, <3>1
    <3>3. pc = "loop"
      BY DEF Where, InLoop
    <3> QED
      BY <3>2, <3>3 DEF ProbedSoFar
  <2>4. NotPast'
    BY <1>0, <2>1 DEF NotPast, RunTo, Hold, CaptureMode, ProbeMode, ToWrite
  <2> QED
    BY <2>1, <2>2, <2>3, <2>4 DEF PicturesProbed, RanToItsEnd
<1>2. CASE /\ Tick /\ frame' = clock' /\ Written(clock')
           /\ UNCHANGED <<pc, captured, allDone, taken, renders, probing, shown>>
  <2>1. clock' = clock + 1 /\ frame' = clock + 1 /\ pc' = pc /\ captured' = captured
        /\ Written(clock + 1) /\ probing' = probing
    BY <1>2 DEF Tick
  <2>0. /\ probed \subseteq probed'
        /\ plan.driver = "headless" /\ probing /\ clock + 1 \in plan.probes => clock + 1 \in probed'
    BY <2>1, WrittenDoes
  <2>2. Where'
    BY <1>0, <2>1 DEF Where, InLoop
  <2>3. ProbedSoFar'
    <3> SUFFICES ASSUME plan.driver = "headless", probing, NEW f \in plan.probes, f <= clock + 1
                 PROVE  f \in probed'
      <4>1. \A f \in plan.probes : f \in Nat
        BY <1>0
      <4> QED
        BY <1>0, <2>1, <4>1 DEF ProbedSoFar
    <3>1. f \in Nat
      BY <1>0
    <3>2. CASE f = clock + 1
      BY <2>0, <2>1, <3>2
    <3>3. CASE f < clock \/ f = clock
      <4>1. pc = "loop"
        BY DEF Where, InLoop
      <4> QED
        BY <2>0, <2>1, <3>3, <4>1 DEF ProbedSoFar
    <3> QED
      BY <1>0, <3>1, <3>2, <3>3
  <2>4. ToWrite' \subseteq ToWrite
    BY <2>0, <2>1 DEF ToWrite, CaptureMode
  <2>5. NotPast'
    BY <1>0, <2>1, <2>4 DEF NotPast, RunTo, Hold, CaptureMode, ProbeMode
  <2> QED
    BY <2>0, <2>1, <2>2, <2>3, <2>5 DEF PicturesProbed, RanToItsEnd, Where, InLoop
<1>3. CASE clock' = clock /\ UNCHANGED <<pc, frame, fileVars>>
  BY <1>0, <1>3 DEF Where, InLoop, ProbedSoFar, NotPast, RunTo, Hold, CaptureMode, ProbeMode, ToWrite,
     PicturesProbed, RanToItsEnd, fileVars
<1> QED
  BY <1>1, <1>2, <1>3 DEF Advance, Halt, clockVars

LEMMA NextInv == IInv /\ [Next]_vars => IInv'
<1> SUFFICES ASSUME IInv, [Next]_vars PROVE IInv'
  OBVIOUS
<1> USE DEF IInv
<1>0. /\ clock \in Nat /\ frame \in Nat /\ plan \in Plans /\ RunTo \in Nat /\ ToWrite \subseteq Nat
      /\ plan.probes \subseteq Nat /\ plan.hold \in Int
  BY RunToInNat, ToWriteInNat DEF Where
<1>1. CASE Start
  <2>1. clock' = clock /\ clock = 0 /\ pc' = "burst" /\ frame' = frame /\ plan' = plan
        /\ captured' = captured /\ probed' = probed /\ probing' = probing
    BY <1>1 DEF Start, Begin, Where, loopVars, fileVars
  <2> QED
    BY <1>0, <2>1 DEF Where, InLoop, ProbedSoFar, NotPast, RunTo, Hold, CaptureMode, ProbeMode, ToWrite,
       PicturesProbed, RanToItsEnd
<1>2. CASE BurstEnds
  <2>1. clock' = clock /\ frame' = clock /\ plan' = plan /\ captured' = captured /\ probing' = probing
        /\ Written(clock) /\ pc = "burst"
        /\ pc' = IF plan.driver = "headless" THEN "loop" ELSE IF clock = 0 THEN "inputs" ELSE "update"
    BY <1>2 DEF BurstEnds, Sleep, Return, Arrives, loopVars
  <2>0. /\ probed \subseteq probed'
        /\ plan.driver = "headless" /\ probing /\ clock \in plan.probes => clock \in probed'
    BY <2>1, WrittenDoes
  <2>2. Where'
    BY <1>0, <2>1 DEF Where, InLoop
  <2>3. ProbedSoFar'
    BY <1>0, <2>0, <2>1 DEF ProbedSoFar
  <2>4. ToWrite' \subseteq ToWrite
    BY <2>0, <2>1 DEF ToWrite, CaptureMode
  <2>5. NotPast'
    BY <1>0, <2>1, <2>4 DEF NotPast, RunTo, Hold, CaptureMode, ProbeMode
  <2> QED
    BY <2>0, <2>1, <2>2, <2>3, <2>5 DEF PicturesProbed, RanToItsEnd
<1>3. CASE StartFails
  <2>1. clock' = clock /\ pc' = "failed" /\ frame' = frame /\ plan' = plan /\ pc = "burst"
        /\ captured' = captured /\ probed' = probed /\ probing' = probing
    BY <1>3 DEF StartFails, Return, loopVars, fileVars
  <2> QED
    BY <1>0, <2>1 DEF Where, InLoop, ProbedSoFar, NotPast, RunTo, Hold, CaptureMode, ProbeMode, ToWrite,
       PicturesProbed, RanToItsEnd
<1>4. CASE Inputs
  <2>1. clock' = clock /\ pc = "inputs" /\ pc' = "update" /\ frame' = frame /\ plan' = plan
        /\ captured' = captured /\ probed' = probed /\ probing' = probing
    BY <1>4 DEF Inputs, clockVars, fileVars
  <2> QED
    BY <1>0, <2>1 DEF Where, InLoop, ProbedSoFar, NotPast, RunTo, Hold, CaptureMode, ProbeMode, ToWrite,
       PicturesProbed, RanToItsEnd
<1>5. CASE Step
  <2>1. pc = "update" /\ frame = clock /\ plan.driver # "headless" /\ Advance /\ plan' = plan /\ Stepping
    BY <1>5 DEF Step, Where, InLoop
  <2>2. CASE CaptureMode \/ ProbeMode
    <3>1. \A f \in ToWrite : clock < f
      <4>1. ToWrite # {} /\ clock < Min(ToWrite)
        BY <2>1, <2>2 DEF Stepping
      <4>2. Min(ToWrite) \in ToWrite /\ \A f \in ToWrite : Min(ToWrite) <= f
        BY <1>0, <4>1, FirstOf
      <4>3. Min(ToWrite) \in Nat /\ \A f \in ToWrite : f \in Nat
        BY <1>0, <4>2
      <4> QED
        BY <1>0, <4>1, <4>2, <4>3
    <3> QED
      BY <2>1, <2>2, <3>1, AdvanceKeeps
  <2>3. CASE ~CaptureMode /\ ~ProbeMode
    <3>1. plan.hold >= 0 => clock < plan.hold
      BY <1>0, <2>1, <2>3, HoldIs DEF Stepping
    <3> QED
      BY <2>1, <2>3, <3>1, AdvanceKeeps
  <2> QED
    BY <2>2, <2>3
<1>6. CASE UpdateEnds
  <2>1. clock' = clock /\ pc = "update" /\ pc' = "render" /\ frame' = frame /\ plan' = plan
        /\ captured' = captured /\ probed' = probed /\ probing' = probing
    BY <1>6 DEF UpdateEnds, clockVars
  <2> QED
    BY <1>0, <2>1 DEF Where, InLoop, ProbedSoFar, NotPast, RunTo, Hold, CaptureMode, ProbeMode, ToWrite,
       PicturesProbed, RanToItsEnd
<1>7. CASE Render
  <2>1. clock' = clock /\ pc = "render" /\ pc' \in {"end", "inputs"} /\ frame' = frame /\ plan' = plan
    BY <1>7 DEF Render, LoopEnds, clockVars, loopVars
  <2>2. probed \subseteq probed' /\ captured \subseteq captured'
    BY <1>7 DEF Render, Probe, WriteProbe, Capture
  <2>3. plan.driver # "headless" /\ Where'
    BY <1>0, <2>1 DEF Where, InLoop
  <2>4. ProbedSoFar'
    BY <2>1, <2>3 DEF ProbedSoFar
  <2>5. ToWrite' \subseteq ToWrite
    BY <2>1, <2>2 DEF ToWrite, CaptureMode
  <2>6. NotPast'
    BY <1>0, <2>1, <2>3, <2>5 DEF NotPast, CaptureMode, ProbeMode
  <2>7. PicturesProbed'
    <3>1. captured' \subseteq captured \cup {clock}
      BY <1>7 DEF Render, Capture
    <3>2. probing' => probing /\ (clock \in plan.probes => clock \in probed')
      BY <1>7 DEF Render, Probe, WriteProbe
    <3> QED
      BY <2>1, <2>2, <3>1, <3>2 DEF PicturesProbed
  <2> QED
    BY <2>1, <2>3, <2>4, <2>6, <2>7 DEF RanToItsEnd
<1>8. CASE Minimized
  <2>1. clock' = clock /\ pc = "render" /\ pc' \in {"end", "inputs"} /\ frame' = frame /\ plan' = plan
        /\ captured' = captured /\ probed' = probed /\ probing' = probing
    BY <1>8 DEF Minimized, LoopEnds, clockVars, loopVars, fileVars
  <2> QED
    BY <1>0, <2>1 DEF Where, InLoop, ProbedSoFar, NotPast, RunTo, Hold, CaptureMode, ProbeMode, ToWrite,
       PicturesProbed, RanToItsEnd
<1>9. CASE HeadlessStep
  <2>1. pc = "loop" /\ frame = clock /\ plan.driver = "headless" /\ Advance /\ plan' = plan /\ clock < RunTo
    BY <1>9 DEF HeadlessStep, Where, InLoop, loopVars
  <2> QED
    BY <2>1, AdvanceKeeps
<1>10. CASE HeadlessEnds
  <2>1. clock' = clock /\ pc = "loop" /\ pc' = "end" /\ frame' = frame /\ plan' = plan
        /\ captured' = captured /\ probed' = probed /\ probing' = probing
    BY <1>10 DEF HeadlessEnds, clockVars, loopVars, fileVars
  <2>2. RanToItsEnd'
    <3>1. (Over \/ clock >= RunTo) /\ phase' = phase
      BY <1>10, <2>1 DEF HeadlessEnds, clockVars, Where, InLoop
    <3> QED
      BY <2>1, <3>1 DEF RanToItsEnd, Over, RunTo, Hold
  <2> QED
    BY <1>0, <2>1, <2>2 DEF Where, InLoop, ProbedSoFar, NotPast, RunTo, Hold, CaptureMode, ProbeMode,
       ToWrite, PicturesProbed
<1>11. CASE UNCHANGED vars
  BY <1>0, <1>11 DEF vars, clockVars, fileVars, Where, InLoop, ProbedSoFar, NotPast, RunTo, Hold,
     CaptureMode, ProbeMode, ToWrite, PicturesProbed, RanToItsEnd, Over
<1> QED
  BY <1>1, <1>2, <1>3, <1>4, <1>5, <1>6, <1>7, <1>8, <1>9, <1>10, <1>11 DEF Next

-----------------------------------------------------------------------------
\* A picture or a probe shows the frame in its name, and the frame to hold is not overshot
\* (ScenePlayback::update(), run_headless()), for every command line.  Probes are looked at by a
\* program that captures nothing; one that captures passes frames it does not probe, but
\* has probed each frame it captured, if it was to.
THEOREM NoFrameIsPassed == Spec => []NoFramePassed
<1>1. Init => IInv
  BY InitInv
<1>2. IInv /\ [Next]_vars => IInv'
  BY NextInv
<1>3. IInv => NoFramePassed
  <2> SUFFICES ASSUME IInv PROVE NoFramePassed
    OBVIOUS
  <2>0. clock \in Nat /\ frame \in Nat /\ frame <= clock /\ plan \in Plans /\ ToWrite \subseteq Nat
        /\ plan.probes \subseteq Nat
    BY ToWriteInNat DEF IInv, Where
  <2>1. CASE plan.driver = "headless"
    <3>1. clock <= RunTo
      BY <2>1 DEF IInv, NotPast
    <3>2. ASSUME probing, NEW f \in plan.probes, f < frame PROVE f \in probed
      <4>1. f < clock
        BY <2>0, <3>2
      <4> QED
        BY <2>1, <3>2, <4>1 DEF IInv, ProbedSoFar
    <3> QED
      BY <2>1, <3>1, <3>2 DEF NoFramePassed
  <2>2. CASE plan.driver # "headless"
    <3>1. (CaptureMode \/ ProbeMode) /\ ToWrite # {} => clock <= Min(ToWrite)
      BY <2>0, <2>2, FirstOf DEF IInv, NotPast
    <3>2. ~CaptureMode /\ ~ProbeMode /\ plan.hold >= 0 => clock <= plan.hold
      BY <2>2 DEF IInv, NotPast
    <3>3. probing => captured \cap plan.probes \subseteq probed
      BY DEF IInv, PicturesProbed
    <3> QED
      BY <2>2, <3>1, <3>2, <3>3 DEF NoFramePassed
  <2> QED
    BY <2>1, <2>2
<1> QED
  BY <1>1, <1>2, <1>3, PTL DEF Spec

-----------------------------------------------------------------------------
(* What is on disk when the program ends. *)

\* captures_done(): no frame that the scene still reaches is left to be captured.
Gone ==
  \/ plan.captures \subseteq captured
  \/ Over /\ \A f \in plan.captures \ captured : clock < f

\* Why the loop may end without the user; none of the reasons goes away again.
Reason ==
  \/ plan.picture > 0 /\ taken
  \/ CaptureMode /\ Gone
  \/ plan.probes # {} /\ (ProbesDone \/ Over)

Unstarted == pc = "start" => ~allDone /\ ~stop

\* capture() takes a screenshot of programs that capture nothing.
OnePicture == CaptureMode => ~taken

\* render() has tried to probe the frame it has shown, and goes on probing only if it could.
ShownProbed == probing /\ shown \in plan.probes => shown \in probed

GivenUp == CaptureMode /\ allDone => Gone

Stopped ==
  /\ stop /\ ~user => Reason
  /\ pc = "end" /\ plan.driver # "headless" => stop

LossInv == Unstarted /\ OnePicture /\ ShownProbed /\ GivenUp /\ Stopped

\* The steps between two calls of handle_inputs() and render() leave what was decided there.
LEMMA DriverStep ==
  ASSUME LossInv, plan' = plan,
         ~Over \/ UNCHANGED <<clock, phase>>,
         captured' = captured, allDone' = allDone, taken' = taken, probing' = probing,
         shown' = shown, stop' = stop, user' = user,
         probed \subseteq probed', pc' # "start",
         pc' = "end" => pc = "end" \/ stop \/ plan.driver = "headless"
  PROVE  LossInv'
<1>1. CaptureMode' = CaptureMode /\ (Over => Over' /\ clock' = clock)
  BY DEF CaptureMode, Over
<1>2. Gone => Gone'
  BY <1>1 DEF Gone
<1>3. ProbesDone => ProbesDone'
  BY DEF ProbesDone
<1>4. Reason => Reason'
  BY <1>1, <1>2, <1>3 DEF Reason
<1>5. Unstarted' /\ OnePicture' /\ ShownProbed' /\ GivenUp'
  BY <1>1, <1>2 DEF LossInv, Unstarted, OnePicture, ShownProbed, GivenUp
<1>6. Stopped'
  BY <1>4 DEF LossInv, Stopped
<1> QED
  BY <1>5, <1>6 DEF LossInv

LEMMA InitLoss == Init => LossInv
<1> SUFFICES ASSUME Init PROVE LossInv
  OBVIOUS
<1>1. plan \in Plans /\ pc = "start" /\ stop = FALSE /\ taken = FALSE /\ allDone = FALSE /\ shown = -1
  BY DEF Init
<1>2. plan.probes \subseteq Nat
  BY <1>1
<1>3. shown \notin plan.probes
  BY <1>1, <1>2
<1> QED
  BY <1>1, <1>3 DEF LossInv, Unstarted, OnePicture, ShownProbed, GivenUp, Stopped

LEMMA InputsLoss == ASSUME LossInv, Inputs PROVE LossInv'
<1>1. /\ UNCHANGED <<clock, phase, plan>> /\ UNCHANGED fileVars
      /\ pc' = "update" /\ stop' = (user' \/ StopsByItself)
  BY DEF Inputs, clockVars
<1>2. UNCHANGED <<captured, allDone, taken, probed, probing, shown>>
  BY <1>1 DEF fileVars
<1>3. CaptureMode' = CaptureMode /\ Gone' = Gone /\ Over' = Over /\ ProbesDone' = ProbesDone
  BY <1>1, <1>2 DEF CaptureMode, Gone, Over, ProbesDone
<1>4. Unstarted' /\ OnePicture' /\ ShownProbed' /\ GivenUp'
  BY <1>1, <1>2, <1>3 DEF LossInv, Unstarted, OnePicture, ShownProbed, GivenUp
<1>5. StopsByItself => Reason'
  BY <1>1, <1>2, <1>3 DEF LossInv, GivenUp, StopsByItself, Reason
<1>6. Stopped'
  BY <1>1, <1>5 DEF Stopped
<1> QED
  BY <1>4, <1>6 DEF LossInv

LEMMA UpdateEndsLoss == ASSUME IInv, LossInv, UpdateEnds PROVE LossInv'
<1>1. /\ UNCHANGED <<clock, phase, plan, stop, user, captured, taken, probed, probing, shown>>
      /\ pc = "update" /\ pc' = "render" /\ allDone' = (allDone \/ GivesUp)
  BY DEF UpdateEnds, clockVars
<1>2. CaptureMode' = CaptureMode /\ Gone' = Gone /\ Over' = Over /\ ProbesDone' = ProbesDone
  BY <1>1 DEF CaptureMode, Gone, Over, ProbesDone
<1>3. GivesUp => Gone
  <2> SUFFICES ASSUME GivesUp PROVE Gone
    OBVIOUS
  <2>1. CaptureMode /\ Over /\ ToWrite # {} /\ clock < Min(ToWrite)
    BY <1>1 DEF IInv, Where, InLoop, GivesUp
  <2>2. clock \in Nat /\ ToWrite \subseteq Nat
    BY ToWriteInNat DEF IInv, Where
  <2>3. Min(ToWrite) \in ToWrite /\ \A f \in ToWrite : Min(ToWrite) <= f
    BY <2>1, <2>2, FirstOf
  <2>4. ASSUME NEW f \in ToWrite PROVE clock < f
    <3>1. Min(ToWrite) \in Nat /\ f \in Nat /\ Min(ToWrite) <= f
      BY <2>2, <2>3
    <3> QED
      BY <2>1, <2>2, <3>1
  <2> QED
    BY <2>1, <2>4 DEF ToWrite, Gone
<1>4. Unstarted' /\ OnePicture' /\ ShownProbed' /\ GivenUp'
  BY <1>1, <1>2, <1>3 DEF LossInv, Unstarted, OnePicture, ShownProbed, GivenUp
<1>5. Reason' = Reason
  BY <1>1, <1>2 DEF Reason
<1>6. Stopped'
  BY <1>1, <1>5 DEF LossInv, Stopped
<1> QED
  BY <1>4, <1>6 DEF LossInv

LEMMA RenderLoss == ASSUME IInv, LossInv, Render PROVE LossInv'
<1>1. /\ UNCHANGED <<clock, phase, plan, stop, user>>
      /\ pc = "render" /\ pc' = IF stop THEN "end" ELSE "inputs"
      /\ shown' = clock /\ Probe /\ Capture
  BY DEF Render, LoopEnds, clockVars, loopVars
<1>2. CaptureMode' = CaptureMode /\ Over' = Over
  BY <1>1 DEF CaptureMode, Over
<1>3. /\ probed \subseteq probed' /\ (probing' => probing)
      /\ probing' /\ clock \in plan.probes => clock \in probed'
  BY <1>1 DEF Probe, WriteProbe
<1>4. ASSUME CaptureMode
      PROVE  /\ taken' = taken
             /\ captured \subseteq captured' /\ (Gone => Gone') /\ (allDone' /\ allDone => Gone')
             /\ (allDone' => Gone')
  <2>1. /\ taken' = taken
        /\ captured' = captured \/ captured' = captured \cup ({clock} \cap plan.captures)
        /\ allDone' = IF captured' # captured THEN plan.captures \subseteq captured' ELSE allDone
    BY <1>1, <1>4 DEF Capture
  <2>2. captured \subseteq captured'
    BY <2>1
  <2>3. Gone => Gone'
    BY <1>1, <1>2, <2>2 DEF Gone
  <2>4. CASE captured' # captured
    BY <1>1, <2>1, <2>2, <2>3, <2>4 DEF Gone
  <2>5. CASE captured' = captured
    BY <1>4, <2>1, <2>2, <2>3, <2>5 DEF LossInv, GivenUp
  <2> QED
    BY <2>4, <2>5
<1>5. ASSUME ~CaptureMode PROVE taken => taken'
  BY <1>1, <1>5 DEF Capture
<1>6. Unstarted' /\ OnePicture' /\ ShownProbed' /\ GivenUp'
  <2>1. Unstarted'
    BY <1>1 DEF Unstarted
  <2>2. OnePicture'
    BY <1>2, <1>4 DEF LossInv, OnePicture
  <2>3. ShownProbed'
    BY <1>1, <1>3 DEF ShownProbed
  <2>4. GivenUp'
    BY <1>2, <1>4 DEF GivenUp
  <2> QED
    BY <2>1, <2>2, <2>3, <2>4
<1>7. ProbesDone => ProbesDone'
  BY <1>1, <1>3 DEF ProbesDone
<1>8. taken => taken'
  BY <1>4, <1>5
<1>9. Reason => Reason'
  BY <1>1, <1>2, <1>4, <1>7, <1>8 DEF Reason
<1>10. Stopped'
  BY <1>1, <1>9 DEF LossInv, Stopped
<1> QED
  BY <1>6, <1>10 DEF LossInv

LEMMA NextLoss == IInv /\ LossInv /\ [Next]_vars => LossInv'
<1> SUFFICES ASSUME IInv, LossInv, [Next]_vars PROVE LossInv'
  OBVIOUS
<1>1. CASE Start
  <2>1. /\ UNCHANGED <<captured, allDone, taken, probed, probing, shown, plan, stop, user>>
        /\ pc = "start" /\ pc' = "burst"
    BY <1>1 DEF Start, loopVars, fileVars
  <2>2. CaptureMode' = CaptureMode /\ ~allDone /\ ~stop
    BY <2>1 DEF CaptureMode, LossInv, Unstarted
  <2> QED
    BY <2>1, <2>2 DEF LossInv, Unstarted, OnePicture, ShownProbed, GivenUp, Stopped
<1>2. CASE BurstEnds
  <2>1. ~Over
    BY <1>2 DEF BurstEnds, Sleep, Return, Over
  <2>2. /\ UNCHANGED <<plan, captured, allDone, taken, probing, shown, stop, user>>
        /\ probed \subseteq probed' /\ pc' \in {"loop", "inputs", "update"}
    BY <1>2, WrittenDoes DEF BurstEnds, Arrives, loopVars
  <2> QED
    BY <2>1, <2>2, DriverStep
<1>3. CASE StartFails
  <2>1. ~Over
    BY <1>3 DEF StartFails, Return, Over
  <2>2. /\ UNCHANGED <<plan, captured, allDone, taken, probed, probing, shown, stop, user>>
        /\ pc' = "failed"
    BY <1>3 DEF StartFails, loopVars, fileVars
  <2> QED
    BY <2>1, <2>2, DriverStep
<1>4. CASE Inputs
  BY <1>4, InputsLoss
<1>5. CASE Step
  <2>1. ~Over /\ UNCHANGED <<plan, stop, user>> /\ pc = "update" /\ Advance
    BY <1>5 DEF Step
  <2>2. /\ UNCHANGED <<captured, allDone, taken, probing, shown>>
        /\ probed \subseteq probed' /\ pc' \in {"burst", "update"}
    BY <2>1, WrittenDoes DEF Advance, fileVars
  <2> QED
    BY <2>1, <2>2, DriverStep
<1>6. CASE UpdateEnds
  BY <1>6, UpdateEndsLoss
<1>7. CASE Render
  BY <1>7, RenderLoss
<1>8. CASE Minimized
  <2>1. /\ UNCHANGED <<clock, phase, plan, captured, allDone, taken, probed, probing, shown, stop, user>>
        /\ pc' = IF stop THEN "end" ELSE "inputs"
    BY <1>8 DEF Minimized, LoopEnds, clockVars, loopVars, fileVars
  <2> QED
    BY <2>1, DriverStep
<1>9. CASE HeadlessStep
  <2>1. ~Over /\ UNCHANGED <<plan, stop, user>> /\ pc = "loop" /\ Advance
    BY <1>9 DEF HeadlessStep, loopVars
  <2>2. /\ UNCHANGED <<captured, allDone, taken, probing, shown>>
        /\ probed \subseteq probed' /\ pc' \in {"burst", "loop"}
    BY <2>1, WrittenDoes DEF Advance, fileVars
  <2> QED
    BY <2>1, <2>2, DriverStep
<1>10. CASE HeadlessEnds
  <2>1. /\ UNCHANGED <<clock, phase, plan, captured, allDone, taken, probed, probing, shown, stop, user>>
        /\ pc = "loop" /\ pc' = "end"
    BY <1>10 DEF HeadlessEnds, clockVars, loopVars, fileVars
  <2>2. plan.driver = "headless"
    BY <2>1 DEF IInv, Where
  <2> QED
    BY <2>1, <2>2, DriverStep
<1>11. CASE UNCHANGED vars
  <2>1. UNCHANGED <<clock, phase, plan, pc, captured, allDone, taken, probed, probing, shown, stop, user>>
    BY <1>11 DEF vars, clockVars, fileVars
  <2> QED
    BY <2>1 DEF LossInv, Unstarted, OnePicture, ShownProbed, GivenUp, Stopped, Reason, Gone, Over,
       CaptureMode, ProbesDone
<1> QED
  BY <1>1, <1>2, <1>3, <1>4, <1>5, <1>6, <1>7, <1>8, <1>9, <1>10, <1>11 DEF Next

LEMMA LossShown == IInv /\ LossInv => NothingLost
<1> SUFFICES ASSUME IInv, LossInv, pc = "end", ~user PROVE NothingLost
  BY DEF NothingLost
<1>0. clock \in Nat /\ plan \in Plans /\ plan.probes \subseteq Nat /\ Cap \in Nat
  BY DEF IInv, Where
<1>1. CASE plan.driver = "headless"
  <2>1. ~CaptureMode
    BY <1>0, <1>1 DEF CaptureMode
  <2>2. ASSUME probing, NEW f \in plan.probes, f \notin probed PROVE OutOfReach(f) \/ f > Cap
    <3>1. clock < f
      BY <1>0, <1>1, <2>2 DEF IInv, ProbedSoFar
    <3>2. CASE ~Over
      <4>1. clock >= RunTo
        BY <1>1, <3>2 DEF IInv, RanToItsEnd
      <4>2. f <= Hold /\ Hold \in Int
        BY <1>0, LastAskedIs DEF Hold, Asked
      <4> QED
        BY <1>0, <3>1, <4>1, <4>2 DEF RunTo
    <3> QED
      BY <3>1, <3>2 DEF OutOfReach
  <2> QED
    BY <1>1, <2>1, <2>2 DEF NothingLost
<1>2. CASE plan.driver # "headless"
  <2>1. Reason
    BY <1>2 DEF LossInv, Stopped
  <2>2. CaptureMode => Gone \/ (plan.probes # {} /\ (ProbesDone \/ Over))
    BY <2>1 DEF LossInv, OnePicture, Reason
  <2>3. Gone => \A f \in plan.captures \ captured : OutOfReach(f)
    BY DEF Gone, OutOfReach
  <2>4. ASSUME ProbeMode, probing, ~taken, NEW f \in plan.probes, f \notin probed, ~OutOfReach(f)
        PROVE  Over /\ clock = f /\ shown # f
    <3>1. f \in ToWrite /\ ~CaptureMode
      BY <2>4 DEF ProbeMode, ToWrite
    <3>2. clock <= f
      BY <1>2, <2>4, <3>1 DEF IInv, NotPast
    <3>3. ~ProbesDone
      BY <2>4 DEF ProbesDone
    <3>4. Over
      BY <2>1, <2>4, <3>1, <3>3 DEF Reason
    <3>5. f = clock
      BY <1>0, <2>4, <3>2, <3>4 DEF OutOfReach
    <3>6. shown # f
      BY <2>4 DEF LossInv, ShownProbed
    <3> QED
      BY <3>4, <3>5, <3>6
  <2> QED
    BY <1>2, <2>2, <2>3, <2>4 DEF NothingLost
<1> QED
  BY <1>1, <1>2

\* A viewer or a headless run that ends by itself has written what it was asked for, but for the
\* exceptions listed at NothingLost (Scene::handle_inputs(), ScenePlayback::update() and render(),
\* ProbeWriter): frames out of reach, files opened in vain, a last frame the window did not show,
\* and what is dropped when captures, probes and a screenshot are asked for together.  Whatever
\* the order of renderings, failed files and the end of the scene, for every command line.
THEOREM NoFrameIsLost == Spec => []NothingLost
<1>1. Init => IInv /\ LossInv
  BY InitInv, InitLoss
<1>2. IInv /\ LossInv /\ [Next]_vars => (IInv /\ LossInv)'
  BY NextInv, NextLoss
<1> QED
  BY <1>1, <1>2, LossShown, PTL DEF Spec

=============================================================================
