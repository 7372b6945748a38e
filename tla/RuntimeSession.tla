--------------------------- MODULE RuntimeSession ---------------------------
(***************************************************************************)
(* asb::RuntimeSession (scarlett/src/host.cpp): the incremental execution   *)
(* of one script function.  The session owns a scene clock that advance()   *)
(* moves by one frame per call, and a coroutine (an AngelScript context)    *)
(* that it resumes when the clock reaches `wake`.                           *)
(*                                                                         *)
(* start(), advance() and the prelude are cut into steps at the points      *)
(* where the script runs: `pc` says which C++ function is on the stack.     *)
(* The script itself is external; a line of it may call natives that change *)
(* the scene (mark_dirty), and it suspends, returns, raises an exception or *)
(* is aborted by the step budget.                                          *)
(***************************************************************************)
EXTENDS Integers, Sequences

CONSTANTS
  LongestWait,      \* the longest wait a native asks for, in frames
  StepLimit,        \* script lines one Execute() may run (20,000,000 in AbortCallback)
  FrameCaps,        \* values set_max_frames() is called with
  ContextMayFail,   \* whether asIScriptEngine::CreateContext() may return null
  MaxStarts         \* bound: number of calls of start() in a behaviour

ASSUME SessionAssumption ==
  /\ LongestWait \in Nat \ {0}
  /\ StepLimit \in Nat
  /\ FrameCaps \subseteq Int
  /\ ContextMayFail \in BOOLEAN
  /\ MaxStarts \in Nat

VARIABLES
  pc,          \* "idle", or the function on the C++ stack: "prelude", "burst"
  started,     \* RuntimeSession::_started
  finished,    \* RuntimeSession::_finished
  limit,       \* RuntimeSession::_limit
  error,       \* RuntimeSession::_error, "none" when empty
  frame,       \* RuntimeSession::_frame
  maxFrames,   \* RuntimeSession::_max_frames
  record,      \* RuntimeSession::_record_keyframes
  ctx,         \* the script context: "none", "created", "runnable", "ended"
  wake,        \* Impl::wake
  steps,       \* Impl::steps, the lines run by the current Execute()
  sceneFrame,  \* Registry::frame and SceneState::frame, always set together
  dirty,       \* Registry::_dirty
  keyframes,   \* the frames of Timeline::keyframes
  result,      \* what the last call of start() or advance() returned
  starts       \* calls of start() so far (bounds the model)

sessionVars == <<started, finished, limit, error, frame, maxFrames, record>>
registryVars == <<sceneFrame, dirty, keyframes>>
vars == <<pc, sessionVars, ctx, wake, steps, registryVars, result, starts>>

\* Mutant: max(1, n) forgotten.
JustTheSecond(a, b) == b

Larger(a, b) == IF a >= b THEN a ELSE b

-----------------------------------------------------------------------------
Init ==
  /\ pc = "idle"
  /\ started = FALSE /\ finished = FALSE /\ limit = FALSE
  /\ error = "none"
  /\ frame = 0
  /\ maxFrames \in FrameCaps
  /\ record \in BOOLEAN
  /\ ctx = "none"
  /\ wake = 0 /\ steps = 0
  /\ sceneFrame = 0 /\ dirty = FALSE /\ keyframes = <<>>
  /\ result = "none"
  /\ starts = 0

(***************************************************************************)
(* Calls made by the owner of the session.                                  *)
(***************************************************************************)
SetMaxFrames(n) ==
  /\ pc = "idle"
  /\ maxFrames' = n
  /\ UNCHANGED <<pc, started, finished, limit, error, frame, record, ctx, wake,
                 steps, registryVars, result, starts>>

SetRecordKeyframes(on) ==
  /\ pc = "idle"
  /\ record' = on
  /\ UNCHANGED <<pc, started, finished, limit, error, frame, maxFrames, ctx, wake,
                 steps, registryVars, result, starts>>

\* start(nullptr): refused, and a session that is running is left as it was.
StartNull ==
  /\ pc = "idle" /\ starts < MaxStarts
  /\ error' = "nullEntry"
  /\ result' = "StartFailed"
  /\ starts' = starts + 1
  /\ UNCHANGED <<pc, started, finished, limit, frame, maxFrames, record, ctx, wake,
                 steps, registryVars>>

\* Mutant: a start that fails without saying so.
StartNoContextSilently ==
  /\ ContextMayFail
  /\ pc = "idle" /\ starts < MaxStarts
  /\ ctx' = "none"
  /\ result' = "StartFailed"
  /\ starts' = starts + 1
  /\ UNCHANGED <<pc, started, finished, limit, error, frame, maxFrames, record, wake,
                 steps, registryVars>>

\* start(fn) when the engine cannot create a context: the old one is gone already.
StartNoContext ==
  /\ ContextMayFail
  /\ pc = "idle" /\ starts < MaxStarts
  /\ ctx' = "none"
  /\ error' = "noContext"
  /\ result' = "StartFailed"
  /\ starts' = starts + 1
  /\ UNCHANGED <<pc, started, finished, limit, frame, maxFrames, record, wake,
                 steps, registryVars>>

\* Mutant: the keyframes of the last run are kept.
ResetSceneOnly ==
  /\ sceneFrame' = 0 /\ dirty' = FALSE
  /\ wake' = 0 /\ steps' = 0
  /\ starts' = starts + 1
  /\ UNCHANGED keyframes

\* Registry::reset(), set_frame(0), and the scheduler's own reset.
ResetScene ==
  /\ sceneFrame' = 0
  /\ dirty' = FALSE
  /\ keyframes' = <<>>
  /\ wake' = 0
  /\ steps' = 0
  /\ starts' = starts + 1

\* Mutant: _frame not reset.
EnterMainInFrame ==
  /\ ctx' = "runnable"
  /\ started' = TRUE /\ finished' = FALSE /\ limit' = FALSE
  /\ error' = "none"
  /\ pc' = "burst"
  /\ UNCHANGED frame

\* Prepare(fn) and the tail of start() up to its burst().
EnterMain ==
  /\ ctx' = "runnable"
  /\ frame' = 0
  /\ started' = TRUE
  /\ finished' = FALSE
  /\ limit' = FALSE
  /\ error' = "none"
  /\ pc' = "burst"

StartMain ==
  /\ pc = "idle" /\ starts < MaxStarts
  /\ ResetScene
  /\ EnterMain
  /\ UNCHANGED <<maxFrames, record, result>>

StartPrelude ==
  /\ pc = "idle" /\ starts < MaxStarts
  /\ ResetScene
  /\ ctx' = "created"          \* CreateContext() without Prepare()
  /\ error' = "none"
  /\ pc' = "prelude"
  /\ UNCHANGED <<started, finished, limit, frame, maxFrames, record, result>>

-----------------------------------------------------------------------------
(***************************************************************************)
(* What one Execute() does.  A line counts against the step budget; its     *)
(* natives may change the scene.                                            *)
(***************************************************************************)
Executing == pc = "prelude" \/ (pc = "burst" /\ ctx = "runnable")

\* asEXECUTION_ABORTED: the line callback counted one line too many.
OverBudget == steps + 1 > StepLimit

ScriptLine ==
  /\ Executing
  /\ ~OverBudget
  /\ steps' = steps + 1
  /\ dirty' \in {dirty, TRUE}
  /\ UNCHANGED <<pc, sessionVars, ctx, wake, sceneFrame, keyframes,
                 result, starts>>

\* flush_keyframe() at the end of a burst, `changed` being what its own call of
\* Registry::advance() did.  A scene's first keyframe is recorded unconditionally.
FlushKeyframe(changed) ==
  IF record /\ (dirty \/ changed \/ keyframes = <<>>)
    THEN keyframes' = Append(keyframes, sceneFrame) /\ dirty' = FALSE
    ELSE UNCHANGED <<keyframes, dirty>>

\* burst() returns to start() in frame 0 and to advance() later.
Returned(answer, code) ==
  IF frame > 0 THEN answer ELSE IF code = "none" THEN "Started" ELSE "StartFailed"

\* Mutant: the wait is taken for a frame.
BurstSuspendsFromZero(n) ==
  /\ pc = "burst" /\ ctx = "runnable"
  /\ wake' = Larger(1, n)
  /\ \E changed \in BOOLEAN : FlushKeyframe(changed)
  /\ pc' = "idle"
  /\ result' = Returned("Advanced", error)
  /\ UNCHANGED <<sessionVars, ctx, steps, sceneFrame, starts>>

\* burst() after Execute() returned SUSPENDED: `n` is what the native that suspended
\* the script left in Registry::pending_wait, -1 if it left nothing.
BurstSuspends(n) ==
  /\ pc = "burst" /\ ctx = "runnable"
  /\ wake' = frame + Larger(1, n)
  /\ \E changed \in BOOLEAN : FlushKeyframe(changed)
  /\ pc' = "idle"
  /\ result' = Returned("Advanced", error)
  /\ UNCHANGED <<sessionVars, ctx, steps, sceneFrame, starts>>

\* Mutant: the last burst is not recorded.
BurstEndsUnrecorded(outcome, code) ==
  /\ ctx' = outcome
  /\ finished' = TRUE /\ error' = code
  /\ pc' = "idle"
  /\ result' = Returned("Finished", code)
  /\ UNCHANGED <<started, limit, frame, maxFrames, record, wake, registryVars, starts>>

\* burst() after any other code: finished, with an error unless the script returned.
BurstEnds(outcome, code) ==
  /\ ctx' = outcome
  /\ finished' = TRUE
  /\ error' = code
  /\ \E changed \in BOOLEAN : FlushKeyframe(changed)
  /\ pc' = "idle"
  /\ result' = Returned("Finished", code)
  /\ UNCHANGED <<started, limit, frame, maxFrames, record, wake, sceneFrame, starts>>

BurstReturns ==
  /\ pc = "burst" /\ ctx = "runnable"
  /\ BurstEnds("ended", error)
  /\ UNCHANGED steps

BurstThrows ==
  /\ pc = "burst" /\ ctx = "runnable"
  /\ BurstEnds("ended", "scriptFailed")
  /\ UNCHANGED steps

BurstAborts ==
  /\ pc = "burst" /\ ctx = "runnable"
  /\ OverBudget
  /\ steps' = steps + 1
  /\ BurstEnds("ended", "scriptFailed")

\* Execute() on a context that was never prepared returns an error at once.
BurstUnprepared ==
  /\ pc = "burst" /\ ctx = "created"
  /\ BurstEnds("created", "scriptFailed")
  /\ UNCHANGED steps

\* run_prelude() in a context of its own: anything but a return fails start(),
\* which leaves the session's flags and frame as an earlier start() set them.
PreludeFails ==
  /\ pc = "prelude"
  /\ error' = "preludeFailed"
  /\ steps' = 0
  /\ pc' = "idle"
  /\ result' = "StartFailed"
  /\ UNCHANGED <<started, finished, limit, frame, maxFrames, record, ctx, wake,
                 sceneFrame, dirty, keyframes, starts>>

PreludeReturns ==
  /\ pc = "prelude"
  /\ EnterMain
  /\ steps' = 0
  /\ UNCHANGED <<maxFrames, record, wake, sceneFrame, dirty, keyframes, result, starts>>

-----------------------------------------------------------------------------
(***************************************************************************)
(* advance()                                                                *)
(***************************************************************************)
AdvanceNotStarted ==
  /\ pc = "idle" /\ ~started
  /\ error' = "notStarted"
  /\ result' = "Error"
  /\ UNCHANGED <<pc, started, finished, limit, frame, maxFrames, record, ctx, wake,
                 steps, registryVars, starts>>

AdvanceStopped ==
  /\ pc = "idle" /\ started
  /\ finished \/ limit
  /\ result' = IF finished THEN "Finished" ELSE "Limit"
  /\ UNCHANGED <<pc, sessionVars, ctx, wake, steps, registryVars, starts>>

\* Mutant: _finished not asked.
CanTickFinished == pc = "idle" /\ started /\ ~limit

CanTick == pc = "idle" /\ started /\ ~finished /\ ~limit

\* Mutant: _limit not set.
AdvanceLimitForgotten ==
  /\ CanTick
  /\ frame >= maxFrames
  /\ result' = "Limit"
  /\ UNCHANGED <<pc, sessionVars, ctx, wake, steps, registryVars, starts>>

AdvanceLimit ==
  /\ CanTick
  /\ frame >= maxFrames
  /\ limit' = TRUE
  /\ result' = "Limit"
  /\ UNCHANGED <<pc, started, finished, error, frame, maxFrames, record, ctx, wake,
                 steps, registryVars, starts>>

\* Mutant: resumed one frame late.
AdvanceTickLate ==
  /\ CanTick
  /\ frame < maxFrames
  /\ frame' = frame + 1 /\ sceneFrame' = frame + 1
  /\ dirty' \in {dirty, TRUE}
  /\ IF frame + 1 > wake
       THEN /\ pc' = IF ctx = "none" THEN "crashed" ELSE "burst"
            /\ steps' = 0 /\ UNCHANGED result
       ELSE result' = "Advanced" /\ UNCHANGED <<pc, steps>>
  /\ UNCHANGED <<started, finished, limit, error, maxFrames, record, ctx, wake,
                 keyframes, starts>>

\* Mutant: the step budget is not renewed.
AdvanceTickSpent ==
  /\ CanTick
  /\ frame < maxFrames
  /\ frame' = frame + 1 /\ sceneFrame' = frame + 1
  /\ dirty' \in {dirty, TRUE}
  /\ IF frame + 1 >= wake
       THEN pc' = (IF ctx = "none" THEN "crashed" ELSE "burst") /\ UNCHANGED result
       ELSE result' = "Advanced" /\ UNCHANGED pc
  /\ UNCHANGED <<started, finished, limit, error, maxFrames, record, ctx, wake,
                 steps, keyframes, starts>>

\* ++_frame, set_frame(), Registry::advance() (which may change the scene), and the
\* burst when the wait is over.  With no context there is nothing to execute: the
\* null dereference is "crashed".
AdvanceTick ==
  /\ CanTick
  /\ frame < maxFrames
  /\ frame' = frame + 1
  /\ sceneFrame' = frame + 1
  /\ dirty' \in {dirty, TRUE}
  /\ IF frame + 1 >= wake
       THEN /\ pc' = IF ctx = "none" THEN "crashed" ELSE "burst"
            /\ steps' = 0
            /\ UNCHANGED result
       ELSE /\ result' = "Advanced"
            /\ UNCHANGED <<pc, steps>>
  /\ UNCHANGED <<started, finished, limit, error, maxFrames, record, ctx, wake,
                 keyframes, starts>>

-----------------------------------------------------------------------------
Start == StartNull \/ StartNoContext \/ StartMain \/ StartPrelude

Execute ==
  \/ ScriptLine
  \/ \E n \in -1..LongestWait : BurstSuspends(n)
  \/ BurstReturns \/ BurstThrows \/ BurstAborts \/ BurstUnprepared
  \/ PreludeFails \/ PreludeReturns

Advance == AdvanceNotStarted \/ AdvanceStopped \/ AdvanceLimit \/ AdvanceTick

Next ==
  \/ Start
  \/ Execute
  \/ Advance
  \/ \E n \in FrameCaps : SetMaxFrames(n)
  \/ \E on \in BOOLEAN : SetRecordKeyframes(on)

Spec == Init /\ [][Next]_vars

\* Host::run() and run_headless() call advance() until the session has finished or hit
\* its cap, and Execute() is a call: it goes on until it returns.
FairSpec == Spec /\ WF_vars(Execute) /\ WF_vars(AdvanceTick \/ AdvanceLimit)

-----------------------------------------------------------------------------
(***************************************************************************)
(* Properties                                                               *)
(***************************************************************************)
Errors == {"none", "nullEntry", "noContext",
           "preludeFailed", "scriptFailed", "notStarted"}

Results == {"none", "Started", "StartFailed", "Advanced", "Finished", "Limit", "Error"}

FlagsOK ==
  /\ started \in BOOLEAN /\ finished \in BOOLEAN /\ limit \in BOOLEAN
  /\ record \in BOOLEAN /\ dirty \in BOOLEAN

FieldsOK ==
  /\ pc \in {"idle", "prelude", "burst", "crashed"}
  /\ ctx \in {"none", "created", "runnable", "ended"}
  /\ error \in Errors /\ result \in Results
  /\ frame \in Nat /\ maxFrames \in Int /\ wake \in Nat /\ steps \in Nat
  /\ sceneFrame \in Nat /\ keyframes \in Seq(Nat)
  /\ starts \in Nat

\* Every variable holds a value the C++ field can hold.
TypeOK == FlagsOK /\ FieldsOK

\* A suspended script is in the context, and the clock has not reached its wake frame:
\* no call of advance() slept through it (host.cpp:925, 962).
Asleep == CanTick /\ ctx = "runnable"
WakeAhead == Asleep => frame < wake

\* The session's clock and the scene's agree as long as there is a script to run
\* (set_frame() follows every assignment of _frame).
OneClock == (Asleep \/ (pc = "burst" /\ ctx = "runnable")) => sceneFrame = frame

\* The frames of the recorded keyframes strictly increase, up to the scene's frame, even
\* over a restart that failed half way.
KeyframesOrdered ==
  /\ \A i \in 1..Len(keyframes) : keyframes[i] <= sceneFrame
  /\ \A i, j \in 1..Len(keyframes) : i < j => keyframes[i] < keyframes[j]

\* A restart may lose the old context and get no new one, and the session still counts as
\* started: whatever is called afterwards, error() goes on saying so (host.cpp:846-855).
LossReported == CanTick /\ ctx = "none" => error # "none"

\* A suspended script is resumed in the frame it asked for, not earlier and not later,
\* and with a whole step budget (advance() and burst(), host.cpp:914, 960-963).
Resumed == pc = "idle" /\ pc' = "burst" /\ ctx = "runnable" /\ starts' = starts
ResumedOnTime == [][Resumed => frame' = wake /\ steps' = 0]_vars

\* A session that has ended is frozen until it is started again: neither its clock nor
\* the scene moves, whatever advance() or the setters are called with.
Ended == pc = "idle" /\ (finished \/ limit)
EndIsFinal == [][Ended /\ starts' = starts =>
                   UNCHANGED <<finished, limit, frame, ctx, registryVars>>]_vars

\* A session that was started and is driven comes to an end, whatever the script does: the
\* step budget ends a burst, the frame cap ends a script that always waits.  (Driven on after
\* a restart that lost its context, it ends in a null dereference.)
Terminates == started ~> (finished \/ limit \/ pc = "crashed")

(***************************************************************************)
(* The session implements ScriptClock.                                      *)
(***************************************************************************)
Phase ==
  IF pc \in {"burst", "crashed"} THEN "run"
  ELSE IF ~started THEN "unborn"
  ELSE IF finished THEN "over"
  ELSE IF limit THEN "halted" ELSE "sleep"

Clock == INSTANCE ScriptClock WITH clock <- frame, alarm <- wake, phase <- Phase

\* The session keeps the promise of ScriptClock.
ImplementsClock == Clock!ClockSpec

=============================================================================
