----------------------- MODULE RuntimeSession_proofs -----------------------
(***************************************************************************)
(* The scheduler's safety properties, proved for every longest wait, step    *)
(* budget, frame cap and number of starts.  The inductive invariant adds to   *)
(* the checked invariants what holds while a C++ call is on the stack; it     *)
(* falls into three parts, preserved one on top of the other.  The last       *)
(* section is about Host::run(), which is such a session driven in a loop:    *)
(* what is proved of every session holds of it, and the timeline it returns   *)
(* is whole.                                                               *)
(***************************************************************************)
EXTENDS HostRun, TLAPS

\* The session's flags while the script runs, and the clocks while the prelude does.
OnStack ==
  /\ pc = "burst" => started /\ ~finished /\ ~limit
  /\ pc = "prelude" => ctx = "created" /\ wake = 0 /\ sceneFrame = 0

\* The scene's clock is never ahead of the session's.
SceneNotAhead == sceneFrame <= frame

ClockInv == OnStack /\ SceneNotAhead /\ WakeAhead /\ OneClock

\* Nothing is recorded before the script's first burst, and during a burst the
\* keyframe of its frame is still to come.
KeyframeDue ==
  /\ pc = "prelude" => keyframes = <<>>
  /\ pc = "burst" => \A i \in 1..Len(keyframes) : keyframes[i] < sceneFrame

KeyframeInv == KeyframeDue /\ KeyframesOrdered

IInv == TypeOK /\ ClockInv /\ KeyframeInv

-----------------------------------------------------------------------------
\* flush_keyframe() leaves a flag and a sequence of frames, whatever it records.
LEMMA FlushFlags ==
  ASSUME NEW changed \in BOOLEAN, dirty \in BOOLEAN, FlushKeyframe(changed)
  PROVE  dirty' \in BOOLEAN
  BY Zenon DEF FlushKeyframe

LEMMA FlushFields ==
  ASSUME NEW changed \in BOOLEAN, keyframes \in Seq(Nat), sceneFrame \in Nat,
         FlushKeyframe(changed)
  PROVE  keyframes' \in Seq(Nat)
<1>1. keyframes' = keyframes \/ keyframes' = Append(keyframes, sceneFrame)
  BY Zenon DEF FlushKeyframe
<1>2. Append(keyframes, sceneFrame) \in Seq(Nat)
  OBVIOUS
<1> QED
  BY <1>1, <1>2, Zenon

\* The flags stay Boolean.
LEMMA NextFlags == FlagsOK /\ [Next]_vars => FlagsOK'
<1> SUFFICES ASSUME FlagsOK, [Next]_vars PROVE FlagsOK'
  OBVIOUS
<1> USE DEF FlagsOK, sessionVars, registryVars
<1>1. CASE Start
  BY <1>1, Zenon DEF Start, StartNull, StartNoContext, StartMain, StartPrelude, ResetScene,
     EnterMain
<1>2. ASSUME NEW outcome, NEW code, BurstEnds(outcome, code) PROVE FlagsOK'
  BY <1>2, FlushFlags, Zenon DEF BurstEnds
<1>3. CASE ScriptLine
  BY <1>3, Zenon DEF ScriptLine
<1>4. ASSUME NEW n, BurstSuspends(n) PROVE FlagsOK'
  BY <1>4, FlushFlags, Zenon DEF BurstSuspends
<1>5. CASE PreludeFails
  BY <1>5, Zenon DEF PreludeFails
<1>6. CASE PreludeReturns
  BY <1>6, Zenon DEF PreludeReturns, EnterMain
<1>7. CASE Advance
  BY <1>7, Zenon DEF Advance, AdvanceNotStarted, AdvanceStopped, AdvanceLimit, AdvanceTick
<1>8. CASE \E n \in FrameCaps : SetMaxFrames(n)
  BY <1>8, Zenon DEF SetMaxFrames
<1>9. CASE \E on \in BOOLEAN : SetRecordKeyframes(on)
  BY <1>9, Zenon DEF SetRecordKeyframes
<1>10. CASE UNCHANGED vars
  BY <1>10, Zenon DEF vars
<1> QED
  BY <1>1, <1>2, <1>3, <1>4, <1>5, <1>6, <1>7, <1>8, <1>9, <1>10, Zenon
     DEF Next, Execute, BurstReturns, BurstThrows, BurstAborts, BurstUnprepared

\* The other fields keep their types.
LEMMA NextFields == FieldsOK /\ [Next]_vars => FieldsOK'
<1> SUFFICES ASSUME FieldsOK, [Next]_vars PROVE FieldsOK'
  OBVIOUS
<1> USE SMT DEF FieldsOK, sessionVars, registryVars, Errors, Results
<1>1. CASE StartNull
  BY <1>1 DEF StartNull
<1>2. CASE StartNoContext
  BY <1>2 DEF StartNoContext
<1>3. CASE StartMain
  BY <1>3 DEF StartMain, ResetScene, EnterMain
<1>4. CASE StartPrelude
  BY <1>4 DEF StartPrelude, ResetScene
<1>5. CASE ScriptLine
  BY <1>5 DEF ScriptLine
<1>6. ASSUME NEW n \in -1..LongestWait, BurstSuspends(n) PROVE FieldsOK'
  <2>1. keyframes' \in Seq(Nat)
    BY <1>6, FlushFields DEF BurstSuspends
  <2>2. wake' \in Nat
    BY <1>6, SessionAssumption DEF BurstSuspends, Larger
  <2> QED BY <1>6, <2>1, <2>2 DEF BurstSuspends, Returned
<1>7. ASSUME NEW outcome \in {"ended", "created"}, NEW code \in Errors,
             steps' \in Nat, BurstEnds(outcome, code)
      PROVE  FieldsOK'
  <2>1. keyframes' \in Seq(Nat)
    BY <1>7, FlushFields DEF BurstEnds
  <2> QED BY <1>7, <2>1 DEF BurstEnds, Returned
<1>8. CASE BurstReturns
  BY <1>7, <1>8 DEF BurstReturns
<1>9. CASE BurstThrows
  BY <1>7, <1>9 DEF BurstThrows
<1>10. CASE BurstAborts
  BY <1>7, <1>10 DEF BurstAborts
<1>11. CASE BurstUnprepared
  BY <1>7, <1>11 DEF BurstUnprepared
<1>12. CASE PreludeFails
  BY <1>12 DEF PreludeFails
<1>13. CASE PreludeReturns
  BY <1>13 DEF PreludeReturns, EnterMain
<1>14. CASE AdvanceNotStarted
  BY <1>14 DEF AdvanceNotStarted
<1>15. CASE AdvanceStopped
  BY <1>15 DEF AdvanceStopped
<1>16. CASE AdvanceLimit
  BY <1>16 DEF AdvanceLimit
<1>17. CASE AdvanceTick
  BY <1>17 DEF AdvanceTick
<1>18. ASSUME NEW n \in FrameCaps, SetMaxFrames(n) PROVE FieldsOK'
  BY <1>18, SessionAssumption DEF SetMaxFrames
<1>19. ASSUME NEW on \in BOOLEAN, SetRecordKeyframes(on) PROVE FieldsOK'
  BY <1>19 DEF SetRecordKeyframes
<1>20. CASE UNCHANGED vars
  BY <1>20 DEF vars
<1> QED
  BY <1>1, <1>2, <1>3, <1>4, <1>5, <1>6, <1>8, <1>9, <1>10, <1>11, <1>12, <1>13, <1>14,
     <1>15, <1>16, <1>17, <1>18, <1>19, <1>20 DEF Next, Start, Execute, Advance

-----------------------------------------------------------------------------
\* The two clocks and the wake frame, over every step.
LEMMA NextClock == FieldsOK /\ ClockInv /\ [Next]_vars => ClockInv'
<1> SUFFICES ASSUME FieldsOK, ClockInv, [Next]_vars PROVE ClockInv'
  OBVIOUS
<1> USE DEF FieldsOK, ClockInv, OnStack, SceneNotAhead, WakeAhead, OneClock, Asleep,
        CanTick, sessionVars, registryVars
<1>1. CASE StartNull
  BY <1>1 DEF StartNull
<1>2. CASE StartNoContext
  BY <1>2 DEF StartNoContext
<1>3. CASE StartMain
  BY <1>3 DEF StartMain, ResetScene, EnterMain
<1>4. CASE StartPrelude
  BY <1>4 DEF StartPrelude, ResetScene
<1>5. CASE ScriptLine
  BY <1>5 DEF ScriptLine
<1>6. ASSUME NEW n \in -1..LongestWait, BurstSuspends(n) PROVE ClockInv'
  <2>1. frame' < wake'
    BY <1>6, SessionAssumption DEF BurstSuspends, Larger
  <2> QED BY <1>6, <2>1 DEF BurstSuspends
<1>7. ASSUME NEW outcome, NEW code, pc = "burst", BurstEnds(outcome, code)
      PROVE  ClockInv'
  BY <1>7 DEF BurstEnds
<1>8. CASE BurstReturns \/ BurstThrows \/ BurstAborts \/ BurstUnprepared
  BY <1>7, <1>8 DEF BurstReturns, BurstThrows, BurstAborts, BurstUnprepared
<1>9. CASE PreludeFails
  BY <1>9 DEF PreludeFails
<1>10. CASE PreludeReturns
  BY <1>10 DEF PreludeReturns, EnterMain
<1>11. CASE AdvanceNotStarted \/ AdvanceStopped
  BY <1>11 DEF AdvanceNotStarted, AdvanceStopped
<1>12. CASE AdvanceLimit
  BY <1>12 DEF AdvanceLimit
<1>13. CASE AdvanceTick
  BY <1>13 DEF AdvanceTick
<1>14. CASE \E n \in FrameCaps : SetMaxFrames(n)
  BY <1>14 DEF SetMaxFrames
<1>15. CASE \E on \in BOOLEAN : SetRecordKeyframes(on)
  BY <1>15 DEF SetRecordKeyframes
<1>16. CASE UNCHANGED vars
  BY <1>16 DEF vars
<1> QED
  BY <1>1, <1>2, <1>3, <1>4, <1>5, <1>6, <1>8, <1>9, <1>10, <1>11, <1>12, <1>13, <1>14,
     <1>15, <1>16 DEF Next, Start, Execute, Advance

-----------------------------------------------------------------------------
\* Appending a later frame to ordered keyframes keeps them ordered.
LEMMA AppendOrdered ==
  ASSUME NEW ks \in Seq(Nat), NEW f \in Nat,
         \A i \in 1..Len(ks) : ks[i] < f,
         \A i, j \in 1..Len(ks) : i < j => ks[i] < ks[j]
  PROVE  LET app == Append(ks, f)
         IN  /\ \A i \in 1..Len(app) : app[i] <= f
             /\ \A i, j \in 1..Len(app) : i < j => app[i] < app[j]
<1> DEFINE app == Append(ks, f)
<1>1. /\ Len(ks) \in Nat
      /\ Len(app) = Len(ks) + 1
      /\ \A i \in 1..Len(ks) : app[i] = ks[i]
      /\ app[Len(ks) + 1] = f
  OBVIOUS
<1>2. \A i \in 1..Len(ks) : ks[i] \in Nat
  OBVIOUS
<1> HIDE DEF app
<1>3. \A i \in 1..Len(app) : app[i] <= f
  BY <1>1, <1>2
<1>4. ASSUME NEW i \in 1..Len(app), NEW j \in 1..Len(app), i < j
      PROVE  app[i] < app[j]
  <2>1. i \in 1..Len(ks) /\ app[i] = ks[i]
    BY <1>1, <1>4
  <2>2. CASE j = Len(ks) + 1
    BY <1>1, <2>1, <2>2
  <2>3. CASE j # Len(ks) + 1
    <3>1. j \in 1..Len(ks) /\ app[j] = ks[j]
      BY <1>1, <2>3
    <3> QED BY <1>4, <2>1, <3>1
  <2> QED BY <2>2, <2>3
<1> QED BY <1>3, <1>4 DEF app

\* flush_keyframe() in a burst, where the frame's keyframe is still to come.
LEMMA FlushOrdered ==
  ASSUME FieldsOK, KeyframeInv, pc = "burst", sceneFrame' = sceneFrame,
         NEW changed, FlushKeyframe(changed)
  PROVE  KeyframesOrdered'
<1>1. CASE keyframes' = keyframes
  BY <1>1 DEF KeyframeInv, KeyframesOrdered
<1>2. CASE keyframes' = Append(keyframes, sceneFrame)
  BY <1>2, AppendOrdered DEF FieldsOK, KeyframeInv, KeyframeDue, KeyframesOrdered
<1> QED BY <1>1, <1>2 DEF FlushKeyframe

\* No step records a keyframe out of order.
LEMMA NextKeyframes == FieldsOK /\ ClockInv /\ KeyframeInv /\ [Next]_vars => KeyframeInv'
<1> SUFFICES ASSUME FieldsOK, ClockInv, KeyframeInv, [Next]_vars PROVE KeyframeInv'
  OBVIOUS
<1>1. ASSUME keyframes' = keyframes, sceneFrame' = sceneFrame, pc' = pc \/ pc' = "idle"
      PROVE  KeyframeInv'
  BY <1>1 DEF KeyframeInv, KeyframeDue, KeyframesOrdered
<1>2. ASSUME keyframes' = <<>> PROVE KeyframeInv'
  BY <1>2 DEF KeyframeInv, KeyframeDue, KeyframesOrdered
<1>3. CASE StartNull \/ StartNoContext
  BY <1>1, <1>3 DEF StartNull, StartNoContext, registryVars
<1>4. CASE StartMain \/ StartPrelude
  BY <1>2, <1>4 DEF StartMain, StartPrelude, ResetScene
<1>5. CASE ScriptLine
  BY <1>1, <1>5 DEF ScriptLine
<1>6. ASSUME NEW n, BurstSuspends(n) PROVE KeyframeInv'
  BY <1>6, FlushOrdered DEF BurstSuspends, KeyframeInv, KeyframeDue
<1>7. ASSUME NEW outcome, NEW code, pc = "burst", BurstEnds(outcome, code)
      PROVE  KeyframeInv'
  BY <1>7, FlushOrdered DEF BurstEnds, KeyframeInv, KeyframeDue
<1>8. CASE BurstReturns \/ BurstThrows \/ BurstAborts \/ BurstUnprepared
  BY <1>7, <1>8 DEF BurstReturns, BurstThrows, BurstAborts, BurstUnprepared
<1>9. CASE PreludeFails
  BY <1>1, <1>9 DEF PreludeFails
<1>10. CASE PreludeReturns
  BY <1>2, <1>10 DEF PreludeReturns, KeyframeInv, KeyframeDue
<1>11. CASE AdvanceNotStarted \/ AdvanceStopped \/ AdvanceLimit
  BY <1>1, <1>11 DEF AdvanceNotStarted, AdvanceStopped, AdvanceLimit, registryVars
<1>12. CASE AdvanceTick
  <2>1. /\ keyframes' = keyframes /\ keyframes \in Seq(Nat)
        /\ sceneFrame < sceneFrame' /\ sceneFrame \in Nat /\ sceneFrame' \in Nat
        /\ pc' # "prelude"
    BY <1>12 DEF AdvanceTick, CanTick, FieldsOK, ClockInv, SceneNotAhead
  <2>2. \A i \in 1..Len(keyframes) : keyframes[i] \in Nat /\ keyframes[i] < sceneFrame'
    BY <2>1 DEF KeyframeInv, KeyframesOrdered
  <2> QED BY <2>1, <2>2 DEF KeyframeInv, KeyframeDue, KeyframesOrdered
<1>13. CASE \E n \in FrameCaps : SetMaxFrames(n)
  BY <1>1, <1>13 DEF SetMaxFrames, registryVars
<1>14. CASE \E on \in BOOLEAN : SetRecordKeyframes(on)
  BY <1>1, <1>14 DEF SetRecordKeyframes, registryVars
<1>15. CASE UNCHANGED vars
  BY <1>1, <1>15 DEF vars, registryVars
<1> QED
  BY <1>3, <1>4, <1>5, <1>6, <1>8, <1>9, <1>10, <1>11, <1>12, <1>13, <1>14, <1>15
     DEF Next, Start, Execute, Advance

-----------------------------------------------------------------------------
\* A session is created with the invariant.
LEMMA InitIInv == Init => IInv
<1> SUFFICES ASSUME Init PROVE IInv
  OBVIOUS
<1>1. FlagsOK
  BY Zenon DEF Init, FlagsOK
<1>2. FieldsOK
  BY SessionAssumption DEF Init, FieldsOK, Errors, Results
<1>3. ClockInv
  BY DEF Init, ClockInv, OnStack, SceneNotAhead, WakeAhead, OneClock, Asleep, CanTick
<1>4. KeyframeInv
  BY DEF Init, KeyframeInv, KeyframeDue, KeyframesOrdered
<1> QED BY <1>1, <1>2, <1>3, <1>4 DEF IInv, TypeOK

\* The inductive invariant holds in every reachable state.
THEOREM Invariance == Spec => []IInv
<1>1. IInv /\ [Next]_vars => IInv'
  BY NextFlags, NextFields, NextClock, NextKeyframes DEF IInv, TypeOK
<1> QED BY <1>1, InitIInv, PTL DEF Spec

\* No field of a session ever holds a value outside its type.
THEOREM TypeCorrect == Spec => []TypeOK
<1>1. IInv => TypeOK BY DEF IInv
<1> QED BY <1>1, Invariance, PTL

\* No call of advance() lets the clock run past the wake frame of a sleeping script.
THEOREM NeverOversleeps == Spec => []WakeAhead
<1>1. IInv => WakeAhead BY DEF IInv, ClockInv
<1> QED BY <1>1, Invariance, PTL

\* While there is a script to run, the scene's frame is the session's.
THEOREM ClocksAgree == Spec => []OneClock
<1>1. IInv => OneClock BY DEF IInv, ClockInv
<1> QED BY <1>1, Invariance, PTL

\* A timeline never holds two keyframes of one frame, nor keyframes out of order.
THEOREM TimelineOrdered == Spec => []KeyframesOrdered
<1>1. IInv => KeyframesOrdered BY DEF IInv, KeyframeInv
<1> QED BY <1>1, Invariance, PTL

\* A suspended script is resumed in the very frame it asked for, with a fresh budget.
THEOREM WakesOnTime == Spec => ResumedOnTime
<1>1. IInv /\ [Next]_vars => [Resumed => frame' = wake /\ steps' = 0]_vars
  <2> SUFFICES ASSUME IInv, [Next]_vars, Resumed PROVE frame' = wake /\ steps' = 0
    OBVIOUS
  <2>1. ~Start
    BY DEF Resumed, Start, StartNull, StartNoContext, StartMain, StartPrelude, ResetScene,
       IInv, TypeOK, FieldsOK
  <2>2. ~Execute
    BY DEF Resumed, Execute, ScriptLine, Executing, BurstSuspends, BurstReturns,
       BurstThrows, BurstAborts, BurstUnprepared, PreludeFails, PreludeReturns
  <2>3. ~UNCHANGED pc
    BY DEF Resumed
  <2>4. AdvanceTick
    BY <2>1, <2>2, <2>3 DEF Next, Advance, AdvanceNotStarted, AdvanceStopped, AdvanceLimit,
       SetMaxFrames, SetRecordKeyframes, vars
  <2> QED
    BY <2>4 DEF Resumed, AdvanceTick, CanTick, IInv, ClockInv, WakeAhead, Asleep, TypeOK,
       FieldsOK
<1> QED BY <1>1, Invariance, PTL DEF Spec, ResumedOnTime

-----------------------------------------------------------------------------
\* A session without a context has said so, in whatever state it is.
NoContextSaid == started /\ ctx = "none" => error # "none"

\* error() is overwritten by a session with a context only.
LEMMA NextSaid == NoContextSaid /\ [Next]_vars => NoContextSaid'
<1> SUFFICES ASSUME NoContextSaid, [Next]_vars PROVE NoContextSaid'
  OBVIOUS
<1> USE DEF NoContextSaid, sessionVars
<1>1. CASE Start
  BY <1>1 DEF Start, StartNull, StartNoContext, StartMain, StartPrelude, ResetScene, EnterMain
<1>2. CASE ScriptLine \/ \E n \in -1..LongestWait : BurstSuspends(n)
  BY <1>2 DEF ScriptLine, BurstSuspends
<1>3. CASE BurstReturns \/ BurstThrows \/ BurstAborts \/ BurstUnprepared
  BY <1>3 DEF BurstReturns, BurstThrows, BurstAborts, BurstUnprepared, BurstEnds
<1>4. CASE PreludeFails \/ PreludeReturns
  BY <1>4 DEF PreludeFails, PreludeReturns, EnterMain
<1>5. CASE Advance
  BY <1>5 DEF Advance, AdvanceNotStarted, AdvanceStopped, AdvanceLimit, AdvanceTick
<1>6. CASE (\E n \in FrameCaps : SetMaxFrames(n)) \/ (\E on \in BOOLEAN : SetRecordKeyframes(on))
  BY <1>6 DEF SetMaxFrames, SetRecordKeyframes
<1>7. CASE UNCHANGED vars
  BY <1>7 DEF vars
<1> QED
  BY <1>1, <1>2, <1>3, <1>4, <1>5, <1>6, <1>7 DEF Next, Execute

\* A session that lost its context in a restart goes on reporting an error.
THEOREM LossIsReported == Spec => []LossReported
<1>1. Init => NoContextSaid
  BY DEF Init, NoContextSaid
<1>2. NoContextSaid => LossReported
  BY DEF NoContextSaid, LossReported, CanTick
<1> QED BY <1>1, <1>2, NextSaid, PTL DEF Spec

\* A session that has returned, failed or reached its cap is not moved by any call but
\* start().
THEOREM EndIsKept == Spec => EndIsFinal
<1> DEFINE Frozen == UNCHANGED <<finished, limit, frame, ctx, registryVars>>
<1>1. IInv /\ [Next]_vars => [Ended /\ starts' = starts => Frozen]_vars
  <2> SUFFICES ASSUME IInv, [Next]_vars, Ended, starts' = starts PROVE Frozen
    OBVIOUS
  <2>1. ~StartMain /\ ~StartPrelude /\ ~StartNull /\ ~StartNoContext
    BY DEF StartNull, StartNoContext, StartMain, StartPrelude, ResetScene, IInv, TypeOK, FieldsOK
  <2>2. ~Execute
    BY DEF Ended, Execute, ScriptLine, Executing, BurstSuspends, BurstReturns,
       BurstThrows, BurstAborts, BurstUnprepared, PreludeFails, PreludeReturns
  <2>3. ~AdvanceLimit /\ ~AdvanceTick
    BY DEF Ended, AdvanceLimit, AdvanceTick, CanTick
  <2> QED
    BY <2>1, <2>2, <2>3 DEF Next, Start, Advance, AdvanceNotStarted, AdvanceStopped,
       SetMaxFrames, SetRecordKeyframes, sessionVars, registryVars, vars
<1> QED BY <1>1, Invariance, PTL DEF Spec, EndIsFinal

-----------------------------------------------------------------------------
\* A fresh session is a clock whose script is not born.
LEMMA InitClock == Init => Clock!ClockInit
  BY DEF Init, Clock!ClockInit, Phase

\* Every step of a session is a step of the clock, or leaves the clock alone.
LEMMA NextImplements == IInv /\ [Next]_vars => [Clock!ClockNext]_Clock!clockVars
<1> SUFFICES ASSUME IInv, [Next]_vars
             PROVE  Clock!ClockNext \/ UNCHANGED <<frame, wake, Phase>>
  BY DEF Clock!clockVars
<1> USE DEF IInv, TypeOK, FieldsOK, ClockInv, OnStack, Phase, sessionVars
<1> DEFINE Same == UNCHANGED <<frame, wake, Phase>>
<1>1. CASE StartNull \/ StartNoContext
  BY <1>1 DEF StartNull, StartNoContext
<1>2. CASE StartMain
  <2>1. Clock!Begin
    BY <1>2 DEF StartMain, ResetScene, EnterMain, Clock!Begin
  <2> QED BY <2>1 DEF Clock!ClockNext
<1>3. CASE StartPrelude
  <2>1. Clock!Abandon
    BY <1>3 DEF StartPrelude, ResetScene, Clock!Abandon
  <2> QED BY <2>1 DEF Clock!ClockNext
<1>4. CASE ScriptLine
  BY <1>4 DEF ScriptLine
<1>5. ASSUME NEW n \in -1..LongestWait, BurstSuspends(n) PROVE Clock!ClockNext
  <2>1. Larger(1, n) \in 1..LongestWait
    BY SessionAssumption DEF Larger
  <2>2. Clock!Sleep(Larger(1, n))
    BY <1>5 DEF BurstSuspends, Clock!Sleep
  <2> QED BY <2>1, <2>2 DEF Clock!ClockNext
<1>6. ASSUME NEW outcome, NEW code, pc = "burst", BurstEnds(outcome, code)
      PROVE  Clock!ClockNext
  <2>1. Clock!Return
    BY <1>6 DEF BurstEnds, Clock!Return
  <2> QED BY <2>1 DEF Clock!ClockNext
<1>7. CASE BurstReturns \/ BurstThrows \/ BurstAborts \/ BurstUnprepared
  BY <1>6, <1>7 DEF BurstReturns, BurstThrows, BurstAborts, BurstUnprepared
<1>8. CASE PreludeFails
  BY <1>8 DEF PreludeFails
<1>9. CASE PreludeReturns
  <2>1. Clock!Begin
    BY <1>9 DEF PreludeReturns, EnterMain, Clock!Begin
  <2> QED BY <2>1 DEF Clock!ClockNext
<1>10. CASE AdvanceNotStarted \/ AdvanceStopped
  BY <1>10 DEF AdvanceNotStarted, AdvanceStopped
<1>11. CASE AdvanceLimit
  <2>1. Clock!Halt
    BY <1>11 DEF AdvanceLimit, CanTick, Clock!Halt
  <2> QED BY <2>1 DEF Clock!ClockNext
<1>12. CASE AdvanceTick
  <2>1. Clock!Tick
    BY <1>12 DEF AdvanceTick, CanTick, Clock!Tick
  <2> QED BY <2>1 DEF Clock!ClockNext
<1>13. CASE \E n \in FrameCaps : SetMaxFrames(n)
  BY <1>13 DEF SetMaxFrames
<1>14. CASE \E on \in BOOLEAN : SetRecordKeyframes(on)
  BY <1>14 DEF SetRecordKeyframes
<1>15. CASE UNCHANGED vars
  BY <1>15 DEF vars
<1> QED
  BY <1>1, <1>2, <1>3, <1>4, <1>5, <1>7, <1>8, <1>9, <1>10, <1>11, <1>12, <1>13, <1>14,
     <1>15 DEF Next, Start, Execute, Advance

\* A runtime session implements the scene clock the other modules are built on.
THEOREM Refinement == Spec => ImplementsClock
  BY InitClock, NextImplements, Invariance, PTL DEF Spec, Clock!ClockSpec, ImplementsClock

-----------------------------------------------------------------------------
\* Host::run() calls nothing but the session: each of its steps is one of the session's or
\* leaves the session alone.
LEMMA RunIsSession == [RunNext]_runVars => [Next]_vars
  BY DEF RunNext, RunStarts, RunExecutes, RunFails, RunEntersLoop, RunAdvances, RunReturns,
     Next, Start, runVars

\* A run of Host::run() is a behaviour of a session: every theorem about sessions above is
\* one about it.
THEOREM RunRefinement == RunSpec => Spec
  BY RunIsSession, PTL DEF RunSpec, RunInit, Spec

\* The recording is on and, once the script has run, begins with frame 0.
Recorded == keyframes # <<>> /\ keyframes[1] = 0

\* Where run() is, against the session: it calls start() on a fresh one and leaves it in its
\* first burst; from its loop on, there is a recording, and nothing of an ended script's
\* last burst is missing in it.
RunInv ==
  /\ record = TRUE
  /\ at \in {"entry", "starting", "loop", "returned"}
  /\ at \in {"entry", "returned"} => pc = "idle"
  /\ pc # "prelude"
  /\ at = "starting" /\ pc = "burst" =>
       started /\ error = "none" /\ frame = 0 /\ sceneFrame = 0 /\ keyframes = <<>>
  /\ at = "starting" /\ pc = "idle" /\ result = "Started" =>
       started /\ Recorded /\ (finished => ~dirty)
  /\ at = "starting" /\ pc = "idle" => result \in {"Started", "StartFailed"}
  /\ at = "starting" => pc # "crashed"
  /\ at = "loop" => started /\ Recorded /\ result # "StartFailed"
  /\ at = "loop" /\ pc = "burst" => frame > 0
  /\ at = "loop" /\ pc = "idle" /\ finished => ~dirty
  /\ TimelineWhole

\* What flush_keyframe() leaves in a recording session: a timeline that begins where it
\* began, or with the scene's frame, and nothing unrecorded.
LEMMA FlushRecords ==
  ASSUME FieldsOK, FlagsOK, record = TRUE, NEW changed \in BOOLEAN, FlushKeyframe(changed)
  PROVE  /\ keyframes' # <<>>
         /\ keyframes'[1] = IF keyframes = <<>> THEN sceneFrame ELSE keyframes[1]
         /\ ~dirty'
<1>1. CASE keyframes = <<>> \/ dirty \/ changed
  <2>1. keyframes' = Append(keyframes, sceneFrame) /\ dirty' = FALSE
    BY <1>1 DEF FlushKeyframe
  <2> QED BY <2>1 DEF FieldsOK
<1>2. CASE ~(keyframes = <<>> \/ dirty \/ changed)
  BY <1>2 DEF FlushKeyframe
<1> QED BY <1>1, <1>2

LEMMA RunInvariance == IInv /\ RunInv /\ [RunNext]_runVars => RunInv'
<1> SUFFICES ASSUME IInv, RunInv, [RunNext]_runVars PROVE RunInv'
  OBVIOUS
<1> USE DEF RunInv, Recorded, TimelineWhole
<1>0. FieldsOK /\ FlagsOK
  BY DEF IInv, TypeOK
<1>1. CASE RunStarts
  <2>1. CASE StartNull \/ StartNoContext
    BY <1>1, <2>1 DEF RunStarts, StartNull, StartNoContext, registryVars
  <2>2. CASE StartMain
    BY <1>1, <2>2 DEF RunStarts, StartMain, ResetScene, EnterMain
  <2> QED BY <1>1, <2>1, <2>2 DEF RunStarts
<1>2. CASE RunExecutes
  <2>1. at \in {"starting", "loop"} /\ at' = at /\ timeline' = timeline /\ pc = "burst"
    BY <1>2 DEF RunExecutes, Execute, ScriptLine, Executing, BurstSuspends, BurstReturns,
       BurstThrows, BurstAborts, BurstUnprepared, PreludeFails, PreludeReturns
  <2>2. CASE ScriptLine
    BY <2>1, <2>2 DEF ScriptLine, sessionVars
  <2>3. ASSUME pc' = "idle", UNCHANGED <<started, record>>,
               NEW code, result' \in {Returned("Advanced", code), Returned("Finished", code)},
               error = "none" => code \in {"none", "scriptFailed"},
               NEW changed \in BOOLEAN, FlushKeyframe(changed)
        PROVE  RunInv'
    <3>1. /\ keyframes' # <<>> /\ ~dirty'
          /\ keyframes'[1] = IF keyframes = <<>> THEN sceneFrame ELSE keyframes[1]
      BY <1>0, <2>3, FlushRecords
    <3>2. CASE at = "starting"
      BY <2>1, <2>3, <3>1, <3>2 DEF Returned
    <3>3. CASE at = "loop"
      BY <2>1, <2>3, <3>1, <3>3 DEF Returned
    <3> QED BY <2>1, <3>2, <3>3
  <2>4. ASSUME NEW n \in -1..LongestWait, BurstSuspends(n) PROVE RunInv'
    <3>1. PICK changed \in BOOLEAN : FlushKeyframe(changed)
      BY <2>4 DEF BurstSuspends
    <3> QED BY <2>3, <2>4, <3>1 DEF BurstSuspends, sessionVars
  <2>5. ASSUME NEW outcome, NEW code \in {error, "scriptFailed"}, BurstEnds(outcome, code)
        PROVE  RunInv'
    <3>1. PICK changed \in BOOLEAN : FlushKeyframe(changed)
      BY <2>5 DEF BurstEnds
    <3> QED BY <2>3, <2>5, <3>1 DEF BurstEnds
  <2>6. CASE BurstReturns \/ BurstThrows \/ BurstAborts \/ BurstUnprepared
    BY <2>5, <2>6 DEF BurstReturns, BurstThrows, BurstAborts, BurstUnprepared
  <2> QED
    BY <1>2, <2>1, <2>2, <2>4, <2>6 DEF RunExecutes, Execute, PreludeFails, PreludeReturns
<1>3. ASSUME UNCHANGED vars
      PROVE  UNCHANGED <<pc, started, finished, error, frame, record, sceneFrame, dirty, keyframes, result>>
  BY <1>3 DEF vars, sessionVars, registryVars
<1>4. CASE RunFails
  BY <1>3, <1>4 DEF RunFails
<1>5. CASE RunEntersLoop
  BY <1>3, <1>5 DEF RunEntersLoop, vars
<1>6. CASE RunReturns
  BY <1>3, <1>6 DEF RunReturns
<1>7. CASE RunAdvances
  <2>1. AdvanceLimit \/ AdvanceTick
    BY <1>7 DEF RunAdvances, Advance, AdvanceNotStarted, AdvanceStopped
  <2>2. CASE AdvanceLimit
    BY <1>7, <2>2 DEF RunAdvances, AdvanceLimit, registryVars
  <2>3. CASE AdvanceTick
    BY <1>0, <1>7, <2>3 DEF RunAdvances, AdvanceTick, FieldsOK
  <2> QED BY <2>1, <2>2, <2>3
<1>8. CASE UNCHANGED runVars
  BY <1>3, <1>8 DEF runVars
<1> QED BY <1>1, <1>2, <1>4, <1>5, <1>6, <1>7, <1>8 DEF RunNext

\* What Host::run() returns is the whole recording, for every wait, step budget, frame cap
\* and context that cannot be had.
THEOREM RunReturnsAll == RunSpec => []TimelineWhole
<1>1. RunInit => RunInv
  BY DEF RunInit, Init, RunInv, TimelineWhole
<1>2. RunInv => TimelineWhole
  BY DEF RunInv
<1>3. RunSpec => [][RunNext]_runVars /\ RunInit
  BY PTL DEF RunSpec
<1> QED BY <1>1, <1>2, <1>3, RunInvariance, RunRefinement, Invariance, PTL

=============================================================================
