----------------------------- MODULE ScreenFade -----------------------------
(***************************************************************************)
(* The screen overlay: SceneState::fades, the natives that append to it     *)
(* (ColorFade*, TutorialFadeAsync, CrossFadeAsync), the native that waits   *)
(* for it (WaitFadeDone) or for a number of frames (Wait), and fade_at(),   *)
(* which the renderer evaluates in every frame.                             *)
(*                                                                         *)
(* Of the overlay's colour the model keeps the alpha channel, 0..Opaque.    *)
(***************************************************************************)
EXTENDS ScriptClock, FiniteSetsExt, SequencesExt

CONSTANTS
  Opaque,        \* alpha of an opaque overlay (1.0f)
  FadeTargets,   \* alphas the script fades to
  FadeTimes,     \* the time arguments the script passes
  WaitTimes,     \* the arguments of Wait
  Word,          \* 2^32, the values of a 32-bit argument
  MaxClock,      \* bound: frames
  MaxFades       \* bound: entries of the fade list

ASSUME FadeAssumption ==
  /\ Opaque \in Nat \ {0}
  /\ FadeTargets \subseteq 0..Opaque
  /\ FadeTimes \subseteq Int
  /\ \A t \in FadeTimes : 2 * t <= LongestWait
  /\ LongestWait >= 2
  /\ Word \in Nat \ {0} /\ Word <= LongestWait + 1
  /\ WaitTimes \subseteq Int
  /\ MaxClock \in Nat /\ MaxFades \in Nat

VARIABLES
  fades,       \* SceneState::fades
  awaiting     \* TRUE while the script is parked by WaitFadeDone

vars == <<clockVars, fades, awaiting>>

-----------------------------------------------------------------------------
(* fade_at(): a fade that has begun hides the ones before it in the list. *)
Begun(fs, f) == {i \in 1..Len(fs) : fs[i].start <= f}

Shade(s, f) ==
  IF f >= s.end THEN s.to
  ELSE s.from + ((s.to - s.from) * (f - s.start)) \div (s.end - s.start)

FadeAt(fs, f) == IF Begun(fs, f) = {} THEN 0 ELSE Shade(fs[Max(Begun(fs, f))], f)

\* Mutant: the end of the first fade.
FadeEndOfFirst == IF fades = <<>> THEN 0 ELSE fades[1].end

FadeEnd == IF fades = <<>> THEN 0 ELSE Last(fades).end

AtLeastOne(t) == IF t > 1 THEN t ELSE 1

Fade(start, time, from, to) == [start |-> start, end |-> start + time, from |-> from, to |-> to]

-----------------------------------------------------------------------------
Init ==
  /\ ClockInit
  /\ fades = <<>>
  /\ awaiting = FALSE

Native == phase = "run" /\ UNCHANGED <<clockVars, awaiting>>

\* Mutant: starts from the target of the last fade.
ColorFadeFromTarget(to, time) ==
  /\ Native
  /\ Len(fades) < MaxFades
  /\ LET from == IF fades # <<>> THEN Last(fades).to
                 ELSE IF 2 * to < Opaque THEN Opaque ELSE 0
     IN  fades' = Append(fades, Fade(clock, AtLeastOne(time), from, to))

\* Mutant: only the newest fade is kept.
ColorFadeAlone(to, time) ==
  /\ Native
  /\ LET from == IF fades # <<>> THEN FadeAt(fades, clock)
                 ELSE IF 2 * to < Opaque THEN Opaque ELSE 0
     IN  fades' = <<Fade(clock, AtLeastOne(time), from, to)>>

\* push_fade().  Before the first fade the overlay is opaque when the scene fades in and
\* clear when it fades out.
ColorFade(to, time) ==
  /\ Native
  /\ Len(fades) < MaxFades
  /\ LET from == IF fades # <<>> THEN FadeAt(fades, clock)
                 ELSE IF 2 * to < Opaque THEN Opaque ELSE 0
     IN  fades' = Append(fades, Fade(clock, AtLeastOne(time), from, to))

\* A dip to black: half the way in, half the way out.
CrossFade(time) ==
  /\ Native
  /\ Len(fades) + 1 < MaxFades
  /\ LET t      == AtLeastOne(time)
         dip    == Append(fades, Fade(clock, t, FadeAt(fades, clock), Opaque))
         middle == FadeAt(dip, clock + t)
     IN  fades' = Append(dip, Fade(clock + t, t, middle, 0))

WaitFadeDone ==
  /\ FadeEnd > clock
  /\ Sleep(FadeEnd - clock)
  /\ awaiting' = TRUE
  /\ UNCHANGED fades

\* Wait(n).  The argument is an int, read with GetArgDWord(): as an unsigned word.
DWord(n) == n % Word

Wait(n) ==
  /\ Sleep(AtLeastOne(DWord(n)))
  /\ awaiting' = FALSE
  /\ UNCHANGED fades

\* RuntimeSession::start(): Registry::reset() empties the list.
Start ==
  /\ Begin
  /\ fades' = <<>>
  /\ awaiting' = FALSE

Frame ==
  /\ clock < MaxClock
  /\ Tick
  /\ UNCHANGED <<fades, awaiting>>

End == (Return \/ Halt) /\ UNCHANGED <<fades, awaiting>>

Next ==
  \/ \E to \in FadeTargets, time \in FadeTimes : ColorFade(to, time)
  \/ \E time \in FadeTimes : CrossFade(time)
  \/ WaitFadeDone
  \/ \E n \in WaitTimes : Wait(n)
  \/ Start
  \/ Frame
  \/ End

Spec == Init /\ [][Next]_vars

-----------------------------------------------------------------------------
FadeRecord == [start : Nat, end : Nat, from : 0..Opaque, to : 0..Opaque]

\* Every fade is a record fade_at() can evaluate: it ends after it starts, and fades from
\* and to an alpha.
TypeOK ==
  /\ clock \in Nat /\ alarm \in Nat /\ phase \in Phases /\ awaiting \in BOOLEAN
  /\ fades \in Seq(FadeRecord)
  /\ \A i \in 1..Len(fades) : fades[i].start < fades[i].end

\* The overlay does not flash: a fade starts from the colour that is on the screen, also
\* when it interrupts another one or the second half of a cross fade.  (The first fade of
\* a scene may start from an opaque screen.)
NoFlash == [][fades' # fades /\ fades # <<>> /\ fades' # <<>> =>
                FadeAt(fades', clock) = FadeAt(fades, clock)]_vars

\* What was on the screen stays recorded: a fade pushed in some frame changes no earlier
\* one, so a recorded list can be replayed from any frame.
PastKept == [][fades' # <<>> =>
                 \A f \in 0..(clock - 1) : FadeAt(fades', f) = FadeAt(fades, f)]_vars

\* WaitFadeDone keeps its promise: when the script runs on, the overlay has reached the
\* target of the last fade, and stays there.
FadeIsDone == [][awaiting /\ phase = "sleep" /\ phase' = "run" /\ fades' # <<>> =>
                   \A f \in clock'..(clock' + LongestWait) :
                     FadeAt(fades, f) = Last(fades).to]_vars

=============================================================================
