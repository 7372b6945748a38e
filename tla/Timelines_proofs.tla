--------------------------- MODULE Timelines_proofs ---------------------------
(***************************************************************************)
(* Two lists a scene records by the frame, and those who play them: the     *)
(* fades, evaluated by fade_at(), and the effects, followed by the viewer's  *)
(* EffectManager.                                                           *)
(*                                                                         *)
(* Fades.  The overlay does not flash, its past stays recorded, and         *)
(* WaitFadeDone keeps its promise: for all alphas, times, arguments of Wait, *)
(* and lists of any length.  The inductive invariant is small: the list     *)
(* holds fades that end after they start, and a script parked by            *)
(* WaitFadeDone has the end of the last one for its alarm.  The rest is      *)
(* about fade_at(), which picks the last fade of the list that has begun.   *)
(*                                                                         *)
(* Effects.  Those on show, and their places, are what the list read as a   *)
(* whole asks for.  The inductive invariant says the same of the events     *)
(* before the cursor, and one event further is one lemma for each kind of   *)
(* wish; the loop of update() repeats it, in the frame of a sync.           *)
(***************************************************************************)
EXTENDS ScreenFade, Effects, SequenceTheorems, WellFoundedInduction, TLAPS

(* Numbers: greatest elements, induction, division. *)

LEMMA MaxIs ==
  ASSUME NEW S \in SUBSET Int, NEW m \in S, \A j \in S : j <= m
  PROVE  Max(S) = m
<1>1. \A x \in S : (\A y \in S : x >= y) => x = m
  OBVIOUS
<1>2. \E x \in S : \A y \in S : x >= y
  OBVIOUS
<1> QED
  BY <1>1, <1>2 DEF Max

LEMMA MinOfNats ==
  ASSUME NEW T, T \subseteq Nat, T # {}
  PROVE  \E x \in T : \A y \in T : x <= y
<1>1. IsWellFoundedOn(OpToRel(<, Nat), Nat)
  BY NatLessThanWellFounded
<1>2. PICK x \in T : \A y \in T : ~(<<y, x>> \in OpToRel(<, Nat))
  BY <1>1, WFMin
<1>3. \A y \in T : ~(y < x)
  BY <1>2 DEF OpToRel
<1> QED
  BY <1>3

LEMMA MaxOfBounded ==
  ASSUME NEW n \in Nat, NEW S \in SUBSET (1..n), S # {}
  PROVE  Max(S) \in S /\ \A j \in S : j <= Max(S)
<1> DEFINE T == {n - x : x \in S}
<1>1. T \subseteq Nat /\ T # {}
  <2>1. \A x \in S : x \in 1..n
    OBVIOUS
  <2>2. \A x \in 1..n : n - x \in Nat
    OBVIOUS
  <2> QED
    BY <2>1, <2>2
<1>2. PICK k \in T : \A y \in T : k <= y
  BY <1>1, MinOfNats
<1>3. PICK m \in S : k = n - m
  OBVIOUS
<1>4. ASSUME NEW j \in S PROVE j <= m
  <2>1. n - j \in T
    OBVIOUS
  <2>2. n - m <= n - j
    BY <1>2, <1>3, <2>1
  <2> QED
    BY <2>2
<1>5. S \in SUBSET Int
  OBVIOUS
<1>6. Max(S) = m
  BY <1>4, <1>5, MaxIs
<1> QED
  BY <1>4, <1>6

-----------------------------------------------------------------------------
(* Interpolation stays between its ends. *)

\* Induction, for a set in place of a predicate.
LEMMA Counting ==
  ASSUME NEW T, 0 \in T, \A n \in Nat : n \in T => n + 1 \in T
  PROVE  Nat \subseteq T
<1> SUFFICES ASSUME Nat \ T # {} PROVE FALSE
  OBVIOUS
<1>1. PICK m \in Nat \ T : \A y \in Nat \ T : m <= y
  BY MinOfNats
<1>2. m - 1 \in Nat
  BY <1>1
<1>3. m - 1 \in T
  BY <1>1, <1>2
<1>4. (m - 1) + 1 = m
  BY <1>1
<1> QED
  BY <1>1, <1>2, <1>3, <1>4

LEMMA MulCancel ==
  ASSUME NEW m \in Int, NEW n \in Int, NEW d \in Nat \ {0}, d * m < d * n + d
  PROVE  m <= n
<1>1. SUFFICES ASSUME m >= n + 1 PROVE FALSE
  OBVIOUS
<1>2. d * (m - n - 1) >= 0
  BY <1>1
<1>3. d * (m - n - 1) = d * m - d * n - d
  OBVIOUS
<1> QED
  BY <1>2, <1>3

LEMMA MulUp ==
  ASSUME NEW e \in Nat, NEW k \in Nat, NEW d \in Nat, k <= d
  PROVE  0 <= e * k /\ e * k <= d * e
<1>1. e * (d - k) >= 0 /\ e * k >= 0
  OBVIOUS
<1>2. e * (d - k) = d * e - e * k
  OBVIOUS
<1> QED
  BY <1>1, <1>2

LEMMA DivIs ==
  ASSUME NEW x \in Int, NEW d \in Nat \ {0}
  PROVE  /\ x \div d \in Int /\ d * (x \div d) <= x /\ x < d * (x \div d) + d
OBVIOUS

-----------------------------------------------------------------------------
(* Fades. *)

USE FadeAssumption, LongestWaitAssumption

\* A fade fade_at() can evaluate.
Proper(s) == s \in FadeRecord /\ s.start < s.end

FadeList(fs) == fs \in Seq(FadeRecord) /\ \A i \in 1..Len(fs) : Proper(fs[i])

FadeTypes ==
  /\ clock \in Nat /\ alarm \in Nat /\ phase \in Phases /\ awaiting \in BOOLEAN
  /\ FadeList(fades)

AwaitsAFade == awaiting /\ phase = "sleep" => fades # <<>> /\ alarm = Last(fades).end

FadesInv == FadeTypes /\ AwaitsAFade

\* Interpolation stays between its ends.
LEMMA Part ==
  ASSUME NEW c \in Nat, NEW a \in 0..c, NEW b \in 0..c, NEW k \in Nat, NEW d \in Nat \ {0}, k <= d
  PROVE  a + ((b - a) * k) \div d \in 0..c
<1> DEFINE x == (b - a) * k
           q == x \div d
<1>0. a \in Nat /\ b \in Nat /\ b - a \in Int /\ 0 \in Int /\ d \in Nat \ {0}
  OBVIOUS
<1>1. x \in Int
  OBVIOUS
<1>2. q \in Int /\ d * q <= x /\ x < d * q + d
  BY <1>1, DivIs
<1> SUFFICES a + q \in 0..c
  OBVIOUS
<1>3. CASE a <= b
  <2>1. 0 <= x /\ x <= d * (b - a)
    BY <1>3, MulUp
  <2> HIDE DEF x, q
  <2>2. q <= b - a
    <3>1. d * q < d * (b - a) + d
      BY <1>1, <1>2, <2>1
    <3> QED
      BY <1>0, <1>2, <3>1, MulCancel, Zenon
  <2>3. 0 <= q
    <3>1. d * 0 < d * q + d
      BY <1>1, <1>2, <2>1
    <3> QED
      BY <1>0, <1>2, <3>1, MulCancel, Zenon
  <2> QED
    BY <1>0, <1>2, <2>2, <2>3
<1>4. CASE b < a
  <2> DEFINE y == (a - b) * k
  <2>0. y \in Int /\ x = 0 - y
    OBVIOUS
  <2>1. 0 <= y /\ y <= d * (a - b)
    BY <1>4, MulUp
  <2> HIDE DEF x, q, y
  <2>2. q <= 0
    <3>1. d * q < d * 0 + d
      BY <1>1, <1>2, <2>0, <2>1
    <3> QED
      BY <1>0, <1>2, <3>1, MulCancel, Zenon
  <2>3. b - a <= q
    <3>1. d * (b - a) = 0 - d * (a - b)
      OBVIOUS
    <3>2. d * (b - a) < d * q + d
      BY <1>1, <1>2, <2>0, <2>1, <3>1
    <3> QED
      BY <1>0, <1>2, <3>2, MulCancel, Zenon
  <2> QED
    BY <1>0, <1>2, <2>2, <2>3
<1> QED
  BY <1>3, <1>4
-----------------------------------------------------------------------------
(* fade_at() *)

LEMMA ShadeIsAlpha ==
  ASSUME NEW s, Proper(s), NEW f \in Int, s.start <= f
  PROVE  Shade(s, f) \in 0..Opaque
<1>1. s.start \in Int /\ s.end \in Int /\ s.from \in 0..Opaque /\ s.to \in 0..Opaque /\ Opaque \in Nat
  BY DEF Proper, FadeRecord
<1>2. CASE f >= s.end
  BY <1>1, <1>2 DEF Shade
<1>3. CASE ~(f >= s.end)
  <2> DEFINE k == f - s.start
             d == s.end - s.start
  <2>1. k \in Nat /\ d \in Nat \ {0} /\ k <= d
    BY <1>1, <1>3
  <2> HIDE DEF k, d
  <2>2. s.from + ((s.to - s.from) * k) \div d \in 0..Opaque
    BY <1>1, <2>1, Part
  <2> QED
    BY <1>3, <2>2 DEF Shade, k, d
<1> QED
  BY <1>2, <1>3

LEMMA ShadeAtStart ==
  ASSUME NEW s, Proper(s)
  PROVE  Shade(s, s.start) = s.from
<1>1. s.start \in Int /\ s.end \in Int /\ s.from \in Int /\ s.to \in Int /\ s.end - s.start \in Nat \ {0}
      /\ ~(s.start >= s.end)
  BY DEF Proper, FadeRecord
<1>2. (s.to - s.from) * (s.start - s.start) = 0
  BY <1>1
<1>3. \A n \in Nat \ {0} : 0 \div n = 0
  OBVIOUS
<1> QED
  BY <1>1, <1>2, <1>3 DEF Shade

LEMMA LastBegun ==
  ASSUME NEW fs, FadeList(fs), NEW f \in Int, Begun(fs, f) # {}
  PROVE  Max(Begun(fs, f)) \in Begun(fs, f) /\ Begun(fs, f) \subseteq 1..Len(fs)
<1>1. Len(fs) \in Nat /\ Begun(fs, f) \in SUBSET (1..Len(fs))
  BY LenProperties DEF FadeList, Begun
<1> QED
  BY <1>1, MaxOfBounded

LEMMA FadeAtAlpha ==
  ASSUME NEW fs, FadeList(fs), NEW f \in Int
  PROVE  FadeAt(fs, f) \in 0..Opaque
<1>1. CASE Begun(fs, f) = {}
  BY <1>1 DEF FadeAt
<1>2. CASE Begun(fs, f) # {}
  <2>1. Proper(fs[Max(Begun(fs, f))]) /\ fs[Max(Begun(fs, f))].start <= f
    BY <1>2, LastBegun DEF FadeList, Begun
  <2> QED
    BY <1>2, <2>1, ShadeIsAlpha DEF FadeAt
<1> QED
  BY <1>1, <1>2

\* A list with one more fade.
LEMMA Pushed ==
  ASSUME NEW fs, FadeList(fs), NEW s, Proper(s)
  PROVE  /\ FadeList(Append(fs, s)) /\ Append(fs, s) # <<>>
         /\ Len(Append(fs, s)) = Len(fs) + 1 /\ Len(fs) \in Nat
         /\ \A i \in 1..Len(fs) : Append(fs, s)[i] = fs[i]
         /\ Append(fs, s)[Len(fs) + 1] = s
<1>1. fs \in Seq(FadeRecord) /\ s \in FadeRecord
  BY DEF FadeList, Proper
<1>2. /\ Append(fs, s) \in Seq(FadeRecord) /\ Append(fs, s) # <<>>
      /\ Len(Append(fs, s)) = Len(fs) + 1 /\ Len(fs) \in Nat
      /\ \A i \in 1..Len(fs) : Append(fs, s)[i] = fs[i]
      /\ Append(fs, s)[Len(fs) + 1] = s
  BY <1>1, AppendProperties, LenProperties
<1>3. ASSUME NEW i \in 1..Len(fs) + 1 PROVE Proper(Append(fs, s)[i])
  <2>1. CASE i = Len(fs) + 1
    BY <1>2, <2>1
  <2>2. CASE i # Len(fs) + 1
    <3>1. i \in 1..Len(fs)
      BY <1>2, <2>2
    <3> QED
      BY <1>2, <3>1 DEF FadeList
  <2> QED
    BY <2>1, <2>2
<1> QED
  BY <1>2, <1>3 DEF FadeList

\* A fade that has not begun changes nothing.
LEMMA PushLater ==
  ASSUME NEW fs, FadeList(fs), NEW s, Proper(s), NEW f \in Int, f < s.start
  PROVE  FadeAt(Append(fs, s), f) = FadeAt(fs, f)
<1>1. Begun(Append(fs, s), f) = Begun(fs, f)
  <2>1. /\ Len(Append(fs, s)) = Len(fs) + 1 /\ Len(fs) \in Nat
        /\ \A i \in 1..Len(fs) : Append(fs, s)[i] = fs[i]
        /\ Append(fs, s)[Len(fs) + 1] = s
    BY Pushed
  <2>2. ~(s.start <= f)
    BY DEF Proper, FadeRecord
  <2>3. ASSUME NEW i \in 1..Len(fs) + 1 PROVE i = Len(fs) + 1 \/ i \in 1..Len(fs)
    BY <2>1
  <2> QED
    BY <2>1, <2>2, <2>3 DEF Begun
<1>2. CASE Begun(fs, f) = {}
  BY <1>1, <1>2 DEF FadeAt
<1>3. CASE Begun(fs, f) # {}
  <2>1. Max(Begun(fs, f)) \in 1..Len(fs)
    BY <1>3, LastBegun
  <2>2. Append(fs, s)[Max(Begun(fs, f))] = fs[Max(Begun(fs, f))]
    BY <2>1, Pushed
  <2> QED
    BY <1>1, <1>3, <2>2 DEF FadeAt
<1> QED
  BY <1>2, <1>3

\* The last fade of a list hides the others once it has begun.
LEMMA LastShows ==
  ASSUME NEW fs, FadeList(fs), fs # <<>>, NEW f \in Int, Last(fs).start <= f
  PROVE  FadeAt(fs, f) = Shade(Last(fs), f)
<1>1. Len(fs) \in 1..Len(fs) /\ Len(fs) \in Nat
  BY EmptySeq, LenProperties DEF FadeList
<1>2. Len(fs) \in Begun(fs, f) /\ Begun(fs, f) \in SUBSET Int
  BY <1>1 DEF Begun, Last
<1>3. \A j \in Begun(fs, f) : j <= Len(fs)
  BY <1>1 DEF Begun
<1>4. Max(Begun(fs, f)) = Len(fs)
  BY <1>2, <1>3, MaxIs
<1> QED
  BY <1>2, <1>4 DEF FadeAt, Last

\* A fade that begins shows the colour it starts from.
LEMMA PushNow ==
  ASSUME NEW fs, FadeList(fs), NEW s, Proper(s)
  PROVE  FadeAt(Append(fs, s), s.start) = s.from
<1>1. FadeList(Append(fs, s)) /\ Append(fs, s) # <<>> /\ Last(Append(fs, s)) = s
  BY Pushed DEF Last
<1>2. s.start \in Int /\ s.start <= s.start
  BY DEF Proper, FadeRecord
<1>3. FadeAt(Append(fs, s), s.start) = Shade(s, s.start)
  BY <1>1, <1>2, LastShows
<1> QED
  BY <1>3, ShadeAtStart

-----------------------------------------------------------------------------
\* What the two natives that push fades push, in frame `clock`.
LEMMA ColorFadePushes ==
  ASSUME FadesInv, NEW to \in FadeTargets, NEW time \in FadeTimes, ColorFade(to, time)
  PROVE  \E s : /\ Proper(s) /\ s.start = clock /\ fades' = Append(fades, s)
                /\ fades # <<>> => s.from = FadeAt(fades, clock)
<1> DEFINE from == IF fades # <<>> THEN FadeAt(fades, clock) ELSE IF 2 * to < Opaque THEN Opaque ELSE 0
           s    == Fade(clock, AtLeastOne(time), from, to)
<1>1. clock \in Nat /\ FadeList(fades) /\ to \in 0..Opaque /\ AtLeastOne(time) \in Nat \ {0}
  <2>1. clock \in Nat /\ FadeList(fades)
    BY DEF FadesInv, FadeTypes
  <2>2. AtLeastOne(time) \in Nat \ {0}
    <3>1. time \in Int
      OBVIOUS
    <3> QED
      BY <3>1 DEF AtLeastOne
  <2> QED
    BY <2>1, <2>2
<1>2. from \in 0..Opaque
  <2>1. FadeAt(fades, clock) \in 0..Opaque
    <3>1. clock \in Int
      BY <1>1
    <3> QED
      BY <1>1, <3>1, FadeAtAlpha, Zenon
  <2>2. Opaque \in 0..Opaque /\ 0 \in 0..Opaque
    BY <1>1
  <2> QED
    BY <2>1, <2>2, Zenon
<1>3. fades' = Append(fades, s)
  BY DEF ColorFade
<1>4. fades # <<>> => from = FadeAt(fades, clock)
  OBVIOUS
<1> HIDE DEF from
<1>5. Proper(s) /\ s.start = clock /\ s.from = from
  BY <1>1, <1>2 DEF Fade, Proper, FadeRecord
<1> QED
  BY <1>3, <1>4, <1>5

LEMMA CrossFadePushes ==
  ASSUME FadesInv, NEW time \in FadeTimes, CrossFade(time)
  PROVE  \E s, r : /\ Proper(s) /\ s.start = clock /\ s.from = FadeAt(fades, clock)
                   /\ Proper(r) /\ r.start > clock
                   /\ fades' = Append(Append(fades, s), r)
<1> DEFINE t == AtLeastOne(time)
           s == Fade(clock, t, FadeAt(fades, clock), Opaque)
           m == FadeAt(Append(fades, s), clock + t)
           r == Fade(clock + t, t, m, 0)
<1>1. clock \in Nat /\ FadeList(fades) /\ t \in Nat \ {0} /\ clock + t \in Nat /\ clock + t > clock
      /\ Opaque \in 0..Opaque /\ 0 \in 0..Opaque
  BY DEF FadesInv, FadeTypes, AtLeastOne
<1>2. fades' = Append(Append(fades, s), r)
  BY DEF CrossFade
<1> HIDE DEF t
<1>3. FadeAt(fades, clock) \in 0..Opaque
  BY <1>1, FadeAtAlpha
<1>4. Proper(s) /\ s.start = clock /\ s.from = FadeAt(fades, clock)
  BY <1>1, <1>3 DEF Fade, Proper, FadeRecord
<1> HIDE DEF s
<1>5. m \in 0..Opaque
  BY <1>1, <1>4, Pushed, FadeAtAlpha
<1> HIDE DEF m
<1>6. Proper(r) /\ r.start = clock + t
  BY <1>1, <1>5 DEF Fade, Proper, FadeRecord
<1> QED
  BY <1>1, <1>2, <1>4, <1>6

LEMMA FadesInitInv == Init => FadesInv
<1>1. <<>> \in Seq(FadeRecord) /\ Len(<<>>) = 0
  OBVIOUS
<1> SUFFICES ASSUME Init PROVE FadesInv
  OBVIOUS
<1>2. FadeList(fades)
  BY <1>1 DEF Init, FadeList
<1>3. clock = 0 /\ alarm = 0 /\ phase = "unborn" /\ awaiting = FALSE
  BY DEF Init, ClockInit
<1> QED
  BY <1>2, <1>3 DEF FadesInv, FadeTypes, AwaitsAFade, Phases

LEMMA FadesNextInv == FadesInv /\ [Next]_vars => FadesInv'
<1> SUFFICES ASSUME FadesInv, [Next]_vars PROVE FadesInv'
  OBVIOUS
<1> USE DEF FadesInv
<1>1. ASSUME NEW to \in FadeTargets, NEW time \in FadeTimes, ColorFade(to, time) PROVE FadesInv'
  <2>1. FadeList(fades')
    BY <1>1, ColorFadePushes, Pushed DEF FadeTypes
  <2> QED
    BY <1>1, <2>1 DEF ColorFade, Native, clockVars, FadeTypes, AwaitsAFade, Phases
<1>2. ASSUME NEW time \in FadeTimes, CrossFade(time) PROVE FadesInv'
  <2>1. FadeList(fades')
    BY <1>2, CrossFadePushes, Pushed DEF FadeTypes
  <2> QED
    BY <1>2, <2>1 DEF CrossFade, Native, clockVars, FadeTypes, AwaitsAFade, Phases
<1>3. CASE WaitFadeDone
  <2>1. fades # <<>> /\ FadeEnd = Last(fades).end
    BY <1>3 DEF WaitFadeDone, FadeEnd, FadeTypes
  <2>2. Last(fades).end \in Nat
    <3>1. Len(fades) \in 1..Len(fades)
      BY <2>1, EmptySeq, LenProperties DEF FadeTypes, FadeList
    <3> QED
      BY <3>1 DEF FadeTypes, FadeList, Proper, FadeRecord, Last
  <2> QED
    BY <1>3, <2>1, <2>2 DEF WaitFadeDone, Sleep, FadeTypes, AwaitsAFade, Phases
<1>4. ASSUME NEW n \in WaitTimes, Wait(n) PROVE FadesInv'
  <2>1. DWord(n) \in Int
    BY DEF DWord
  <2>2. AtLeastOne(DWord(n)) \in Nat
    BY <2>1 DEF AtLeastOne
  <2>3. /\ phase' = "sleep" /\ alarm' = clock + AtLeastOne(DWord(n)) /\ clock' = clock
        /\ awaiting' = FALSE /\ fades' = fades
    BY <1>4 DEF Wait, Sleep
  <2>4. alarm' \in Nat
    BY <2>2, <2>3 DEF FadeTypes
  <2> QED
    BY <2>3, <2>4 DEF FadeTypes, AwaitsAFade, Phases
<1>5. CASE Start
  <2>1. FadeList(fades')
    BY <1>5 DEF Start, FadeList
  <2> QED
    BY <1>5, <2>1 DEF Start, Begin, FadeTypes, AwaitsAFade, Phases
<1>6. CASE Frame
  BY <1>6 DEF Frame, Tick, FadeTypes, AwaitsAFade, Phases
<1>7. CASE End
  BY <1>7 DEF End, Return, Halt, FadeTypes, AwaitsAFade, Phases
<1>8. CASE UNCHANGED vars
  BY <1>8 DEF vars, clockVars, FadeTypes, AwaitsAFade
<1> QED
  BY <1>1, <1>2, <1>3, <1>4, <1>5, <1>6, <1>7, <1>8 DEF Next

THEOREM FadesInvariance == Spec => []FadesInv
<1>1. Init => FadesInv
  BY FadesInitInv
<1>2. FadesInv /\ [Next]_vars => FadesInv'
  BY FadesNextInv
<1> QED
  BY <1>1, <1>2, PTL DEF Spec

\* The overlay's alpha stays between clear and opaque: every fade starts from a shade of the
\* ones before it, and no interpolation leaves its range (fade_at(), scene.hpp:366).
THEOREM TypeCorrect == Spec => []TypeOK
<1>1. FadesInv => TypeOK
  BY DEF FadesInv, FadeTypes, FadeList, Proper, TypeOK
<1> QED
  BY <1>1, FadesInvariance, PTL

-----------------------------------------------------------------------------
\* A step pushes one fade, pushes a cross fade, empties the list, or leaves it alone.
LEMMA ListSteps ==
  ASSUME FadesInv, [Next]_vars
  PROVE  \/ \E s : /\ Proper(s) /\ s.start = clock /\ fades' = Append(fades, s)
                   /\ fades # <<>> => s.from = FadeAt(fades, clock)
         \/ \E s, r : /\ Proper(s) /\ s.start = clock /\ s.from = FadeAt(fades, clock)
                      /\ Proper(r) /\ r.start > clock
                      /\ fades' = Append(Append(fades, s), r)
         \/ fades' = <<>>
         \/ fades' = fades
<1>1. CASE \E to \in FadeTargets, time \in FadeTimes : ColorFade(to, time)
  BY <1>1, ColorFadePushes
<1>2. CASE \E time \in FadeTimes : CrossFade(time)
  BY <1>2, CrossFadePushes
<1>3. CASE WaitFadeDone \/ (\E n \in WaitTimes : Wait(n)) \/ Frame \/ End \/ UNCHANGED vars
  BY <1>3 DEF WaitFadeDone, Wait, Frame, End, vars
<1>4. CASE Start
  BY <1>4 DEF Start
<1> QED
  BY <1>1, <1>2, <1>3, <1>4 DEF Next

\* A fade starts from the colour on the screen (push_fade(), registry.cpp), whichever fades it
\* interrupts, the halves of a cross fade included.
THEOREM OverlayDoesNotFlash == Spec => NoFlash
<1>1. ASSUME FadesInv, [Next]_vars, fades # <<>>, fades' # <<>>
      PROVE  FadeAt(fades', clock) = FadeAt(fades, clock)
  <2>0. FadeList(fades) /\ clock \in Int
    BY <1>1 DEF FadesInv, FadeTypes
  <2>1. ASSUME NEW s, Proper(s), s.start = clock, fades' = Append(fades, s), s.from = FadeAt(fades, clock)
        PROVE  FadeAt(fades', clock) = FadeAt(fades, clock)
    BY <2>0, <2>1, PushNow
  <2>2. ASSUME NEW s, NEW r, Proper(s), s.start = clock, s.from = FadeAt(fades, clock),
               Proper(r), r.start > clock, fades' = Append(Append(fades, s), r)
        PROVE  FadeAt(fades', clock) = FadeAt(fades, clock)
    <3>1. FadeList(Append(fades, s)) /\ FadeAt(Append(fades, s), clock) = FadeAt(fades, clock)
      BY <2>0, <2>2, PushNow, Pushed
    <3>2. clock < r.start
      BY <2>0, <2>2 DEF Proper, FadeRecord
    <3> QED
      BY <2>0, <2>2, <3>1, <3>2, PushLater
  <2> QED
    BY <1>1, <2>1, <2>2, ListSteps
<1>2. FadesInv /\ [Next]_vars =>
        [fades' # fades /\ fades # <<>> /\ fades' # <<>> => FadeAt(fades', clock) = FadeAt(fades, clock)]_vars
  BY <1>1
<1> QED
  BY <1>2, FadesInvariance, PTL DEF Spec, NoFlash

\* A fade changes no frame before the one it is pushed in (push_fade(), fade_at()): the list of
\* a keyframe can be replayed from any frame.
THEOREM PastIsKept == Spec => PastKept
<1>1. ASSUME FadesInv, [Next]_vars, fades' # <<>>, NEW f \in 0..(clock - 1)
      PROVE  FadeAt(fades', f) = FadeAt(fades, f)
  <2>0. FadeList(fades) /\ clock \in Nat /\ f \in Int /\ f < clock
    BY <1>1 DEF FadesInv, FadeTypes
  <2>1. ASSUME NEW s, Proper(s), s.start = clock, fades' = Append(fades, s)
        PROVE  FadeAt(fades', f) = FadeAt(fades, f)
    BY <2>0, <2>1, PushLater
  <2>2. ASSUME NEW s, NEW r, Proper(s), s.start = clock, Proper(r), r.start > clock,
               fades' = Append(Append(fades, s), r)
        PROVE  FadeAt(fades', f) = FadeAt(fades, f)
    <3>1. FadeList(Append(fades, s)) /\ FadeAt(Append(fades, s), f) = FadeAt(fades, f)
      BY <2>0, <2>2, PushLater, Pushed
    <3>2. f < r.start
      BY <2>0, <2>2 DEF Proper, FadeRecord
    <3> QED
      BY <2>0, <2>2, <3>1, <3>2, PushLater
  <2> QED
    BY <1>1, <2>1, <2>2, ListSteps
<1>2. FadesInv /\ [Next]_vars =>
        [fades' # <<>> => \A f \in 0..(clock - 1) : FadeAt(fades', f) = FadeAt(fades, f)]_vars
  BY <1>1
<1> QED
  BY <1>2, FadesInvariance, PTL DEF Spec, PastKept

\* WaitFadeDone returns to an overlay that has reached the target of the last fade and stays
\* there (registry.cpp:553-562).
THEOREM WaitFindsFadeDone == Spec => FadeIsDone
<1>1. ASSUME FadesInv, [Next]_vars, awaiting, phase = "sleep", phase' = "run", fades' # <<>>,
             NEW f \in clock'..(clock' + LongestWait)
      PROVE  FadeAt(fades, f) = Last(fades).to
  <2>1. CASE Frame
    <3>1. fades # <<>> /\ FadeList(fades) /\ clock' \in Nat /\ clock' >= Last(fades).end
      BY <1>1, <2>1 DEF Frame, Tick, FadesInv, FadeTypes, AwaitsAFade
    <3>2. Proper(Last(fades))
      <4>1. Len(fades) \in 1..Len(fades)
        BY <3>1, EmptySeq, LenProperties DEF FadeList
      <4> QED
        BY <3>1, <4>1 DEF FadeList, Last
    <3>3. f \in Int /\ Last(fades).start <= f /\ f >= Last(fades).end
      BY <3>1, <3>2 DEF Proper, FadeRecord
    <3> QED
      BY <3>1, <3>3, LastShows DEF Shade
  <2>2. CASE ~Frame
    BY <1>1, <2>2 DEF Next, ColorFade, CrossFade, Native, WaitFadeDone, Wait, Sleep, Start, End, Return,
       Halt, vars, clockVars
  <2> QED
    BY <2>1, <2>2
<1>2. FadesInv /\ [Next]_vars =>
        [awaiting /\ phase = "sleep" /\ phase' = "run" /\ fades' # <<>> =>
           \A f \in clock'..(clock' + LongestWait) : FadeAt(fades, f) = Last(fades).to]_vars
  BY <1>1
<1> QED
  BY <1>2, FadesInvariance, PTL DEF Spec, FadeIsDone

HIDE FadeAssumption

-----------------------------------------------------------------------------
(* EffectManager.  What the first k events of the list ask for; the properties  *)
(* of `Effects` say the same of all of them.                                  *)

USE EffectsAssumption

Carriers == {"attach", "sprite_attach"}
Offsetting == {"offset", "sprite_attach"}
Kinds == {"create", "delete", "pos", "offset", "attach", "sprite_attach", "move", "style"}

ProperEvent(e) ==
  /\ e.kind \in Kinds /\ e.name \in Names /\ e.frame \in Nat
  /\ e.kind = "create" => e.cue \in Cues
  /\ e.kind \in {"pos", "offset", "sprite_attach", "move"} => e.at \in Int
  /\ e.kind \in Carriers => e.to \in {Actor, Nobody}
  /\ e.kind = "move" => e.time \in Int

EffectRecord ==
  [base : Int, offset : Int, pos : Int, attached : {Actor, Nobody}, moving : BOOLEAN,
   move : [from : Int, to : Int, begin : Int, end : Int], start : Int, end : Int, autoDelete : BOOLEAN]

\* The i-th event is of the effect n and of one of the kinds.
Is(i, n, kinds) == events[i].name = n /\ events[i].kind \in kinds

Found(n, k) == {i \in 1..k : Is(i, n, {"create"}) /\ events[i].cue.loads}

CreatedIn(n, k) == Max(Found(n, k))

\* The last event of the kinds among the events after c up to k, or c.
LastIn(n, kinds, c, k) == Max({i \in (c + 1)..k : Is(i, n, kinds)} \cup {c})

Carrier(n, c, k) == LET a == LastIn(n, Carriers, c, k) IN IF a = c THEN Nobody ELSE events[a].to

\* What the i-th event shifts an effect created by the c-th by.
Shift(n, c, i) == IF Is(i, n, {"offset"}) /\ Carrier(n, c, i - 1) = Nobody THEN events[i].at ELSE 0

PlaceSet(c, p) == IF p = c THEN events[c].cue.at ELSE events[p].at

\* g is where the effect is put by the p-th event and shifted to until the k-th.
Shifts(n, c, p, k, g) ==
  /\ g \in [p..k -> Int]
  /\ g[p] = PlaceSet(c, p)
  /\ \A i \in (p + 1)..k : g[i] = g[i - 1] + Shift(n, c, i)

LifeAsAsked(n, c, k, ef) ==
  /\ \A j \in (c + 1)..k : ~Is(j, n, {"delete"})
  /\ ef.start = events[c].frame /\ ef.end = events[c].frame + events[c].cue.length
  /\ ef.autoDelete = events[c].cue.autoDelete

CarriedAsAsked(n, c, k, ef) ==
  /\ ef.attached = Carrier(n, c, k)
  /\ LET o == LastIn(n, Offsetting, c, k) IN ef.offset = IF o = c THEN 0 ELSE events[o].at

BaseAsAsked(n, c, k, ef) ==
  \E g : Shifts(n, c, LastIn(n, {"pos"}, c, k), k, g) /\ ef.base = g[k]

MovedAsAsked(n, c, k, ef) ==
  LET p == LastIn(n, {"pos"}, c, k)
      m == LastIn(n, {"move"}, c, k)
  IN  /\ ef.moving <=> m # c /\ p < m
      /\ ef.moving => /\ ef.move.to = events[m].at /\ ef.move.begin = events[m].frame
                      /\ ef.move.begin < ef.move.end

AsAsked(n, k, ef) ==
  LET c == CreatedIn(n, k)
  IN  /\ LifeAsAsked(n, c, k, ef) /\ CarriedAsAsked(n, c, k, ef)
      /\ BaseAsAsked(n, c, k, ef) /\ MovedAsAsked(n, c, k, ef)

OnAsAsked(effects, k) ==
  \A n \in DOMAIN effects : effects[n] \in EffectRecord /\ Found(n, k) # {} /\ AsAsked(n, k, effects[n])

\* An effect that is not on was not created, was deleted or has ended by frame f.
GoneAsAsked(effects, k, f) ==
  \A n \in Names \ DOMAIN effects : Found(n, k) # {} =>
    LET c == CreatedIn(n, k)
    IN  \/ \E j \in (c + 1)..k : Is(j, n, {"delete"})
        \/ events[c].cue.autoDelete /\ events[c].cue.length > 0 /\ f > events[c].frame + events[c].cue.length

-----------------------------------------------------------------------------
(* The last events, one event later. *)

LEMMA LastInIs ==
  ASSUME NEW n, NEW kinds, NEW k \in Nat, NEW c \in 1..k
  PROVE  LET i == LastIn(n, kinds, c, k)
         IN  /\ i \in c..k /\ (i = c \/ Is(i, n, kinds))
             /\ \A j \in (i + 1)..k : ~Is(j, n, kinds)
<1> DEFINE S == {i \in (c + 1)..k : Is(i, n, kinds)} \cup {c}
           m == Max(S)
<1>1. S \in SUBSET (1..k) /\ S # {} /\ c \in S
  OBVIOUS
<1>2. m \in S /\ \A j \in S : j <= m
  BY <1>1, MaxOfBounded
<1>3. LastIn(n, kinds, c, k) = m
  BY DEF LastIn
<1>4. \A j \in (c + 1)..k : Is(j, n, kinds) => j \in S
  OBVIOUS
<1>5. \A j \in S : j = c \/ (j \in (c + 1)..k /\ Is(j, n, kinds))
  OBVIOUS
<1> HIDE DEF S, m
<1>6. m \in c..k /\ (m = c \/ Is(m, n, kinds))
  BY <1>2, <1>5
<1>7. \A j \in (m + 1)..k : ~Is(j, n, kinds)
  BY <1>2, <1>4, <1>6
<1> QED
  BY <1>3, <1>6, <1>7

LEMMA LastInUnique ==
  ASSUME NEW n, NEW kinds, NEW k \in Nat, NEW c \in 1..k, NEW i \in c..k,
         i = c \/ Is(i, n, kinds), \A j \in (i + 1)..k : ~Is(j, n, kinds)
  PROVE  LastIn(n, kinds, c, k) = i
<1> DEFINE S == {j \in (c + 1)..k : Is(j, n, kinds)} \cup {c}
<1>1. S \in SUBSET Int /\ i \in S
  OBVIOUS
<1>2. \A j \in S : j <= i
  OBVIOUS
<1> HIDE DEF S
<1>3. Max(S) = i
  BY <1>1, <1>2, MaxIs
<1> QED
  BY <1>3 DEF LastIn, S

LEMMA LastInStep ==
  ASSUME NEW n, NEW kinds, NEW k \in Nat, NEW c \in 1..k
  PROVE  LastIn(n, kinds, c, k + 1) = IF Is(k + 1, n, kinds) THEN k + 1 ELSE LastIn(n, kinds, c, k)
<1> DEFINE i == LastIn(n, kinds, c, k)
<1>1. i \in c..k /\ (i = c \/ Is(i, n, kinds)) /\ \A j \in (i + 1)..k : ~Is(j, n, kinds)
  BY LastInIs
<1> HIDE DEF i
<1>2. CASE Is(k + 1, n, kinds)
  BY <1>2, LastInUnique
<1>3. CASE ~Is(k + 1, n, kinds)
  <2>1. \A j \in (i + 1)..(k + 1) : ~Is(j, n, kinds)
    BY <1>1, <1>3
  <2> QED
    BY <1>1, <1>3, <2>1, LastInUnique DEF i
<1> QED
  BY <1>2, <1>3

LEMMA LastInFresh ==
  ASSUME NEW n, NEW kinds, NEW c \in Nat \ {0}
  PROVE  LastIn(n, kinds, c, c) = c
BY LastInUnique

LEMMA CreatedInIs ==
  ASSUME NEW n, NEW k \in Nat, Found(n, k) # {}
  PROVE  LET c == CreatedIn(n, k)
         IN  c \in Found(n, k) /\ c \in 1..k /\ \A j \in Found(n, k) : j <= c
BY MaxOfBounded DEF CreatedIn, Found

LEMMA CreatedInStep ==
  ASSUME NEW n, NEW k \in Nat
  PROVE  /\ k + 1 \in Found(n, k + 1) => CreatedIn(n, k + 1) = k + 1
         /\ k + 1 \notin Found(n, k + 1) => /\ Found(n, k + 1) = Found(n, k)
                                           /\ CreatedIn(n, k + 1) = CreatedIn(n, k)
<1>1. ASSUME k + 1 \in Found(n, k + 1) PROVE CreatedIn(n, k + 1) = k + 1
  <2> DEFINE S == Found(n, k + 1)
  <2>1. S \in SUBSET Int /\ \A j \in S : j <= k + 1
    BY DEF Found
  <2> HIDE DEF S
  <2> QED
    BY <1>1, <2>1, MaxIs DEF CreatedIn, S
<1>2. ASSUME k + 1 \notin Found(n, k + 1) PROVE Found(n, k + 1) = Found(n, k)
  BY <1>2 DEF Found
<1> QED
  BY <1>1, <1>2 DEF CreatedIn

-----------------------------------------------------------------------------
(* An effect follows what is asked of it, one event later. *)

LEMMA LifeStep ==
  ASSUME NEW n, NEW k \in Nat, NEW c \in 1..k, NEW ef, LifeAsAsked(n, c, k, ef),
         ~Is(k + 1, n, {"delete"}),
         NEW ef2, ef2.start = ef.start, ef2.end = ef.end, ef2.autoDelete = ef.autoDelete
  PROVE  LifeAsAsked(n, c, k + 1, ef2)
<1>1. \A j \in (c + 1)..(k + 1) : ~Is(j, n, {"delete"})
  BY DEF LifeAsAsked
<1> QED
  BY <1>1 DEF LifeAsAsked

LEMMA CarriedStep ==
  ASSUME NEW n, NEW k \in Nat, NEW c \in 1..k, NEW ef, CarriedAsAsked(n, c, k, ef),
         NEW ef2,
         ef2.attached = IF Is(k + 1, n, Carriers) THEN events[k + 1].to ELSE ef.attached,
         ef2.offset = IF Is(k + 1, n, Offsetting) THEN events[k + 1].at ELSE ef.offset
  PROVE  CarriedAsAsked(n, c, k + 1, ef2)
<1> DEFINE o == LastIn(n, Offsetting, c, k + 1)
           a == LastIn(n, Carriers, c, k + 1)
<1>1. /\ a = IF Is(k + 1, n, Carriers) THEN k + 1 ELSE LastIn(n, Carriers, c, k)
      /\ o = IF Is(k + 1, n, Offsetting) THEN k + 1 ELSE LastIn(n, Offsetting, c, k)
  BY LastInStep
<1>2. k + 1 # c
  OBVIOUS
<1> HIDE DEF a, o
<1>3. ef2.attached = IF a = c THEN Nobody ELSE events[a].to
  BY <1>1, <1>2 DEF CarriedAsAsked, Carrier
<1>4. ef2.offset = IF o = c THEN 0 ELSE events[o].at
  BY <1>1, <1>2 DEF CarriedAsAsked
<1> QED
  BY <1>3, <1>4 DEF CarriedAsAsked, Carrier, a, o

LEMMA BaseStep ==
  ASSUME NEW n, NEW k \in Nat, NEW c \in 1..k, NEW ef, CarriedAsAsked(n, c, k, ef), BaseAsAsked(n, c, k, ef),
         Is(k + 1, n, {"pos", "offset"}) => events[k + 1].at \in Int,
         NEW ef2,
         ef2.base = IF Is(k + 1, n, {"pos"}) THEN events[k + 1].at
                    ELSE IF Is(k + 1, n, {"offset"}) /\ ef.attached = Nobody THEN ef.base + events[k + 1].at
                    ELSE ef.base
  PROVE  BaseAsAsked(n, c, k + 1, ef2)
<1> DEFINE p == LastIn(n, {"pos"}, c, k)
<1>1. PICK g : Shifts(n, c, p, k, g) /\ ef.base = g[k]
  BY DEF BaseAsAsked
<1>2. p \in c..k
  BY LastInIs
<1>3. LastIn(n, {"pos"}, c, k + 1) = IF Is(k + 1, n, {"pos"}) THEN k + 1 ELSE p
  BY LastInStep
<1> HIDE DEF p
<1>4. CASE Is(k + 1, n, {"pos"})
  <2> DEFINE h == [i \in (k + 1)..(k + 1) |-> events[k + 1].at]
  <2>1. events[k + 1].at \in Int /\ k + 1 # c
    BY <1>4 DEF Is
  <2>2. h \in [(k + 1)..(k + 1) -> Int] /\ h[k + 1] = events[k + 1].at
    BY <2>1
  <2> HIDE DEF h
  <2>3. Shifts(n, c, k + 1, k + 1, h)
    BY <2>1, <2>2 DEF Shifts, PlaceSet
  <2> QED
    BY <1>3, <1>4, <2>2, <2>3 DEF BaseAsAsked
<1>5. CASE ~Is(k + 1, n, {"pos"})
  <2> DEFINE h == [i \in p..(k + 1) |-> IF i <= k THEN g[i] ELSE g[k] + Shift(n, c, k + 1)]
  <2>1. g \in [p..k -> Int] /\ g[p] = PlaceSet(c, p)
        /\ \A i \in (p + 1)..k : g[i] = g[i - 1] + Shift(n, c, i)
    BY <1>1 DEF Shifts
  <2>2. Shift(n, c, k + 1) = IF Is(k + 1, n, {"offset"}) /\ ef.attached = Nobody THEN events[k + 1].at ELSE 0
    BY DEF Shift, CarriedAsAsked
  <2>3. Shift(n, c, k + 1) \in Int /\ g[k] \in Int /\ g[k] + Shift(n, c, k + 1) \in Int
    BY <1>2, <2>1, <2>2 DEF Is
  <2>4. h \in [p..(k + 1) -> Int] /\ h[k + 1] = g[k] + Shift(n, c, k + 1) /\ \A i \in p..k : h[i] = g[i]
    BY <1>2, <2>1, <2>3
  <2> HIDE DEF h
  <2>5. h[p] = PlaceSet(c, p)
    BY <1>2, <2>1, <2>4
  <2>6. ASSUME NEW i \in (p + 1)..(k + 1) PROVE h[i] = h[i - 1] + Shift(n, c, i)
    <3>1. CASE i = k + 1
      BY <1>2, <2>4, <3>1
    <3>2. CASE i \in (p + 1)..k
      <4>1. i \in p..k /\ i - 1 \in p..k
        BY <1>2, <3>2
      <4> QED
        BY <2>1, <2>4, <3>2, <4>1
    <3> QED
      BY <1>2, <3>1, <3>2
  <2>7. Shifts(n, c, p, k + 1, h)
    BY <2>4, <2>5, <2>6 DEF Shifts
  <2>8. ef2.base = h[k + 1]
    BY <1>1, <1>5, <2>2, <2>3, <2>4
  <2> QED
    BY <1>3, <1>5, <2>7, <2>8 DEF BaseAsAsked
<1> QED
  BY <1>4, <1>5

LEMMA MovedStep ==
  ASSUME NEW n, NEW k \in Nat, NEW c \in 1..k, NEW ef, MovedAsAsked(n, c, k, ef),
         NEW ef2,
         Is(k + 1, n, {"move"}) => /\ ef2.moving /\ ef2.move.to = events[k + 1].at
                                  /\ ef2.move.begin = events[k + 1].frame /\ ef2.move.begin < ef2.move.end,
         Is(k + 1, n, {"pos"}) => ~ef2.moving,
         ~Is(k + 1, n, {"pos", "move"}) => ef2.moving = ef.moving /\ ef2.move = ef.move
  PROVE  MovedAsAsked(n, c, k + 1, ef2)
<1> DEFINE p == LastIn(n, {"pos"}, c, k)
           m == LastIn(n, {"move"}, c, k)
           q == LastIn(n, {"pos"}, c, k + 1)
           l == LastIn(n, {"move"}, c, k + 1)
<1>1. p \in c..k /\ m \in c..k
  BY LastInIs
<1>2. /\ q = IF Is(k + 1, n, {"pos"}) THEN k + 1 ELSE p
      /\ l = IF Is(k + 1, n, {"move"}) THEN k + 1 ELSE m
  BY LastInStep
<1>3. /\ ef.moving <=> m # c /\ p < m
      /\ ef.moving => /\ ef.move.to = events[m].at /\ ef.move.begin = events[m].frame
                      /\ ef.move.begin < ef.move.end
  BY DEF MovedAsAsked
<1> HIDE DEF p, m
<1>4. CASE Is(k + 1, n, {"move"})
  <2>1. ~Is(k + 1, n, {"pos"})
    BY <1>4 DEF Is
  <2>2. q = p /\ l = k + 1
    BY <1>2, <1>4, <2>1
  <2> HIDE DEF q, l
  <2>3. l # c /\ q < l
    BY <1>1, <2>2
  <2> QED
    BY <1>4, <2>2, <2>3 DEF MovedAsAsked, q, l
<1>5. CASE Is(k + 1, n, {"pos"})
  <2>1. ~Is(k + 1, n, {"move"})
    BY <1>5 DEF Is
  <2>2. q = k + 1 /\ l = m
    BY <1>2, <1>5, <2>1
  <2> HIDE DEF q, l
  <2>3. ~(q < l) /\ ~ef2.moving
    BY <1>1, <1>5, <2>2
  <2> QED
    BY <2>3 DEF MovedAsAsked, q, l
<1>6. CASE ~Is(k + 1, n, {"pos", "move"})
  <2>1. ~Is(k + 1, n, {"move"}) /\ ~Is(k + 1, n, {"pos"})
    BY <1>6 DEF Is
  <2>2. q = p /\ l = m
    BY <1>2, <2>1
  <2> HIDE DEF q, l
  <2> QED
    BY <1>3, <1>6, <2>2 DEF MovedAsAsked, q, l
<1>7. Is(k + 1, n, {"pos", "move"}) => Is(k + 1, n, {"move"}) \/ Is(k + 1, n, {"pos"})
  BY DEF Is
<1> QED
  BY <1>4, <1>5, <1>6, <1>7

LEMMA LargerIs ==
  ASSUME NEW t \in Int
  PROVE  Larger(1, t) \in Int /\ Larger(1, t) >= 1
BY DEF Larger

LEMMA ChangedIs ==
  ASSUME NEW e, ProperEvent(e), e.kind \notin {"create", "delete"}, NEW ef \in EffectRecord
  PROVE  LET ef2 == Changed(ef, e)
         IN  /\ ef2 \in EffectRecord
             /\ ef2.start = ef.start /\ ef2.end = ef.end /\ ef2.autoDelete = ef.autoDelete /\ ef2.pos = ef.pos
             /\ ef2.attached = IF e.kind \in Carriers THEN e.to ELSE ef.attached
             /\ ef2.offset = IF e.kind \in Offsetting THEN e.at ELSE ef.offset
             /\ ef2.base = IF e.kind = "pos" THEN e.at
                           ELSE IF e.kind = "offset" /\ ef.attached = Nobody THEN ef.base + e.at ELSE ef.base
             /\ e.kind = "move" => /\ ef2.moving /\ ef2.move.to = e.at /\ ef2.move.from = ef.pos
                                   /\ ef2.move.begin = e.frame /\ ef2.move.begin < ef2.move.end
             /\ e.kind = "pos" => ~ef2.moving
             /\ e.kind \notin {"pos", "move"} => ef2.moving = ef.moving /\ ef2.move = ef.move
<1> DEFINE ef2 == Changed(ef, e)
<1>1. CASE e.kind = "pos"
  <2>1. e.at \in Int /\ ef2 = [ef EXCEPT !.base = e.at, !.moving = FALSE]
    BY <1>1 DEF Changed, Put, ProperEvent
  <2> QED
    BY <1>1, <2>1 DEF EffectRecord, Carriers, Offsetting
<1>2. CASE e.kind = "offset"
  <2> DEFINE base == IF ef.attached = Nobody THEN ef.base + e.at ELSE ef.base
  <2>1. e.at \in Int /\ base \in Int
    BY <1>2 DEF ProperEvent, EffectRecord
  <2>2. ef2 = [ef EXCEPT !.offset = e.at, !.base = base]
    BY <1>2 DEF Changed
  <2>3. base = IF e.kind = "offset" /\ ef.attached = Nobody THEN ef.base + e.at ELSE ef.base
    BY <1>2
  <2> HIDE DEF base
  <2> QED
    BY <1>2, <2>1, <2>2, <2>3 DEF EffectRecord, Carriers, Offsetting
<1>3. CASE e.kind = "attach"
  <2>1. e.to \in {Actor, Nobody} /\ ef2 = [ef EXCEPT !.attached = e.to]
    BY <1>3 DEF Changed, ProperEvent, Carriers
  <2> QED
    BY <1>3, <2>1 DEF EffectRecord, Carriers, Offsetting
<1>4. CASE e.kind = "sprite_attach"
  <2>1. e.to \in {Actor, Nobody} /\ e.at \in Int /\ ef2 = [ef EXCEPT !.attached = e.to, !.offset = e.at]
    BY <1>4 DEF Changed, ProperEvent, Carriers
  <2> QED
    BY <1>4, <2>1 DEF EffectRecord, Carriers, Offsetting
<1>5. CASE e.kind = "move"
  <2> DEFINE move == [from |-> ef.pos, to |-> e.at, begin |-> e.frame, end |-> e.frame + Larger(1, e.time)]
  <2>1. e.at \in Int /\ e.time \in Int /\ e.frame \in Int /\ ef.pos \in Int
    BY <1>5 DEF ProperEvent, EffectRecord
  <2>2. move \in [from : Int, to : Int, begin : Int, end : Int] /\ move.begin < move.end
        /\ move.from = ef.pos /\ move.to = e.at /\ move.begin = e.frame
    BY <2>1, LargerIs
  <2>3. ef2 = [ef EXCEPT !.moving = TRUE, !.move = move]
    BY <1>5 DEF Changed, TakeOff
  <2> HIDE DEF move
  <2> QED
    BY <1>5, <2>2, <2>3 DEF EffectRecord, Carriers, Offsetting
<1>6. CASE e.kind = "style"
  <2>1. ef2 = ef
    BY <1>6 DEF Changed
  <2> QED
    BY <1>6, <2>1 DEF EffectRecord, Carriers, Offsetting
<1>7. e.kind \in {"pos", "offset", "attach", "sprite_attach", "move", "style"}
  BY DEF ProperEvent, Kinds
<1> QED
  BY <1>1, <1>2, <1>3, <1>4, <1>5, <1>6, <1>7

\* An event that neither creates nor deletes n.
LEMMA LaterEvent ==
  ASSUME NEW n, NEW k \in Nat, k < Len(events), ProperEvent(events[k + 1]),
         Found(n, k) # {}, k + 1 \notin Found(n, k + 1), ~Is(k + 1, n, {"delete"}),
         NEW ef \in EffectRecord, AsAsked(n, k, ef),
         NEW ef2, ef2 = IF events[k + 1].name = n /\ events[k + 1].kind # "create"
                        THEN Changed(ef, events[k + 1]) ELSE ef
  PROVE  /\ ef2 \in EffectRecord /\ ef2.pos = ef.pos
         /\ Found(n, k + 1) # {} /\ CreatedIn(n, k + 1) = CreatedIn(n, k) /\ AsAsked(n, k + 1, ef2)
         /\ Is(k + 1, n, {"move"}) => ef2.move.from = ef.pos
         /\ Is(k + 1, n, {"pos"}) => ~ef2.moving
         /\ ~Is(k + 1, n, {"pos", "move"}) => ef2.moving = ef.moving /\ ef2.move = ef.move
<1> DEFINE e == events[k + 1]
           c == CreatedIn(n, k)
<1>1. c \in 1..k /\ Found(n, k + 1) = Found(n, k) /\ CreatedIn(n, k + 1) = c
  BY CreatedInIs, CreatedInStep
<1>2. /\ LifeAsAsked(n, c, k, ef) /\ CarriedAsAsked(n, c, k, ef)
      /\ BaseAsAsked(n, c, k, ef) /\ MovedAsAsked(n, c, k, ef)
  BY DEF AsAsked
<1>3. Is(k + 1, n, {"pos", "offset"}) => e.at \in Int
  BY DEF Is, ProperEvent
<1> HIDE DEF c
<1>4. /\ ef2 \in EffectRecord
      /\ ef2.start = ef.start /\ ef2.end = ef.end /\ ef2.autoDelete = ef.autoDelete /\ ef2.pos = ef.pos
      /\ ef2.attached = IF Is(k + 1, n, Carriers) THEN e.to ELSE ef.attached
      /\ ef2.offset = IF Is(k + 1, n, Offsetting) THEN e.at ELSE ef.offset
      /\ ef2.base = IF Is(k + 1, n, {"pos"}) THEN e.at
                    ELSE IF Is(k + 1, n, {"offset"}) /\ ef.attached = Nobody THEN ef.base + e.at ELSE ef.base
      /\ Is(k + 1, n, {"move"}) => /\ ef2.moving /\ ef2.move.to = e.at /\ ef2.move.from = ef.pos
                                   /\ ef2.move.begin = e.frame /\ ef2.move.begin < ef2.move.end
      /\ Is(k + 1, n, {"pos"}) => ~ef2.moving
      /\ ~Is(k + 1, n, {"pos", "move"}) => ef2.moving = ef.moving /\ ef2.move = ef.move
  <2>1. CASE e.name = n /\ e.kind # "create"
    <3>1. e.kind \notin {"create", "delete"} /\ ef2 = Changed(ef, e)
      BY <2>1 DEF Is
    <3>2. \A kinds : Is(k + 1, n, kinds) <=> e.kind \in kinds
      BY <2>1 DEF Is
    <3> HIDE DEF e
    <3>3. ProperEvent(e)
      BY DEF e
    <3> QED
      BY <3>1, <3>2, <3>3, ChangedIs
  <2>2. CASE ~(e.name = n /\ e.kind # "create")
    <3>1. ef2 = ef
      BY <2>2
    <3>2. /\ ~Is(k + 1, n, Carriers) /\ ~Is(k + 1, n, Offsetting) /\ ~Is(k + 1, n, {"pos"})
          /\ ~Is(k + 1, n, {"offset"}) /\ ~Is(k + 1, n, {"move"})
      BY <2>2 DEF Is, Carriers, Offsetting
    <3> QED
      BY <3>1, <3>2
  <2> QED
    BY <2>1, <2>2
<1>5. LifeAsAsked(n, c, k + 1, ef2)
  BY <1>1, <1>2, <1>4, LifeStep
<1>6. CarriedAsAsked(n, c, k + 1, ef2)
  BY <1>1, <1>2, <1>4, CarriedStep
<1>7. BaseAsAsked(n, c, k + 1, ef2)
  BY <1>1, <1>2, <1>3, <1>4, BaseStep
<1>8. MovedAsAsked(n, c, k + 1, ef2)
  BY <1>1, <1>2, <1>4, MovedStep
<1> QED
  BY <1>1, <1>4, <1>5, <1>6, <1>7, <1>8 DEF AsAsked, c

LEMMA NewEffect ==
  ASSUME NEW n, NEW k \in Nat, k < Len(events), ProperEvent(events[k + 1]), k + 1 \in Found(n, k + 1)
  PROVE  /\ Created(events[k + 1]) \in EffectRecord
         /\ CreatedIn(n, k + 1) = k + 1 /\ AsAsked(n, k + 1, Created(events[k + 1]))
<1> DEFINE e == events[k + 1]
           c == k + 1
           ef == Created(e)
<1>1. CreatedIn(n, c) = c
  BY CreatedInStep
<1>2. e.cue \in [at : Int, loads : BOOLEAN, length : Nat, autoDelete : BOOLEAN] /\ e.frame \in Nat
  BY DEF Found, Is, ProperEvent
<1>3. ef = [base |-> e.cue.at, offset |-> 0, pos |-> e.cue.at, attached |-> Nobody,
            moving |-> FALSE, move |-> Still, start |-> e.frame, end |-> e.frame + e.cue.length,
            autoDelete |-> e.cue.autoDelete]
  BY DEF Created
<1>4. Still \in [from : Int, to : Int, begin : Int, end : Int]
  BY DEF Still
<1>5. ef \in EffectRecord
  <2>1. /\ e.cue.at \in Int /\ e.frame \in Int /\ e.frame + e.cue.length \in Int
        /\ e.cue.autoDelete \in BOOLEAN
    BY <1>2
  <2> HIDE DEF e, ef
  <2> QED
    BY <1>3, <1>4, <2>1 DEF EffectRecord
<1>6. /\ LastIn(n, {"pos"}, c, c) = c /\ LastIn(n, {"move"}, c, c) = c
      /\ LastIn(n, Carriers, c, c) = c /\ LastIn(n, Offsetting, c, c) = c
  BY LastInFresh
<1>7. LifeAsAsked(n, c, c, ef)
  BY <1>3 DEF LifeAsAsked
<1>8. CarriedAsAsked(n, c, c, ef)
  BY <1>3, <1>6 DEF CarriedAsAsked, Carrier
<1>9. BaseAsAsked(n, c, c, ef)
  <2> DEFINE g == [i \in c..c |-> e.cue.at]
  <2>1. g \in [c..c -> Int] /\ g[c] = e.cue.at
    BY <1>2
  <2> HIDE DEF g
  <2>2. Shifts(n, c, c, c, g)
    BY <2>1 DEF Shifts, PlaceSet
  <2> QED
    BY <1>3, <1>6, <2>1, <2>2 DEF BaseAsAsked
<1>10. MovedAsAsked(n, c, c, ef)
  BY <1>3, <1>6 DEF MovedAsAsked
<1> QED
  BY <1>1, <1>5, <1>7, <1>8, <1>9, <1>10 DEF AsAsked

-----------------------------------------------------------------------------
(* apply(): the effects that are on, one event later. *)

\* What an effect created by the events up to the cursor keeps while the manager catches up:
\* its place, and the move it is on unless it takes off from there.
Steady(effects, k) ==
  \A n \in DOMAIN effects : CreatedIn(n, k) <= cursor =>
    /\ n \in DOMAIN live /\ effects[n].pos = live[n].pos
    /\ effects[n].moving =>
         IF LastIn(n, {"move"}, CreatedIn(n, k), k) > cursor THEN effects[n].move.from = live[n].pos
         ELSE live[n].moving /\ live[n].move = effects[n].move

\* The effects that are on after an event.
Applied(effects, e, after) ==
  LET created == e.kind = "create" /\ e.cue.loads
  IN  /\ DOMAIN after = IF e.kind = "delete" THEN DOMAIN effects \ {e.name}
                        ELSE IF created THEN DOMAIN effects \cup {e.name} ELSE DOMAIN effects
      /\ \A n \in DOMAIN after :
           after[n] = IF n = e.name /\ created THEN Created(e)
                      ELSE IF n = e.name /\ e.kind # "create" THEN Changed(effects[n], e)
                      ELSE effects[n]

LEMMA ApplyIs ==
  ASSUME NEW effects, NEW k \in Nat, NEW e, ProperEvent(e),
         ~(e.name = NoName /\ e.kind = "create" /\ e.cue.loads)
  PROVE  LET t == Apply([live |-> effects, cursor |-> k], e)
         IN  t = [live |-> t.live, cursor |-> k + 1] /\ Applied(effects, e, t.live)
<1> DEFINE s == [live |-> effects, cursor |-> k]
           passed == [live |-> effects, cursor |-> k + 1]
           t == Apply(s, e)
<1>0. [s EXCEPT !.cursor = @ + 1] = passed /\ s.live = effects
  OBVIOUS
<1>1. CASE e.kind = "delete"
  <2>1. t = [live |-> [n \in DOMAIN effects \ {e.name} |-> effects[n]], cursor |-> k + 1]
    BY <1>1 DEF Apply
  <2> QED
    BY <1>1, <2>1 DEF Applied
<1>2. CASE e.kind = "create" /\ ~e.cue.loads
  <2>1. t = passed
    BY <1>0, <1>2 DEF Apply
  <2> QED
    BY <1>2, <2>1 DEF Applied
<1>3. CASE e.kind = "create" /\ e.cue.loads
  <2> DEFINE ef == Created(e)
             after == With(effects, e.name, ef)
  <2>1. t = [live |-> after, cursor |-> k + 1]
    BY <1>3 DEF Apply
  <2>2. /\ DOMAIN after = DOMAIN effects \cup {e.name}
        /\ \A n \in DOMAIN effects \cup {e.name} : after[n] = IF n = e.name THEN ef ELSE effects[n]
    BY DEF With
  <2> HIDE DEF after
  <2>3. Applied(effects, e, after)
    BY <1>3, <2>2 DEF Applied
  <2> HIDE DEF t
  <2>4. t.live = after
    BY <2>1
  <2> QED
    BY <2>1, <2>3, <2>4 DEF t
<1>4. CASE e.kind \notin {"create", "delete"} /\ e.name \notin DOMAIN effects
  <2>1. t = passed
    BY <1>0, <1>4 DEF Apply
  <2> QED
    BY <1>4, <2>1 DEF Applied
<1>5. CASE e.kind \notin {"create", "delete"} /\ e.name \in DOMAIN effects
  <2> DEFINE ef == Changed(effects[e.name], e)
             after == With(effects, e.name, ef)
  <2>1. t = [live |-> after, cursor |-> k + 1]
    BY <1>5 DEF Apply
  <2>2. /\ DOMAIN after = DOMAIN effects \cup {e.name}
        /\ \A n \in DOMAIN effects \cup {e.name} : after[n] = IF n = e.name THEN ef ELSE effects[n]
    BY DEF With
  <2> HIDE DEF after
  <2>3. Applied(effects, e, after)
    BY <1>5, <2>2 DEF Applied
  <2> HIDE DEF t
  <2>4. t.live = after
    BY <2>1
  <2> QED
    BY <2>1, <2>3, <2>4 DEF t
<1> QED
  BY <1>1, <1>2, <1>3, <1>4, <1>5

LEMMA ApplyFollows ==
  ASSUME NEW effects, NEW k \in Nat, k < Len(events), ProperEvent(events[k + 1]),
         ~(Is(k + 1, NoName, {"create"}) /\ events[k + 1].cue.loads),
         OnAsAsked(effects, k), NEW f \in Nat, GoneAsAsked(effects, k, f),
         cursor \in Nat, cursor <= k, Steady(effects, k)
  PROVE  LET t == Apply([live |-> effects, cursor |-> k], events[k + 1])
         IN  /\ t = [live |-> t.live, cursor |-> k + 1]
             /\ OnAsAsked(t.live, k + 1) /\ GoneAsAsked(t.live, k + 1, f) /\ Steady(t.live, k + 1)
<1> DEFINE e == events[k + 1]
           created == e.kind = "create" /\ e.cue.loads
           t == Apply([live |-> effects, cursor |-> k], e)
           after == t.live
<1>1. /\ t = [live |-> after, cursor |-> k + 1]
      /\ DOMAIN after = IF e.kind = "delete" THEN DOMAIN effects \ {e.name}
                        ELSE IF created THEN DOMAIN effects \cup {e.name} ELSE DOMAIN effects
      /\ \A n \in DOMAIN after :
           after[n] = IF n = e.name /\ created THEN Created(e)
                      ELSE IF n = e.name /\ e.kind # "create" THEN Changed(effects[n], e)
                      ELSE effects[n]
  <2>1. ~(e.name = NoName /\ e.kind = "create" /\ e.cue.loads)
    BY DEF Is
  <2>2. t = [live |-> after, cursor |-> k + 1] /\ Applied(effects, e, after)
    BY <2>1, ApplyIs
  <2> QED
    BY <2>2 DEF Applied
<1>2. \A n : k + 1 \in Found(n, k + 1) <=> (n = e.name /\ created)
  BY DEF Found, Is
<1> HIDE DEF t, after
<1>3. ASSUME NEW n \in DOMAIN after
      PROVE  /\ after[n] \in EffectRecord /\ Found(n, k + 1) # {} /\ AsAsked(n, k + 1, after[n])
             /\ CreatedIn(n, k + 1) <= cursor =>
                  /\ n \in DOMAIN live /\ after[n].pos = live[n].pos
                  /\ after[n].moving =>
                       IF LastIn(n, {"move"}, CreatedIn(n, k + 1), k + 1) > cursor
                       THEN after[n].move.from = live[n].pos
                       ELSE live[n].moving /\ live[n].move = after[n].move
  <2>1. CASE n = e.name /\ created
    <3>1. k + 1 \in Found(n, k + 1) /\ after[n] = Created(e)
      BY <1>1, <1>2, <2>1
    <3>2. after[n] \in EffectRecord /\ CreatedIn(n, k + 1) = k + 1 /\ AsAsked(n, k + 1, after[n])
      BY <3>1, NewEffect
    <3> QED
      BY <3>1, <3>2
  <2>2. CASE ~(n = e.name /\ created)
    <3> DEFINE c == CreatedIn(n, k)
               m == LastIn(n, {"move"}, c, k)
    <3>1. n \in DOMAIN effects /\ ~Is(k + 1, n, {"delete"}) /\ k + 1 \notin Found(n, k + 1)
      BY <1>1, <1>2, <2>2 DEF Is
    <3>2. effects[n] \in EffectRecord /\ Found(n, k) # {} /\ AsAsked(n, k, effects[n])
      BY <3>1 DEF OnAsAsked
    <3>3. after[n] = IF e.name = n /\ e.kind # "create" THEN Changed(effects[n], e) ELSE effects[n]
      BY <1>1, <2>2
    <3>4. /\ after[n] \in EffectRecord /\ after[n].pos = effects[n].pos
          /\ Found(n, k + 1) # {} /\ CreatedIn(n, k + 1) = c /\ AsAsked(n, k + 1, after[n])
          /\ Is(k + 1, n, {"move"}) => after[n].move.from = effects[n].pos
          /\ Is(k + 1, n, {"pos"}) => ~after[n].moving
          /\ ~Is(k + 1, n, {"pos", "move"}) => after[n].moving = effects[n].moving /\ after[n].move = effects[n].move
      BY <3>1, <3>2, <3>3, LaterEvent
    <3>5. c \in 1..k
      BY <3>2, CreatedInIs
    <3> HIDE DEF c
    <3>6. LastIn(n, {"move"}, c, k + 1) = IF Is(k + 1, n, {"move"}) THEN k + 1 ELSE m
      BY <3>5, LastInStep
    <3>7. Is(k + 1, n, {"pos", "move"}) => Is(k + 1, n, {"move"}) \/ Is(k + 1, n, {"pos"})
      BY DEF Is
    <3>8. c <= cursor =>
            /\ n \in DOMAIN live /\ effects[n].pos = live[n].pos
            /\ effects[n].moving =>
                 IF m > cursor THEN effects[n].move.from = live[n].pos
                 ELSE live[n].moving /\ live[n].move = effects[n].move
      BY <3>1 DEF Steady, c
    <3>9. m \in Int
      BY <3>5, LastInIs
    <3> HIDE DEF m
    <3> QED
      BY <3>4, <3>6, <3>7, <3>8, <3>9
  <2> QED
    BY <2>1, <2>2
<1>4. ASSUME NEW n \in Names \ DOMAIN after, Found(n, k + 1) # {}
      PROVE  LET c == CreatedIn(n, k + 1)
             IN  \/ \E j \in (c + 1)..(k + 1) : Is(j, n, {"delete"})
                 \/ /\ events[c].cue.autoDelete /\ events[c].cue.length > 0
                    /\ f > events[c].frame + events[c].cue.length
  <2>1. k + 1 \notin Found(n, k + 1) /\ (n \notin DOMAIN effects \/ (e.kind = "delete" /\ n = e.name))
    BY <1>1, <1>2, <1>4
  <2>2. Found(n, k) # {} /\ CreatedIn(n, k + 1) = CreatedIn(n, k)
    BY <1>4, <2>1, CreatedInStep
  <2> DEFINE c == CreatedIn(n, k)
  <2>3. c \in 1..k
    BY <2>2, CreatedInIs
  <2> HIDE DEF c
  <2>4. CASE n \notin DOMAIN effects
    <3>1. \/ \E j \in (c + 1)..k : Is(j, n, {"delete"})
          \/ /\ events[c].cue.autoDelete /\ events[c].cue.length > 0
             /\ f > events[c].frame + events[c].cue.length
      BY <1>4, <2>2, <2>4 DEF GoneAsAsked, c
    <3>2. (c + 1)..k \subseteq (c + 1)..(k + 1)
      BY <2>3
    <3> QED
      BY <2>2, <3>1, <3>2 DEF c
  <2>5. CASE e.kind = "delete" /\ n = e.name
    <3>1. Is(k + 1, n, {"delete"}) /\ k + 1 \in (c + 1)..(k + 1)
      BY <2>3, <2>5 DEF Is
    <3> QED
      BY <2>2, <3>1 DEF c
  <2> QED
    BY <2>1, <2>4, <2>5
<1>5. OnAsAsked(after, k + 1)
  BY <1>3 DEF OnAsAsked
<1>6. GoneAsAsked(after, k + 1, f)
  BY <1>4 DEF GoneAsAsked
<1>7. Steady(after, k + 1)
  BY <1>3 DEF Steady
<1> QED
  BY <1>1, <1>5, <1>6, <1>7 DEF after, t

-----------------------------------------------------------------------------
(* update(): the events one after the other, and what it makes of the effects. *)

OneByOne(after, s) ==
  /\ after[0] = s
  /\ \A k \in 1..Len(events) : after[k] = Caught(after[k - 1])
  /\ CaughtUp(s) = after[Len(events)]

LEMMA CaughtUpBySteps ==
  ASSUME NEW s, Len(events) \in Nat
  PROVE  \E after : OneByOne(after, s)
<1> DEFINE n == Len(events)
           T == {m \in Nat : \E f : f = [k \in 0..m |-> IF k = 0 THEN s ELSE Caught(f[k - 1])]}
           S == CHOOSE f : f = [k \in 0..n |-> IF k = 0 THEN s ELSE Caught(f[k - 1])]
<1>1. 0 \in T
  <2> DEFINE f == [k \in 0..0 |-> s]
  <2>1. f = [k \in 0..0 |-> IF k = 0 THEN s ELSE Caught(f[k - 1])]
    OBVIOUS
  <2> QED
    BY <2>1
<1>2. ASSUME NEW m \in Nat, m \in T PROVE m + 1 \in T
  <2>1. PICK f : f = [k \in 0..m |-> IF k = 0 THEN s ELSE Caught(f[k - 1])]
    BY <1>2
  <2> DEFINE g == [k \in 0..(m + 1) |-> IF k <= m THEN f[k] ELSE Caught(f[m])]
  <2>2. ASSUME NEW k \in 0..(m + 1)
        PROVE  g[k] = IF k = 0 THEN s ELSE Caught(g[k - 1])
    <3>1. CASE k = 0
      BY <2>1, <3>1
    <3>2. CASE k \in 1..m
      <4>1. g[k] = f[k] /\ g[k - 1] = f[k - 1]
        BY <3>2
      <4>2. f[k] = Caught(f[k - 1])
        BY <2>1, <3>2
      <4> QED
        BY <3>2, <4>1, <4>2
    <3>3. CASE k = m + 1
      BY <3>3
    <3> QED
      BY <3>1, <3>2, <3>3
  <2>3. g = [k \in 0..(m + 1) |-> IF k = 0 THEN s ELSE Caught(g[k - 1])]
    BY <2>2
  <2> HIDE DEF g
  <2> QED
    BY <2>3
<1>3. n \in T
  <2> HIDE DEF T
  <2> QED
    BY <1>1, <1>2, Counting
<1>4. \E f : f = [k \in 0..n |-> IF k = 0 THEN s ELSE Caught(f[k - 1])]
  BY <1>3
<1>5. S = [k \in 0..n |-> IF k = 0 THEN s ELSE Caught(S[k - 1])]
  BY <1>4, Zenon
<1>6. CaughtUp(s) = S[n]
  BY DEF CaughtUp
<1> HIDE DEF S
<1>7. S[0] = s
  BY <1>5
<1>8. ASSUME NEW k \in 1..n PROVE S[k] = Caught(S[k - 1])
  BY <1>5
<1>9. OneByOne(S, s)
  BY <1>6, <1>7, <1>8 DEF OneByOne
<1> QED
  BY <1>9

\* The manager has caught up with the first i events.
CaughtTo(t, i) ==
  /\ t = [live |-> t.live, cursor |-> i]
  /\ OnAsAsked(t.live, i) /\ GoneAsAsked(t.live, i, clock) /\ Steady(t.live, i)

\* No effect without a name is created: it would be numbered by the cursor.
AllNamed == \A i \in 1..Len(events) : ~(Is(i, NoName, {"create"}) /\ events[i].cue.loads)

\* The list holds events of the past.
Recorded == \A i \in 1..Len(events) : ProperEvent(events[i]) /\ events[i].frame <= clock

LEMMA CaughtUpFollows ==
  ASSUME Len(events) \in Nat, clock \in Nat, cursor \in Nat, cursor <= Len(events),
         AllNamed, Recorded, OnAsAsked(live, cursor), GoneAsAsked(live, cursor, clock)
  PROVE  CaughtTo(CaughtUp([live |-> live, cursor |-> cursor]), Len(events))
<1> DEFINE s == [live |-> live, cursor |-> cursor]
           N == Len(events)
           At(k) == IF cursor + k <= N THEN cursor + k ELSE N
<1>1. PICK after : OneByOne(after, s)
  BY CaughtUpBySteps
<1>2. CaughtTo(after[0], At(0))
  <2>1. after[0] = s /\ At(0) = cursor
    BY <1>1 DEF OneByOne
  <2>2. ASSUME NEW n \in DOMAIN live
        PROVE  ~(LastIn(n, {"move"}, CreatedIn(n, cursor), cursor) > cursor)
    <3>1. CreatedIn(n, cursor) \in 1..cursor
      BY CreatedInIs DEF OnAsAsked
    <3>2. LastIn(n, {"move"}, CreatedIn(n, cursor), cursor) \in CreatedIn(n, cursor)..cursor
      BY <3>1, LastInIs
    <3> QED
      BY <3>1, <3>2
  <2>3. Steady(live, cursor)
    BY <2>2 DEF Steady
  <2> QED
    BY <2>1, <2>3 DEF CaughtTo
<1>3. ASSUME NEW k \in 1..N, CaughtTo(after[k - 1], At(k - 1)) PROVE CaughtTo(after[k], At(k))
  <2> DEFINE t == after[k - 1]
             i == At(k - 1)
  <2>1. after[k] = Caught(t)
    BY <1>1 DEF OneByOne
  <2>2. i \in Nat /\ i <= N /\ cursor <= i /\ At(k) = IF i < N THEN i + 1 ELSE i
    OBVIOUS
  <2>3. CaughtTo(t, i) /\ t = [live |-> t.live, cursor |-> i] /\ t.cursor = i
    BY <1>3 DEF CaughtTo
  <2> HIDE DEF t, i, At
  <2>4. CASE i < N
    <3>1. i + 1 \in 1..N
      BY <2>2, <2>4
    <3>2. events[i + 1].frame <= clock /\ ProperEvent(events[i + 1])
          /\ ~(Is(i + 1, NoName, {"create"}) /\ events[i + 1].cue.loads)
      BY <3>1 DEF Recorded, AllNamed
    <3>3. Caught(t) = Apply([live |-> t.live, cursor |-> i], events[i + 1])
      BY <2>3, <2>4, <3>2 DEF Caught
    <3>4. CaughtTo(Caught(t), i + 1)
      BY <2>2, <2>3, <2>4, <3>2, <3>3, ApplyFollows DEF CaughtTo
    <3> QED
      BY <2>1, <2>2, <2>4, <3>4
  <2>5. CASE ~(i < N)
    <3>1. Caught(t) = t
      BY <2>3, <2>5 DEF Caught
    <3> QED
      BY <2>1, <2>2, <2>3, <2>5, <3>1
  <2> QED
    BY <2>4, <2>5
<1> DEFINE T == {k \in Nat : k <= N => CaughtTo(after[k], At(k))}
<1>4. 0 \in T
  BY <1>2
<1>5. ASSUME NEW k \in Nat, k \in T PROVE k + 1 \in T
  <2> HIDE DEF At
  <2>1. CASE k + 1 <= N
    <3>1. k + 1 \in 1..N /\ (k + 1) - 1 = k /\ k <= N
      BY <2>1
    <3>2. CaughtTo(after[k], At(k))
      BY <1>5, <3>1
    <3>3. CaughtTo(after[k + 1], At(k + 1))
      BY <1>3, <3>1, <3>2
    <3> QED
      BY <3>3
  <2> QED
    BY <2>1
<1>6. N \in T
  <2> HIDE DEF T
  <2> QED
    BY <1>4, <1>5, Counting
<1>7. At(N) = N /\ CaughtTo(after[N], At(N))
  BY <1>6
<1> QED
  BY <1>1, <1>7 DEF OneByOne

-----------------------------------------------------------------------------
(* Nothing the first k events ask for changes when events are appended. *)

LEMMA LastInUnwritten ==
  ASSUME NEW n, NEW kinds, NEW k \in Nat, NEW c \in Nat, \A i \in (c + 1)..k : events'[i] = events[i]
  PROVE  LastIn(n, kinds, c, k)' = LastIn(n, kinds, c, k)
<1>1. {i \in (c + 1)..k : Is(i, n, kinds)}' = {i \in (c + 1)..k : Is(i, n, kinds)}
  BY DEF Is
<1> QED
  BY <1>1 DEF LastIn

LEMMA FoundUnwritten ==
  ASSUME NEW n, NEW k \in Nat, \A i \in 1..k : events'[i] = events[i]
  PROVE  Found(n, k)' = Found(n, k) /\ CreatedIn(n, k)' = CreatedIn(n, k)
<1>1. Found(n, k)' = Found(n, k)
  BY DEF Found, Is
<1> QED
  BY <1>1 DEF CreatedIn

LEMMA CarrierUnwritten ==
  ASSUME NEW n, NEW k \in Nat, NEW c \in 1..k, \A i \in 1..k : events'[i] = events[i]
  PROVE  Carrier(n, c, k)' = Carrier(n, c, k)
<1> DEFINE a == LastIn(n, Carriers, c, k)
<1>1. a' = a
  BY LastInUnwritten
<1>2. a \in 1..k
  BY LastInIs
<1> HIDE DEF a
<1> QED
  BY <1>1, <1>2 DEF Carrier, a

LEMMA AskedUnwrittenFrom ==
  ASSUME NEW n, NEW k \in Nat, NEW c \in 1..k, \A i \in 1..k : events'[i] = events[i], NEW ef,
         LifeAsAsked(n, c, k, ef), CarriedAsAsked(n, c, k, ef),
         BaseAsAsked(n, c, k, ef), MovedAsAsked(n, c, k, ef)
  PROVE  /\ LifeAsAsked(n, c, k, ef)' /\ CarriedAsAsked(n, c, k, ef)'
         /\ BaseAsAsked(n, c, k, ef)' /\ MovedAsAsked(n, c, k, ef)'
<1>1. PICK p, m, o : /\ p = LastIn(n, {"pos"}, c, k) /\ m = LastIn(n, {"move"}, c, k)
                     /\ o = LastIn(n, Offsetting, c, k)
  OBVIOUS
<1>2. p \in c..k /\ m \in c..k /\ o \in c..k
  BY <1>1, LastInIs
<1>3. /\ \A i \in c..k : events'[i] = events[i]
      /\ \A i \in (c + 1)..k : events'[i] = events[i]
  OBVIOUS
<1>4. LastIn(n, {"pos"}, c, k)' = p /\ LastIn(n, {"move"}, c, k)' = m /\ LastIn(n, Offsetting, c, k)' = o
  BY <1>1, <1>3, LastInUnwritten
<1>5. LifeAsAsked(n, c, k, ef)'
  BY <1>3 DEF LifeAsAsked, Is
<1>6. CarriedAsAsked(n, c, k, ef)'
  <2>1. Carrier(n, c, k)' = Carrier(n, c, k)
    BY CarrierUnwritten
  <2> QED
    BY <1>1, <1>2, <1>3, <1>4, <2>1 DEF CarriedAsAsked
<1>7. BaseAsAsked(n, c, k, ef)'
  <2>1. PICK g : Shifts(n, c, p, k, g) /\ ef.base = g[k]
    BY <1>1 DEF BaseAsAsked
  <2>2. ASSUME NEW i \in (p + 1)..k PROVE Shift(n, c, i)' = Shift(n, c, i)
    <3>1. i - 1 \in Nat /\ c \in 1..(i - 1) /\ i \in c..k /\ \A j \in 1..(i - 1) : events'[j] = events[j]
      BY <1>2
    <3>2. Carrier(n, c, i - 1)' = Carrier(n, c, i - 1)
      BY <3>1, CarrierUnwritten
    <3> QED
      BY <1>3, <3>1, <3>2 DEF Shift, Is
  <2>3. PlaceSet(c, p)' = PlaceSet(c, p)
    BY <1>2, <1>3 DEF PlaceSet
  <2>4. Shifts(n, c, p, k, g)'
    BY <2>1, <2>2, <2>3 DEF Shifts
  <2>5. \E h : Shifts(n, c, p, k, h)' /\ ef.base = h[k]
    BY <2>1, <2>4
  <2> QED
    BY <1>4, <2>5 DEF BaseAsAsked
<1>8. MovedAsAsked(n, c, k, ef)'
  BY <1>1, <1>2, <1>3, <1>4 DEF MovedAsAsked
<1> QED
  BY <1>5, <1>6, <1>7, <1>8

LEMMA AskedUnwritten ==
  ASSUME NEW n, NEW k \in Nat, \A i \in 1..k : events'[i] = events[i],
         Found(n, k) # {}, NEW ef, AsAsked(n, k, ef)
  PROVE  Found(n, k)' # {} /\ AsAsked(n, k, ef)'
<1>1. PICK c : c = CreatedIn(n, k)
  OBVIOUS
<1>2. c \in 1..k /\ CreatedIn(n, k)' = c /\ Found(n, k)' # {}
  BY <1>1, CreatedInIs, FoundUnwritten
<1>3. /\ LifeAsAsked(n, c, k, ef) /\ CarriedAsAsked(n, c, k, ef)
      /\ BaseAsAsked(n, c, k, ef) /\ MovedAsAsked(n, c, k, ef)
  BY <1>1 DEF AsAsked
<1>4. /\ LifeAsAsked(n, c, k, ef)' /\ CarriedAsAsked(n, c, k, ef)'
      /\ BaseAsAsked(n, c, k, ef)' /\ MovedAsAsked(n, c, k, ef)'
  BY <1>2, <1>3, AskedUnwrittenFrom
<1> QED
  BY <1>2, <1>4 DEF AsAsked

-----------------------------------------------------------------------------
(* The invariant. *)

Event ==
  LET Plain == [kind : {"delete", "style"}, frame : Nat, name : Names]
  IN  Plain
      \cup [kind : {"create"}, frame : Nat, name : Names, cue : Cues]
      \cup [kind : {"pos", "offset"}, frame : Nat, name : Names, at : Int]
      \cup [kind : {"attach"}, frame : Nat, name : Names, to : {Actor, Nobody}]
      \cup [kind : {"sprite_attach"}, frame : Nat, name : Names, to : {Actor, Nobody}, at : Int]
      \cup [kind : {"move"}, frame : Nat, name : Names, at : Int, time : Int]

Timely ==
  /\ clock \in Nat /\ stand \in Int
  /\ phase = "unborn" => clock = 0
  /\ synced => phase \in {"sleep", "over", "halted"}
  /\ events \in Seq(Event) /\ \A i \in 1..Len(events) : events[i].frame <= clock

MovesBegun ==
  \A n \in DOMAIN live : live[n].moving =>
    live[n].move.begin <= clock /\ (live[n].move.begin = clock => live[n].pos = live[n].move.from)

InSync ==
  synced => cursor = Len(events) /\ \A n \in DOMAIN live : ~Over(live[n]) /\ Placed(live[n]) = live[n]

Following ==
  /\ cursor \in Nat /\ cursor <= Len(events)
  /\ OnAsAsked(live, cursor) /\ GoneAsAsked(live, cursor, clock)
  /\ MovesBegun /\ InSync

EffectsInv == Timely /\ (AllNamed => Following)

LEMMA EventIsProper ==
  ASSUME NEW e \in Event
  PROVE  ProperEvent(e)
BY DEF Event, ProperEvent, Kinds, Carriers

LEMMA TimelyRecorded ==
  ASSUME Timely
  PROVE  Len(events) \in Nat /\ Recorded
<1>1. Len(events) \in Nat /\ DOMAIN events = 1..Len(events)
  BY DEF Timely
<1>2. ASSUME NEW i \in 1..Len(events) PROVE ProperEvent(events[i]) /\ events[i].frame <= clock
  <2>1. events[i] \in Event
    BY <1>1 DEF Timely
  <2> QED
    BY <2>1, EventIsProper DEF Timely
<1> QED
  BY <1>1, <1>2 DEF Recorded

LEMMA EffectsInitInv == EffectsInit => EffectsInv
<1> SUFFICES ASSUME EffectsInit PROVE EffectsInv
  OBVIOUS
<1> USE DEF EffectsInit, ClockInit
<1>1. Len(events) = 0 /\ events \in Seq(Event) /\ DOMAIN live = {}
  OBVIOUS
<1>2. Timely
  BY <1>1 DEF Timely
<1>3. OnAsAsked(live, cursor) /\ MovesBegun /\ InSync
  BY <1>1 DEF OnAsAsked, MovesBegun, InSync
<1>4. \A n : Found(n, 0) = {}
  BY DEF Found
<1>5. GoneAsAsked(live, cursor, clock)
  BY <1>4 DEF GoneAsAsked
<1> QED
  BY <1>1, <1>2, <1>3, <1>5 DEF EffectsInv, Following

\* What holds of the first k events holds when more are appended, and in later frames.
LEMMA ListUnwritten ==
  ASSUME NEW on, NEW k \in Nat, k <= Len(events), Len(events) \in Nat, Recorded,
         \A i \in 1..k : events'[i] = events[i],
         NEW f \in Nat, NEW g \in Nat, f <= g,
         OnAsAsked(on, k), GoneAsAsked(on, k, f)
  PROVE  OnAsAsked(on, k)' /\ GoneAsAsked(on, k, g)'
<1>1. OnAsAsked(on, k)'
  BY AskedUnwritten DEF OnAsAsked
<1>2. ASSUME NEW n \in Names \ DOMAIN on, Found(n, k)' # {}
      PROVE  LET c == CreatedIn(n, k)'
             IN  \/ \E j \in (c + 1)..k : Is(j, n, {"delete"})'
                 \/ /\ events'[c].cue.autoDelete /\ events'[c].cue.length > 0
                    /\ g > events'[c].frame + events'[c].cue.length
  <2>1. PICK c : c = CreatedIn(n, k)
    OBVIOUS
  <2>2. Found(n, k) # {} /\ CreatedIn(n, k)' = c
    BY <1>2, <2>1, FoundUnwritten
  <2>3. c \in 1..k /\ c \in Found(n, k)
    BY <2>1, <2>2, CreatedInIs
  <2>4. events[c].frame \in Nat /\ events[c].cue.length \in Nat
    <3>1. ProperEvent(events[c]) /\ events[c].kind = "create"
      BY <2>3 DEF Recorded, Found, Is
    <3> QED
      BY <3>1 DEF ProperEvent
  <2>5. \/ \E j \in (c + 1)..k : Is(j, n, {"delete"})
        \/ /\ events[c].cue.autoDelete /\ events[c].cue.length > 0
           /\ f > events[c].frame + events[c].cue.length
    BY <1>2, <2>1, <2>2 DEF GoneAsAsked
  <2>6. CASE \E j \in (c + 1)..k : Is(j, n, {"delete"})
    <3>1. \E j \in (c + 1)..k : Is(j, n, {"delete"})'
      BY <2>3, <2>6 DEF Is
    <3> QED
      BY <2>2, <3>1
  <2>7. CASE /\ events[c].cue.autoDelete /\ events[c].cue.length > 0
             /\ f > events[c].frame + events[c].cue.length
    <3>1. events'[c] = events[c] /\ g > events[c].frame + events[c].cue.length
      BY <2>3, <2>4, <2>7
    <3> QED
      BY <2>2, <2>7, <3>1
  <2> QED
    BY <2>5, <2>6, <2>7
<1>3. GoneAsAsked(on, k, g)'
  BY <1>2 DEF GoneAsAsked
<1> QED
  BY <1>1, <1>3

\* While the manager is not called, events may be appended and frames pass.
LEMMA UncalledKeeps ==
  ASSUME Timely, cursor \in Nat, cursor <= Len(events), OnAsAsked(live, cursor), GoneAsAsked(live, cursor, clock),
         \A i \in 1..Len(events) : events'[i] = events[i], UNCHANGED <<live, cursor>>,
         clock' \in Nat, clock <= clock'
  PROVE  OnAsAsked(live, cursor)' /\ GoneAsAsked(live, cursor, clock)'
<1>1. PICK k, on, f, g : k = cursor /\ on = live /\ f = clock /\ g = clock'
  OBVIOUS
<1>2. /\ k \in Nat /\ k <= Len(events) /\ Len(events) \in Nat /\ Recorded
      /\ \A i \in 1..k : events'[i] = events[i]
      /\ OnAsAsked(on, k) /\ GoneAsAsked(on, k, f) /\ f \in Nat /\ g \in Nat /\ f <= g
  BY <1>1, TimelyRecorded DEF Timely
<1>3. OnAsAsked(on, k)' /\ GoneAsAsked(on, k, g)'
  BY <1>2, ListUnwritten
<1>4. live' = on /\ cursor' = k /\ clock' = g
  BY <1>1
<1> QED
  BY <1>3, <1>4 DEF OnAsAsked, GoneAsAsked

-----------------------------------------------------------------------------
(* The steps. *)

LEMMA AlongIs ==
  ASSUME NEW m \in [from : Int, to : Int, begin : Int, end : Int], m.begin < m.end, clock \in Int
  PROVE  /\ Along(m) \in Int
         /\ clock <= m.begin => Along(m) = m.from
         /\ clock >= m.end => Along(m) = m.to
<1>1. m.from \in Int /\ m.to \in Int /\ m.begin \in Int /\ m.end \in Int
  OBVIOUS
<1> DEFINE x == (m.to - m.from) * (clock - m.begin)
           d == m.end - m.begin
<1>2. x \in Int /\ d \in Nat \ {0}
  BY <1>1
<1> HIDE DEF x, d
<1>3. x \div d \in Int
  BY <1>2, DivIs
<1>4. Along(m) = IF clock <= m.begin THEN m.from ELSE IF clock >= m.end THEN m.to ELSE m.from + x \div d
  BY DEF Along, x, d
<1> QED
  BY <1>1, <1>3, <1>4

LEMMA PlacedIs ==
  ASSUME NEW ef \in EffectRecord, ef.moving => ef.move.begin < ef.move.end, clock \in Int, stand \in Int
  PROVE  LET at == Placed(ef)
         IN  /\ at \in EffectRecord /\ Placed(at) = at
             /\ at.base = ef.base /\ at.offset = ef.offset /\ at.attached = ef.attached
             /\ at.moving = ef.moving /\ at.move = ef.move
             /\ at.start = ef.start /\ at.end = ef.end /\ at.autoDelete = ef.autoDelete
             /\ at.pos = IF ef.moving THEN Along(ef.move)
                         ELSE IF ef.attached = Nobody THEN ef.base ELSE stand + ef.offset
<1> DEFINE pos == IF ef.moving THEN Along(ef.move)
                  ELSE IF ef.attached = Nobody THEN ef.base ELSE stand + ef.offset
<1>1. pos \in Int
  <2>1. ef.moving => Along(ef.move) \in Int
    BY AlongIs DEF EffectRecord
  <2> QED
    BY <2>1 DEF EffectRecord
<1>2. Placed(ef) = [ef EXCEPT !.pos = pos]
  BY DEF Placed
<1>3. \A at : (at.moving = ef.moving /\ at.move = ef.move /\ at.attached = ef.attached
               /\ at.base = ef.base /\ at.offset = ef.offset) => Placed(at) = [at EXCEPT !.pos = pos]
  BY DEF Placed
<1>4. pos = IF ef.moving THEN Along(ef.move)
            ELSE IF ef.attached = Nobody THEN ef.base ELSE stand + ef.offset
  OBVIOUS
<1> HIDE DEF pos
<1> DEFINE at == [ef EXCEPT !.pos = pos]
<1>5. /\ at \in EffectRecord
      /\ at.base = ef.base /\ at.offset = ef.offset /\ at.attached = ef.attached
      /\ at.moving = ef.moving /\ at.move = ef.move /\ at.pos = pos
      /\ at.start = ef.start /\ at.end = ef.end /\ at.autoDelete = ef.autoDelete
  BY <1>1 DEF EffectRecord
<1>6. [at EXCEPT !.pos = pos] = at
  BY <1>5 DEF EffectRecord
<1> HIDE DEF at
<1>7. Placed(at) = at
  BY <1>3, <1>5, <1>6
<1>8. Placed(ef) = at
  BY <1>2 DEF at
<1> QED
  BY <1>4, <1>5, <1>7, <1>8

\* What is asked of an effect does not say where it is on the screen.
LEMMA PlacedAsked ==
  ASSUME NEW n, NEW k, NEW ef, AsAsked(n, k, ef),
         NEW ef2, ef2.base = ef.base, ef2.offset = ef.offset, ef2.attached = ef.attached,
         ef2.moving = ef.moving, ef2.move = ef.move,
         ef2.start = ef.start, ef2.end = ef.end, ef2.autoDelete = ef.autoDelete
  PROVE  AsAsked(n, k, ef2)
BY DEF AsAsked, LifeAsAsked, CarriedAsAsked, BaseAsAsked, MovedAsAsked

LEMMA AskedIs ==
  ASSUME Recorded, clock \in Nat, NEW n, NEW k \in Nat, k <= Len(events), Len(events) \in Nat,
         Found(n, k) # {}, NEW ef, AsAsked(n, k, ef)
  PROVE  ef.moving => ef.move.begin < ef.move.end /\ ef.move.begin <= clock
<1> DEFINE c == CreatedIn(n, k)
           m == LastIn(n, {"move"}, c, k)
<1>1. c \in 1..k
  BY CreatedInIs
<1>2. ef.moving => ef.move.begin = events[m].frame /\ ef.move.begin < ef.move.end
  BY DEF AsAsked, MovedAsAsked
<1> HIDE DEF c
<1>3. m \in 1..Len(events)
  BY <1>1, LastInIs
<1> HIDE DEF m
<1> QED
  BY <1>2, <1>3 DEF Recorded

LEMMA SyncIs ==
  ASSUME Timely, AllNamed, Following, Sync
  PROVE  LET t == CaughtUp([live |-> live, cursor |-> cursor])
         IN  /\ CaughtTo(t, Len(events)) /\ cursor' = Len(events)
             /\ live' = [n \in {n \in DOMAIN t.live : ~Over(t.live[n])} |-> Placed(t.live[n])]
<1> DEFINE s == [live |-> live, cursor |-> cursor]
           t == CaughtUp(s)
<1>1. CaughtTo(t, Len(events))
  BY CaughtUpFollows, TimelyRecorded DEF Following, Timely
<1>2. t.cursor = Len(events)
  <2> HIDE DEF t
  <2> QED
    BY <1>1 DEF CaughtTo
<1>3. /\ live' = [n \in {n \in DOMAIN t.live : ~Over(t.live[n])} |-> Placed(t.live[n])]
      /\ cursor' = t.cursor
  BY DEF Sync, Update
<1> QED
  BY <1>1, <1>2, <1>3

LEMMA SyncFollows ==
  ASSUME Timely, AllNamed, Following, Sync
  PROVE  Following'
<1> DEFINE N == Len(events)
           t == CaughtUp([live |-> live, cursor |-> cursor])
           on == {n \in DOMAIN t.live : ~Over(t.live[n])}
<1>1. CaughtTo(t, N) /\ cursor' = N /\ live' = [n \in on |-> Placed(t.live[n])]
  BY SyncIs
<1>2. /\ UNCHANGED <<clock, events, stand>> /\ synced' = TRUE
      /\ clock \in Nat /\ stand \in Int /\ N \in Nat /\ Recorded
  BY TimelyRecorded DEF Sync, clockVars, Timely
<1> HIDE DEF t
<1>3. ASSUME NEW n \in on
      PROVE  /\ t.live[n] \in EffectRecord /\ Found(n, N) # {} /\ AsAsked(n, N, t.live[n])
             /\ t.live[n].moving => t.live[n].move.begin < t.live[n].move.end /\ t.live[n].move.begin <= clock
             /\ ~Over(t.live[n])
  <2>1. t.live[n] \in EffectRecord /\ Found(n, N) # {} /\ AsAsked(n, N, t.live[n])
    BY <1>1 DEF CaughtTo, OnAsAsked
  <2> QED
    BY <1>2, <2>1, AskedIs
<1>4. ASSUME NEW n \in on
      PROVE  /\ live'[n] \in EffectRecord /\ AsAsked(n, N, live'[n])
             /\ ~Over(live'[n]) /\ Placed(live'[n]) = live'[n]
             /\ live'[n].moving => /\ live'[n].move.begin <= clock
                                   /\ live'[n].move.begin = clock => live'[n].pos = live'[n].move.from
  <2> DEFINE ef == t.live[n]
             at == Placed(ef)
  <2>1. live'[n] = at
    BY <1>1
  <2>2. /\ at \in EffectRecord /\ Placed(at) = at
        /\ at.base = ef.base /\ at.offset = ef.offset /\ at.attached = ef.attached
        /\ at.moving = ef.moving /\ at.move = ef.move
        /\ at.start = ef.start /\ at.end = ef.end /\ at.autoDelete = ef.autoDelete
        /\ ef.moving => at.pos = Along(ef.move)
    BY <1>2, <1>3, PlacedIs
  <2>3. AsAsked(n, N, at)
    BY <1>3, <2>2, PlacedAsked
  <2>4. ~Over(at)
    BY <1>3, <2>2 DEF Over
  <2>5. ef.moving => Along(ef.move) \in Int /\ (clock <= ef.move.begin => Along(ef.move) = ef.move.from)
    BY <1>2, <1>3, AlongIs DEF EffectRecord
  <2> HIDE DEF at, ef
  <2>6. at.moving => at.move.begin <= clock /\ (at.move.begin = clock => at.pos = at.move.from)
    BY <1>2, <1>3, <2>2, <2>5 DEF ef
  <2> QED
    BY <2>1, <2>2, <2>3, <2>4, <2>6
<1>5. ASSUME NEW n \in Names \ on, Found(n, N) # {}
      PROVE  LET c == CreatedIn(n, N)
             IN  \/ \E j \in (c + 1)..N : Is(j, n, {"delete"})
                 \/ /\ events[c].cue.autoDelete /\ events[c].cue.length > 0
                    /\ clock > events[c].frame + events[c].cue.length
  <2>1. CASE n \notin DOMAIN t.live
    BY <1>1, <1>5, <2>1 DEF CaughtTo, GoneAsAsked
  <2>2. CASE n \in DOMAIN t.live
    <3> DEFINE c == CreatedIn(n, N)
               ef == t.live[n]
    <3>1. Over(ef) /\ AsAsked(n, N, ef)
      BY <1>1, <1>5, <2>2 DEF CaughtTo, OnAsAsked
    <3>2. /\ ef.start = events[c].frame /\ ef.end = events[c].frame + events[c].cue.length
          /\ ef.autoDelete = events[c].cue.autoDelete
      BY <3>1 DEF AsAsked, LifeAsAsked
    <3>3. c \in 1..N /\ c \in Found(n, N)
      BY <1>2, <1>5, CreatedInIs
    <3>4. events[c].frame \in Nat /\ events[c].cue.length \in Nat
      BY <1>2, <3>3 DEF Recorded, ProperEvent, Found, Is
    <3> HIDE DEF c, ef
    <3>5. events[c].cue.autoDelete /\ events[c].cue.length > 0 /\ clock > events[c].frame + events[c].cue.length
      BY <3>1, <3>2, <3>4 DEF Over
    <3> QED
      BY <3>5 DEF c
  <2> QED
    BY <2>1, <2>2
<1>6. DOMAIN live' = on
  BY <1>1
<1> HIDE DEF on
<1>7. OnAsAsked(live', N) /\ GoneAsAsked(live', N, clock)
  BY <1>3, <1>4, <1>5, <1>6 DEF OnAsAsked, GoneAsAsked
<1>8. OnAsAsked(live, cursor)' /\ GoneAsAsked(live, cursor, clock)'
  <2>1. PICK k, effects, f : k = N /\ effects = live' /\ f = clock
    OBVIOUS
  <2>2. OnAsAsked(effects, k)' /\ GoneAsAsked(effects, k, f)'
    <3>1. OnAsAsked(effects, k) /\ GoneAsAsked(effects, k, f)
      BY <1>7, <2>1
    <3>2. events' = events /\ k \in Nat /\ k <= Len(events) /\ f \in Nat /\ f <= f
      BY <1>2, <2>1
    <3> QED
      BY <1>2, <3>1, <3>2, ListUnwritten
  <2> QED
    BY <1>1, <1>2, <2>1, <2>2 DEF OnAsAsked, GoneAsAsked
<1>9. MovesBegun'
  BY <1>2, <1>4, <1>6 DEF MovesBegun
<1>10. InSync'
  <2>1. \A ef : Placed(ef)' = Placed(ef) /\ (Over(ef)' <=> Over(ef))
    BY <1>2 DEF Placed, Along, Over
  <2> QED
    BY <1>1, <1>2, <1>4, <1>6, <2>1 DEF InSync
<1>11. cursor' \in Nat /\ cursor' <= Len(events')
  BY <1>1, <1>2
<1> QED
  BY <1>8, <1>9, <1>10, <1>11 DEF Following

\* A step in which the manager is not called and no frame passes leaves what it has done.
LEMMA UncalledFollows ==
  ASSUME Timely, Timely', Following, AllNamed, UNCHANGED <<live, cursor>>,
         Len(events) <= Len(events'), \A i \in 1..Len(events) : events'[i] = events[i],
         clock <= clock', ~synced', \/ clock' = clock
                                    \/ clock' = clock + 1
  PROVE  Following'
<1>1. cursor \in Nat /\ Len(events) \in Nat /\ Len(events') \in Nat /\ clock \in Nat /\ clock' \in Nat
  BY TimelyRecorded DEF Timely, Following
<1>2. OnAsAsked(live, cursor)' /\ GoneAsAsked(live, cursor, clock)'
  BY <1>1, UncalledKeeps DEF Following
<1>3. cursor' <= Len(events')
  BY <1>1 DEF Following
<1>4. MovesBegun'
  <2>1. ASSUME NEW n \in DOMAIN live, live[n].moving
        PROVE  live[n].move.begin <= clock' /\ (live[n].move.begin = clock' => live[n].pos = live[n].move.from)
    <3>1. live[n].move.begin <= clock /\ (live[n].move.begin = clock => live[n].pos = live[n].move.from)
      BY <2>1 DEF Following, MovesBegun
    <3>2. live[n].move.begin \in Int
      BY <2>1 DEF Following, OnAsAsked, EffectRecord
    <3> QED
      BY <1>1, <3>1, <3>2
  <2> QED
    BY <2>1 DEF MovesBegun
<1> QED
  BY <1>2, <1>3, <1>4 DEF Following, InSync

LEMMA RecordTimely ==
  ASSUME EffectsInv, NEW e \in Event, e.frame = clock, Record(e)
  PROVE  EffectsInv'
<1> USE DEF Record
<1>1. UNCHANGED <<clock, phase, stand, live, cursor, synced>> /\ events' = Append(events, e)
  BY DEF clockVars
<1>2. events \in Seq(Event) /\ clock \in Nat /\ ~synced /\ \A i \in 1..Len(events) : events[i].frame <= clock
  BY DEF EffectsInv, Timely
<1>3. /\ events' \in Seq(Event) /\ Len(events') = Len(events) + 1 /\ Len(events) \in Nat
      /\ events'[Len(events) + 1] = e
      /\ \A i \in 1..Len(events) : events'[i] = events[i]
  BY <1>1, <1>2
<1>4. \A i \in 1..Len(events') : events'[i].frame <= clock
  BY <1>2, <1>3
<1>5. Timely'
  BY <1>1, <1>3, <1>4 DEF Timely, EffectsInv
<1>6. ASSUME AllNamed' PROVE Following'
  <2>1. AllNamed
    <3>1. \A i \in 1..Len(events) : Is(i, NoName, {"create"})' <=> Is(i, NoName, {"create"})
      BY <1>3 DEF Is
    <3>2. \A i \in 1..Len(events) : i \in 1..Len(events')
      BY <1>3
    <3> QED
      BY <1>3, <1>6, <3>1, <3>2 DEF AllNamed
  <2>2. Timely /\ Following
    BY <2>1 DEF EffectsInv
  <2>3. UNCHANGED <<live, cursor>> /\ clock' = clock /\ clock <= clock' /\ ~synced'
    BY <1>1, <1>2
  <2>4. Len(events) <= Len(events')
    BY <1>3
  <2> QED
    BY <1>3, <1>5, <2>1, <2>2, <2>3, <2>4, UncalledFollows
<1> QED
  BY <1>5, <1>6 DEF EffectsInv

LEMMA NativesRecord ==
  ASSUME clock \in Nat, EffectNatives
  PROVE  \E e \in Event : e.frame = clock /\ Record(e)
<1>1. PICK n \in Names :
        \/ \E cue \in Cues : DrCreateEffect(n, cue)
        \/ DrDeleteEffect(n)
        \/ \E p \in Places : DrSetEffectPosV(n, p)
        \/ \E d \in Offsets : DrSetEffectOffsetV(n, d)
        \/ \E a \in {Actor, Nobody} : DrSetCharaToEffect(n, a)
        \/ \E a \in {Actor, Nobody}, d \in Offsets : SetDrCharaToSpriteEffect(n, a, d)
        \/ \E p \in Places, t \in MoveTimes : DrMoveEffect(n, p, t)
        \/ StyleEffect(n)
  BY DEF EffectNatives
<1>2. CASE \E cue \in Cues : DrCreateEffect(n, cue)
  <2>1. PICK cue \in Cues : DrCreateEffect(n, cue)
    BY <1>2
  <2> DEFINE e == [kind |-> "create", frame |-> clock, name |-> n, cue |-> cue]
  <2>2. e \in Event /\ e.frame = clock
    BY DEF Event
  <2> QED
    BY <2>1, <2>2 DEF DrCreateEffect
<1>3. CASE DrDeleteEffect(n)
  <2> DEFINE e == [kind |-> "delete", frame |-> clock, name |-> n]
  <2>1. e \in Event /\ e.frame = clock
    BY DEF Event
  <2> QED
    BY <1>3, <2>1 DEF DrDeleteEffect
<1>4. CASE \E p \in Places : DrSetEffectPosV(n, p)
  <2>1. PICK p \in Places : DrSetEffectPosV(n, p)
    BY <1>4
  <2> DEFINE e == [kind |-> "pos", frame |-> clock, name |-> n, at |-> p]
  <2>2. e \in Event /\ e.frame = clock
    BY EffectsAssumption DEF Event
  <2> QED
    BY <2>1, <2>2 DEF DrSetEffectPosV
<1>5. CASE \E d \in Offsets : DrSetEffectOffsetV(n, d)
  <2>1. PICK d \in Offsets : DrSetEffectOffsetV(n, d)
    BY <1>5
  <2> DEFINE e == [kind |-> "offset", frame |-> clock, name |-> n, at |-> d]
  <2>2. e \in Event /\ e.frame = clock
    BY EffectsAssumption DEF Event
  <2> QED
    BY <2>1, <2>2 DEF DrSetEffectOffsetV
<1>6. CASE \E a \in {Actor, Nobody} : DrSetCharaToEffect(n, a)
  <2>1. PICK a \in {Actor, Nobody} : DrSetCharaToEffect(n, a)
    BY <1>6
  <2> DEFINE e == [kind |-> "attach", frame |-> clock, name |-> n, to |-> a]
  <2>2. e \in Event /\ e.frame = clock
    BY DEF Event
  <2> QED
    BY <2>1, <2>2 DEF DrSetCharaToEffect
<1>7. CASE \E a \in {Actor, Nobody}, d \in Offsets : SetDrCharaToSpriteEffect(n, a, d)
  <2>1. PICK a \in {Actor, Nobody}, d \in Offsets : SetDrCharaToSpriteEffect(n, a, d)
    BY <1>7
  <2> DEFINE e == [kind |-> "sprite_attach", frame |-> clock, name |-> n, to |-> a, at |-> d]
  <2>2. e \in Event /\ e.frame = clock
    BY EffectsAssumption DEF Event
  <2> QED
    BY <2>1, <2>2 DEF SetDrCharaToSpriteEffect
<1>8. CASE \E p \in Places, t \in MoveTimes : DrMoveEffect(n, p, t)
  <2>1. PICK p \in Places, t \in MoveTimes : DrMoveEffect(n, p, t)
    BY <1>8
  <2> DEFINE e == [kind |-> "move", frame |-> clock, name |-> n, at |-> p, time |-> t]
  <2>2. e \in Event /\ e.frame = clock
    BY EffectsAssumption DEF Event
  <2> QED
    BY <2>1, <2>2 DEF DrMoveEffect
<1>9. CASE StyleEffect(n)
  <2> DEFINE e == [kind |-> "style", frame |-> clock, name |-> n]
  <2>1. e \in Event /\ e.frame = clock
    BY DEF Event
  <2> QED
    BY <1>9, <2>1 DEF StyleEffect
<1> QED
  BY <1>1, <1>2, <1>3, <1>4, <1>5, <1>6, <1>7, <1>8, <1>9

LEMMA EffectsNextInv == EffectsInv /\ [EffectsNext]_effectsVars => EffectsInv'
<1> SUFFICES ASSUME EffectsInv, [EffectsNext]_effectsVars PROVE EffectsInv'
  OBVIOUS
<1>1. Timely /\ Len(events) \in Nat
  BY TimelyRecorded DEF EffectsInv
\* The steps that leave the list alone and do not call the manager.
<1>2. ASSUME UNCHANGED <<events, live, cursor>>, Timely', clock <= clock', ~synced',
             clock' = clock \/ clock' = clock + 1
      PROVE  EffectsInv'
  <2>1. ASSUME AllNamed' PROVE Following'
    <3>1. AllNamed
      BY <1>2, <2>1 DEF AllNamed, Is
    <3>2. Following
      BY <3>1 DEF EffectsInv
    <3>3. UNCHANGED <<live, cursor>> /\ Len(events) <= Len(events')
          /\ \A i \in 1..Len(events) : events'[i] = events[i]
      BY <1>1, <1>2
    <3> QED
      BY <1>1, <1>2, <3>1, <3>2, <3>3, UncalledFollows
  <2> QED
    BY <1>2, <2>1 DEF EffectsInv
<1>3. CASE EffectsStart
  BY <1>1, <1>2, <1>3 DEF EffectsStart, Begin, Timely
<1>4. CASE EffectNatives
  <2>1. clock \in Nat
    BY <1>1 DEF Timely
  <2> QED
    BY <1>4, <2>1, NativesRecord, RecordTimely
<1>5. CASE BurstEnds
  BY <1>1, <1>2, <1>5 DEF BurstEnds, Sleep, Return, Timely
<1>6. CASE Sync
  <2>1. UNCHANGED <<clock, phase, events, stand>> /\ phase \in {"sleep", "over", "halted"}
    BY <1>6 DEF Sync, clockVars
  <2>2. ASSUME AllNamed' PROVE Following'
    <3>1. AllNamed
      BY <2>1, <2>2 DEF AllNamed, Is
    <3>2. Following
      BY <3>1 DEF EffectsInv
    <3> QED
      BY <1>1, <1>6, <3>1, <3>2, SyncFollows
  <2>3. Timely'
    BY <1>1, <2>1 DEF Timely
  <2> QED
    BY <2>2, <2>3 DEF EffectsInv
<1>7. CASE EffectsFrame
  <2>1. UNCHANGED <<events, live, cursor>> /\ clock' = clock + 1 /\ stand' = stand + 1 /\ ~synced'
        /\ phase' # "unborn"
    BY <1>7 DEF EffectsFrame, Tick
  <2>2. clock \in Nat /\ \A i \in 1..Len(events) : events[i].frame \in Nat
    <3>1. clock \in Nat /\ Recorded
      BY <1>1, TimelyRecorded DEF Timely
    <3> QED
      BY <3>1 DEF Recorded, ProperEvent
  <2>3. Timely'
    BY <1>1, <2>1, <2>2 DEF Timely
  <2> QED
    BY <1>2, <2>1, <2>2, <2>3
<1>8. CASE AtLimit
  BY <1>1, <1>2, <1>8 DEF AtLimit, Halt, Timely
<1>9. CASE UNCHANGED effectsVars
  <2>1. UNCHANGED <<clock, phase, events, stand, live, cursor, synced>>
    BY <1>9 DEF effectsVars, clockVars
  <2>2. Timely'
    BY <1>1, <2>1 DEF Timely
  <2>3. ASSUME AllNamed' PROVE Following'
    <3>1. AllNamed
      BY <2>1, <2>3 DEF AllNamed, Is
    <3>2. Following /\ clock \in Nat
      BY <1>1, <3>1 DEF EffectsInv, Timely
    <3>3. OnAsAsked(live, cursor)' /\ GoneAsAsked(live, cursor, clock)'
      BY <1>1, <2>1, <3>2, UncalledKeeps DEF Following
    <3>4. MovesBegun' /\ InSync'
      BY <2>1, <3>2 DEF Following, MovesBegun, InSync, Over, Placed, Along
    <3> QED
      BY <2>1, <3>2, <3>3, <3>4 DEF Following
  <2> QED
    BY <2>2, <2>3 DEF EffectsInv
<1> QED
  BY <1>3, <1>4, <1>5, <1>6, <1>7, <1>8, <1>9 DEF EffectsNext

LEMMA EffectsInvariance == EffectsSpec => []EffectsInv
<1>1. EffectsInit => EffectsInv
  BY EffectsInitInv
<1>2. EffectsInv /\ [EffectsNext]_effectsVars => EffectsInv'
  BY EffectsNextInv
<1> QED
  BY <1>1, <1>2, PTL DEF EffectsSpec

-----------------------------------------------------------------------------
(* The list read as a whole is its first Len(events) events. *)

LEMMA CreationIs ==
  ASSUME NEW n
  PROVE  Creations(n) = Found(n, Len(events)) /\ Creation(n) = CreatedIn(n, Len(events))
<1>1. Creations(n) = Found(n, Len(events))
  BY DEF Creations, Of, Found, Is
<1> QED
  BY <1>1 DEF Creation, CreatedIn

LEMMA SinceIs ==
  ASSUME NEW n, NEW kinds, Len(events) \in Nat, Creation(n) \in 1..Len(events)
  PROVE  Since(n, kinds) = {i \in (Creation(n) + 1)..Len(events) : Is(i, n, kinds)}
<1>1. ASSUME NEW c \in 1..Len(events)
      PROVE  {i \in Of(n, kinds) : i > c} = {i \in (c + 1)..Len(events) : Is(i, n, kinds)}
  BY DEF Of, Is
<1> QED
  BY <1>1 DEF Since

LEMMA LatestIs ==
  ASSUME NEW n, NEW kinds, Len(events) \in Nat, Creation(n) \in 1..Len(events)
  PROVE  Latest(n, kinds) = LastIn(n, kinds, Creation(n), Len(events))
BY SinceIs DEF Latest, LastIn

LEMMA CarrierAtIs ==
  ASSUME NEW n, Len(events) \in Nat, Creation(n) \in 1..Len(events),
         NEW k \in Creation(n)..Len(events)
  PROVE  CarrierAt(n, k + 1) = Carrier(n, Creation(n), k)
<1>1. PICK c : c = Creation(n)
  OBVIOUS
<1> DEFINE S == {j \in Since(n, Carriers) : j < k + 1}
<1>2. S = {j \in (c + 1)..k : Is(j, n, Carriers)} /\ k \in Nat /\ c \in 1..k
  <2>1. Since(n, Carriers) = {j \in (c + 1)..Len(events) : Is(j, n, Carriers)}
    BY <1>1, SinceIs
  <2> QED
    BY <1>1, <2>1
<1>3. CarrierAt(n, k + 1) = IF S = {} THEN Nobody ELSE events[Max(S)].to
  BY DEF CarrierAt, Carriers
<1> HIDE DEF S
<1>4. CASE S = {}
  <2>1. \A j \in (c + 1)..k : ~Is(j, n, Carriers)
    BY <1>2, <1>4
  <2>2. LastIn(n, Carriers, c, k) = c
    <3>1. k \in Nat /\ c \in 1..k /\ c \in c..k
      BY <1>2
    <3> QED
      BY <2>1, <3>1, LastInUnique
  <2> QED
    BY <1>1, <1>3, <1>4, <2>2 DEF Carrier
<1>5. CASE S # {}
  <2>1. S \in SUBSET (1..k)
    BY <1>2
  <2>2. Max(S) \in S /\ \A j \in S : j <= Max(S)
    BY <1>2, <1>5, <2>1, MaxOfBounded
  <2>3. PICK a : a = Max(S)
    OBVIOUS
  <2>4. a \in (c + 1)..k /\ Is(a, n, Carriers) /\ \A j \in (a + 1)..k : ~Is(j, n, Carriers)
    BY <1>2, <2>2, <2>3
  <2>5. LastIn(n, Carriers, c, k) = a
    BY <1>2, <2>4, LastInUnique
  <2> QED
    BY <1>1, <1>2, <1>3, <1>5, <2>3, <2>4, <2>5 DEF Carrier
<1> QED
  BY <1>4, <1>5

\* There is one way to be shifted.
LEMMA ShiftsUnique ==
  ASSUME NEW n, NEW N \in Nat, NEW c \in 1..N, NEW p \in c..N, NEW g, Shifts(n, c, p, N, g),
         NEW h, h[p] = PlaceSet(c, p), \A i \in (p + 1)..N : h[i] = h[i - 1] + Shift(n, c, i)
  PROVE  h[N] = g[N]
<1> DEFINE T == {j \in Nat : p + j <= N => h[p + j] = g[p + j]}
<1>1. g[p] = PlaceSet(c, p) /\ \A i \in (p + 1)..N : g[i] = g[i - 1] + Shift(n, c, i)
  BY DEF Shifts
<1>2. 0 \in T
  BY <1>1
<1>3. ASSUME NEW j \in Nat, j \in T PROVE j + 1 \in T
  <2>1. CASE p + (j + 1) <= N
    <3>1. p + (j + 1) \in (p + 1)..N /\ (p + (j + 1)) - 1 = p + j /\ p + j <= N
      BY <2>1
    <3>2. h[p + j] = g[p + j]
      BY <1>3, <3>1
    <3>3. /\ g[p + (j + 1)] = g[p + j] + Shift(n, c, p + (j + 1))
          /\ h[p + (j + 1)] = h[p + j] + Shift(n, c, p + (j + 1))
      BY <1>1, <3>1
    <3> QED
      BY <3>2, <3>3
  <2> QED
    BY <2>1
<1>4. N - p \in T
  <2>1. N - p \in Nat
    OBVIOUS
  <2> HIDE DEF T
  <2> QED
    BY <1>2, <1>3, <2>1, Counting
<1> QED
  BY <1>4

LEMMA HomeIs ==
  ASSUME NEW n, Len(events) \in Nat, Creation(n) \in 1..Len(events),
         NEW g, Shifts(n, Creation(n), Latest(n, {"pos"}), Len(events), g)
  PROVE  LET o == Latest(n, Offsetting)
         IN  Home(n) = IF Carrier(n, Creation(n), Len(events)) = Nobody THEN g[Len(events)]
                       ELSE stand + (IF o = Creation(n) THEN 0 ELSE events[o].at)
<1> DEFINE c == Creation(n)
           put == Latest(n, {"pos"})
           N == Len(events)
           shifts == {i \in Since(n, {"offset"}) : i > put /\ CarrierAt(n, i) = Nobody}
           shifted == CHOOSE f : f = [i \in put..N |->
             IF i = put THEN (IF put = c THEN events[c].cue.at ELSE events[put].at)
             ELSE f[i - 1] + (IF i \in shifts THEN events[i].at ELSE 0)]
           off == Latest(n, {"offset", "sprite_attach"})
<1>1. c \in 1..N /\ put \in c..N /\ N \in Nat
  BY LatestIs, LastInIs
<1>2. ASSUME NEW i \in (put + 1)..N
      PROVE  (IF i \in shifts THEN events[i].at ELSE 0) = Shift(n, c, i)
  <2>1. i - 1 \in c..N /\ (i - 1) + 1 = i /\ i \in (c + 1)..N /\ i > put
    BY <1>1
  <2>2. CarrierAt(n, i) = Carrier(n, c, i - 1)
    BY <1>1, <2>1, CarrierAtIs
  <2>3. i \in Since(n, {"offset"}) <=> Is(i, n, {"offset"})
    BY <1>1, <2>1, SinceIs
  <2> QED
    BY <2>1, <2>2, <2>3 DEF Shift
<1>3. Home(n) = IF CarrierAt(n, N + 1) = Nobody THEN shifted[N]
                ELSE stand + (IF off = c THEN 0 ELSE events[off].at)
  BY DEF Home
<1>4. CarrierAt(n, N + 1) = Carrier(n, c, N)
  <2>1. N \in c..N
    BY <1>1
  <2> QED
    BY <1>1, <2>1, CarrierAtIs
<1>5. off = Latest(n, Offsetting)
  BY DEF Offsetting
<1>6. g = [i \in put..N |->
             IF i = put THEN (IF put = c THEN events[c].cue.at ELSE events[put].at)
             ELSE g[i - 1] + (IF i \in shifts THEN events[i].at ELSE 0)]
  <2>1. g \in [put..N -> Int] /\ g[put] = PlaceSet(c, put)
        /\ \A i \in (put + 1)..N : g[i] = g[i - 1] + Shift(n, c, i)
    BY DEF Shifts
  <2>2. ASSUME NEW i \in put..N, i # put PROVE i \in (put + 1)..N
    BY <1>1, <2>2
  <2> HIDE DEF put, shifts, c, N
  <2>3. ASSUME NEW i \in put..N
        PROVE  g[i] = IF i = put THEN (IF put = c THEN events[c].cue.at ELSE events[put].at)
                      ELSE g[i - 1] + (IF i \in shifts THEN events[i].at ELSE 0)
    <3>1. CASE i = put
      BY <2>1, <3>1 DEF PlaceSet
    <3>2. CASE i # put
      BY <1>2, <2>1, <2>2, <3>2
    <3> QED
      BY <3>1, <3>2
  <2> QED
    BY <2>1, <2>3
<1> HIDE DEF shifts, put, c, N, off
<1>7. shifted = [i \in put..N |->
        IF i = put THEN (IF put = c THEN events[c].cue.at ELSE events[put].at)
        ELSE shifted[i - 1] + (IF i \in shifts THEN events[i].at ELSE 0)]
  BY <1>6, Zenon
<1> HIDE DEF shifted
<1>8. shifted[put] = PlaceSet(c, put)
  BY <1>1, <1>7 DEF PlaceSet
<1>9. ASSUME NEW i \in (put + 1)..N PROVE shifted[i] = shifted[i - 1] + Shift(n, c, i)
  <2>1. i \in put..N /\ i # put
    BY <1>1
  <2> QED
    BY <1>2, <1>7, <2>1
<1>10. shifted[N] = g[N]
  <2>1. Shifts(n, c, put, N, g)
    BY DEF c, put, N
  <2> QED
    BY <1>1, <1>8, <1>9, <2>1, ShiftsUnique
<1> QED
  BY <1>3, <1>4, <1>5, <1>10 DEF c, N

-----------------------------------------------------------------------------
(* The properties. *)

LEMMA ShownNow == EffectsInv => (AllNamed => ShowsWhatWasAsked)
<1> SUFFICES ASSUME EffectsInv, AllNamed, synced, NEW n \in Names
             PROVE  n \in DOMAIN live <=> Wanted(n)
  BY DEF ShowsWhatWasAsked
<1>1. Timely /\ Following /\ cursor = Len(events) /\ Len(events) \in Nat /\ Recorded /\ clock \in Nat
  <2>1. Timely /\ Following
    BY DEF EffectsInv
  <2> QED
    BY <2>1, TimelyRecorded DEF Following, InSync, Timely
<1>2. PICK c : c = Creation(n)
  OBVIOUS
<1>3. Creations(n) = Found(n, Len(events)) /\ CreatedIn(n, Len(events)) = c
  BY <1>2, CreationIs
<1>4. ASSUME Creations(n) # {}
      PROVE  /\ c \in 1..Len(events) /\ events[c].frame \in Nat /\ events[c].cue.length \in Nat
             /\ Since(n, {"delete"}) = {} <=> \A j \in (c + 1)..Len(events) : ~Is(j, n, {"delete"})
             /\ Expired(n) <=> /\ events[c].cue.autoDelete /\ events[c].cue.length > 0
                               /\ clock > events[c].frame + events[c].cue.length
  <2>1. c \in 1..Len(events) /\ c \in Found(n, Len(events))
    BY <1>1, <1>3, <1>4, CreatedInIs
  <2>2. events[c].frame \in Nat /\ events[c].cue.length \in Nat
    BY <1>1, <2>1 DEF Recorded, ProperEvent, Found, Is
  <2>3. Since(n, {"delete"}) = {i \in (c + 1)..Len(events) : Is(i, n, {"delete"})}
    BY <1>1, <1>2, <2>1, SinceIs
  <2>4. Since(n, {"delete"}) = {} <=> \A j \in (c + 1)..Len(events) : ~Is(j, n, {"delete"})
    BY <2>3
  <2>5. Expired(n) <=> /\ events[c].cue.autoDelete /\ events[c].cue.length > 0
                       /\ clock > events[c].frame + events[c].cue.length
    BY <1>2 DEF Expired
  <2> QED
    BY <2>1, <2>2, <2>4, <2>5
<1>5. ASSUME n \in DOMAIN live PROVE Wanted(n)
  <2>1. Creations(n) # {} /\ AsAsked(n, Len(events), live[n])
    BY <1>1, <1>3, <1>5 DEF Following, OnAsAsked
  <2>2. LifeAsAsked(n, c, Len(events), live[n])
    BY <1>3, <2>1 DEF AsAsked
  <2>3. ~Over(live[n])
    BY <1>1, <1>5 DEF Following, InSync
  <2>4. ~Expired(n)
    BY <1>1, <1>4, <2>1, <2>2, <2>3 DEF LifeAsAsked, Over
  <2> QED
    BY <1>4, <2>1, <2>2, <2>4 DEF Wanted, LifeAsAsked
<1>6. ASSUME Wanted(n), n \notin DOMAIN live PROVE FALSE
  <2>1. Creations(n) # {} /\ Since(n, {"delete"}) = {} /\ ~Expired(n)
    BY <1>6 DEF Wanted
  <2>2. \/ \E j \in (c + 1)..Len(events) : Is(j, n, {"delete"})
        \/ /\ events[c].cue.autoDelete /\ events[c].cue.length > 0
           /\ clock > events[c].frame + events[c].cue.length
    BY <1>1, <1>3, <1>6, <2>1 DEF Following, GoneAsAsked
  <2> QED
    BY <1>4, <2>1, <2>2
<1> QED
  BY <1>5, <1>6

LEMMA PlacedNow == EffectsInv => (AllNamed => PlacedAsAsked)
<1> SUFFICES ASSUME EffectsInv, AllNamed, synced, NEW n \in DOMAIN live \cap Names
             PROVE  LET m == Latest(n, {"move"})
                    IN  IF m = Creation(n) \/ m < Latest(n, {"pos"}) THEN live[n].pos = Home(n)
                        ELSE clock >= live[n].move.end => live[n].pos = events[m].at
  BY DEF PlacedAsAsked
<1>1. /\ Following /\ cursor = Len(events) /\ Len(events) \in Nat /\ Recorded
      /\ clock \in Int /\ stand \in Int
  <2>1. Timely /\ Following
    BY DEF EffectsInv
  <2> QED
    BY <2>1, TimelyRecorded DEF Following, InSync, Timely
<1>2. PICK N, c, m, p, ef : /\ N = Len(events) /\ c = Creation(n) /\ ef = live[n]
                            /\ m = Latest(n, {"move"}) /\ p = Latest(n, {"pos"})
  OBVIOUS
<1>3. ef \in EffectRecord /\ Placed(ef) = ef /\ Found(n, N) # {} /\ c = CreatedIn(n, N) /\ AsAsked(n, N, ef)
  BY <1>1, <1>2, CreationIs DEF Following, OnAsAsked, InSync
<1>4. c \in 1..N /\ N \in Nat
  BY <1>1, <1>2, <1>3, CreatedInIs
<1>5. m = LastIn(n, {"move"}, c, N) /\ p = LastIn(n, {"pos"}, c, N)
      /\ Latest(n, Offsetting) = LastIn(n, Offsetting, c, N)
  BY <1>2, <1>4, LatestIs
<1>6. CarriedAsAsked(n, c, N, ef) /\ BaseAsAsked(n, c, N, ef) /\ MovedAsAsked(n, c, N, ef)
  BY <1>3 DEF AsAsked
<1>7. /\ ef.moving <=> m # c /\ p < m
      /\ ef.moving => ef.move.to = events[m].at /\ ef.move.begin < ef.move.end
  BY <1>5, <1>6 DEF MovedAsAsked
<1>8. ef.pos = IF ef.moving THEN Along(ef.move)
               ELSE IF ef.attached = Nobody THEN ef.base ELSE stand + ef.offset
  <2>1. ef.moving => ef.move.begin < ef.move.end
    BY <1>7
  <2>2. Placed(ef).pos = IF ef.moving THEN Along(ef.move)
                         ELSE IF ef.attached = Nobody THEN ef.base ELSE stand + ef.offset
    BY <1>1, <1>3, <2>1, PlacedIs
  <2> QED
    BY <1>3, <2>2
<1>9. m \in c..N /\ (m = c \/ Is(m, n, {"move"})) /\ p \in c..N /\ (p = c \/ Is(p, n, {"pos"}))
  BY <1>4, <1>5, LastInIs
<1>10. CASE m = c \/ m < p
  <2>1. ~ef.moving
    BY <1>7, <1>9, <1>10
  <2>2. PICK g : Shifts(n, c, p, N, g) /\ ef.base = g[N]
    BY <1>5, <1>6 DEF BaseAsAsked
  <2>3. PICK o : o = Latest(n, Offsetting)
    OBVIOUS
  <2>4. Home(n) = IF Carrier(n, c, N) = Nobody THEN g[N] ELSE stand + (IF o = c THEN 0 ELSE events[o].at)
    BY <1>2, <1>4, <2>2, <2>3, HomeIs
  <2>5. ef.attached = Carrier(n, c, N) /\ ef.offset = IF o = c THEN 0 ELSE events[o].at
    BY <1>5, <1>6, <2>3 DEF CarriedAsAsked
  <2> QED
    BY <1>2, <1>8, <1>10, <2>1, <2>2, <2>4, <2>5
<1>11. CASE ~(m = c \/ m < p)
  <2>1. p # m
    BY <1>9, <1>11 DEF Is
  <2>2. ef.moving
    BY <1>7, <1>9, <1>11, <2>1
  <2>3. clock >= ef.move.end => Along(ef.move) = ef.move.to
    BY <1>1, <1>3, <1>7, <2>2, AlongIs DEF EffectRecord
  <2> QED
    BY <1>2, <1>7, <1>8, <1>11, <2>2, <2>3
<1> QED
  BY <1>10, <1>11

LEMMA SyncTakesOff ==
  ASSUME EffectsInv, AllNamed, Sync, NEW n \in DOMAIN live \cap DOMAIN live' \cap Names,
         NEW m, m = Latest(n, {"move"}), m \in Since(n, {"move"}), m > Latest(n, {"pos"}),
         events[m].frame = clock, Creation(n) <= cursor
  PROVE  live'[n].pos = live[n].pos
<1>1. /\ Timely /\ Following /\ Len(events) \in Nat /\ Recorded /\ clock \in Int /\ stand \in Int
  <2>1. Timely /\ Following
    BY DEF EffectsInv
  <2> QED
    BY <2>1, TimelyRecorded DEF Timely
<1> DEFINE t == CaughtUp([live |-> live, cursor |-> cursor])
<1>2. /\ OnAsAsked(t.live, Len(events)) /\ Steady(t.live, Len(events))
      /\ live' = [i \in {i \in DOMAIN t.live : ~Over(t.live[i])} |-> Placed(t.live[i])]
  BY <1>1, SyncIs DEF CaughtTo
<1> HIDE DEF t
<1>3. PICK N, c, p, ef : /\ N = Len(events) /\ c = Creation(n) /\ ef = t.live[n] /\ p = Latest(n, {"pos"})
  OBVIOUS
<1>4. n \in DOMAIN t.live /\ live'[n] = Placed(ef)
  BY <1>2, <1>3
<1>5. /\ ef \in EffectRecord /\ Found(n, N) # {} /\ c = CreatedIn(n, N) /\ AsAsked(n, N, ef)
      /\ CreatedIn(n, N) <= cursor
  BY <1>2, <1>3, <1>4, CreationIs DEF OnAsAsked
<1>6. c \in 1..N /\ N \in Nat
  BY <1>1, <1>3, <1>5, CreatedInIs
<1>7. m = LastIn(n, {"move"}, c, N) /\ p = LastIn(n, {"pos"}, c, N)
  BY <1>3, <1>6, LatestIs
<1>8. m \in c..N /\ p \in c..N /\ m # c /\ p < m
  <2>1. m \in (c + 1)..N
    BY <1>1, <1>3, <1>6, SinceIs
  <2>2. p \in c..N
    BY <1>6, <1>7, LastInIs
  <2> QED
    BY <1>3, <1>6, <2>1, <2>2
<1>9. ef.moving /\ ef.move.begin = clock /\ ef.move.begin < ef.move.end
  <2>1. MovedAsAsked(n, c, N, ef)
    BY <1>5 DEF AsAsked
  <2> QED
    BY <1>7, <1>8, <2>1 DEF MovedAsAsked
<1>10. live'[n].pos = ef.move.from
  <2>1. Placed(ef).pos = Along(ef.move)
    BY <1>1, <1>5, <1>9, PlacedIs
  <2>2. Along(ef.move) = ef.move.from
    BY <1>1, <1>5, <1>9, AlongIs DEF EffectRecord
  <2> QED
    BY <1>4, <2>1, <2>2
<1>11. IF m > cursor THEN ef.move.from = live[n].pos ELSE live[n].moving /\ live[n].move = ef.move
  BY <1>2, <1>3, <1>4, <1>5, <1>7, <1>9 DEF Steady
<1>12. CASE m > cursor
  BY <1>10, <1>11, <1>12
<1>13. CASE ~(m > cursor)
  <2>1. live[n].moving /\ live[n].move = ef.move
    BY <1>11, <1>13
  <2>2. live[n].move.begin = clock => live[n].pos = live[n].move.from
    BY <1>1, <2>1 DEF Following, MovesBegun
  <2> QED
    BY <1>9, <1>10, <2>1, <2>2
<1> QED
  BY <1>12, <1>13

LEMMA NamesAreGiven ==
  ASSUME NoName \notin Names, EffectsInv
  PROVE  AllNamed
<1>1. Recorded /\ Len(events) \in Nat
  BY TimelyRecorded DEF EffectsInv
<1> QED
  BY <1>1 DEF AllNamed, Recorded, ProperEvent, Is

\* As long as every effect was created with a name, the effects on show after each frame are
\* those the whole list asks for (effect_manager.cpp:99 follows it with a cursor), whatever the
\* order of the events and however many of them one frame brings.
THEOREM EffectsShown == EffectsSpec => [](AllNamed => ShowsWhatWasAsked)
BY EffectsInvariance, ShownNow, PTL

\* As long as every effect was created with a name, every effect on show is where the whole
\* list puts it, in the frames between moves and after the last of them.
THEOREM EffectsPlaced == EffectsSpec => [](AllNamed => PlacedAsAsked)
BY EffectsInvariance, PlacedNow, PTL

\* In a script that names its effects no effect jumps when a move begins, also when several
\* moves, places and attachments were recorded between two frames.
THEOREM EffectsTakeOff ==
  ASSUME NoName \notin Names
  PROVE  EffectsSpec => MoveTakesOff
<1> DEFINE TakesOff ==
      synced' /\ ~synced =>
        \A n \in DOMAIN live \cap DOMAIN live' \cap Names :
          LET m == Latest(n, {"move"})
          IN  m \in Since(n, {"move"}) /\ m > Latest(n, {"pos"})
                /\ events[m].frame = clock /\ Creation(n) <= cursor
              => live'[n].pos = live[n].pos
<1>1. EffectsInv /\ [EffectsNext]_effectsVars => [TakesOff]_effectsVars
  <2> SUFFICES ASSUME EffectsInv, EffectsNext, synced', ~synced PROVE TakesOff
    OBVIOUS
  <2>1. Sync
    BY DEF EffectsNext, EffectsStart, EffectNatives, BurstEnds, EffectsFrame, AtLimit, Record,
           DrCreateEffect, DrDeleteEffect, DrSetEffectPosV, DrSetEffectOffsetV, DrSetCharaToEffect,
           SetDrCharaToSpriteEffect, DrMoveEffect, StyleEffect
  <2> QED
    BY <2>1, NamesAreGiven, SyncTakesOff
<1> QED
  BY <1>1, EffectsInvariance, PTL DEF EffectsSpec, MoveTakesOff

=============================================================================
