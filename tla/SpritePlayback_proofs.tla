------------------------ MODULE SpritePlayback_proofs ------------------------
(***************************************************************************)
(* The track the script selected last plays; playheads stay in their runs,    *)
(* show what the time since play() says, and end in a pose: for all tracks     *)
(* and rates of pictures.                                                    *)
(*                                                                         *)
(* update() takes any number of ticks at once.  What the recursive functions   *)
(* TicksTo() and Updated() compute is shown by induction over sets of numbers,  *)
(* which rests on the least element of a set.  The invariant of one tick says   *)
(* where in its run a playhead stands, in ticks; it adds that the entry a run    *)
(* has remembered as visible is one of its own and is visible.                 *)
(***************************************************************************)
EXTENDS SpritePlayback, WellFoundedInduction, TLAPS

(* Selections: one is not in the future, and the last play() is no older than the *)
(* one it was for.                                                          *)

Selection == [track : DOMAIN Tracks, start : Nat]

IInv ==
  /\ frame \in Nat /\ since \in Nat /\ applied \in Nat
  /\ want \in Selection /\ chosen \in DOMAIN Tracks
  /\ want.start <= frame
  /\ applied <= since
  /\ SelectionPlays

LEMMA InitInv == Init => IInv
BY DEF Init, IInv, Selection, SelectionPlays

LEMMA NextInv == IInv /\ [Next]_vars => IInv'
<1> SUFFICES ASSUME IInv, [Next]_vars PROVE IInv'
  OBVIOUS
<1> USE DEF IInv
<1>1. ASSUME NEW t \in DOMAIN Tracks, Select(t) PROVE IInv'
  <2>1. want' \in Selection /\ want'.start = frame
    BY <1>1 DEF Select, Selection
  <2> QED
    BY <1>1, <2>1 DEF Select, SelectionPlays
<1>2. ASSUME NEW p \in BOOLEAN, Apply(p) PROVE IInv'
  <2>1. want.start \in Nat /\ want.track \in DOMAIN Tracks
    BY DEF Selection
  <2>2. CASE Applies
    BY <1>2, <2>1, <2>2 DEF Apply, SelectionPlays
  <2>3. CASE ~Applies
    BY <1>2, <2>1, <2>3 DEF Apply, Applies, SelectionPlays
  <2> QED
    BY <2>2, <2>3
<1>3. CASE Frame
  <2>1. /\ frame' = frame + 1 /\ synced' = FALSE /\ want' = want /\ chosen' = chosen
        /\ applied' = applied /\ since' = since
    BY <1>3 DEF Frame, NextFrame, Advance
  <2>2. want.start \in Nat
    BY DEF Selection
  <2> QED
    BY <2>1, <2>2 DEF SelectionPlays
<1>4. CASE UNCHANGED vars
  BY <1>4 DEF vars, SelectionPlays
<1> QED
  BY <1>1, <1>2, <1>3, <1>4 DEF Next

\* After every sync the track the script selected last plays, started after that (apply(),
\* sprite_playback.cpp:86), also when a track is selected again.
THEOREM SelectionIsPlayed == Spec => []SelectionPlays
<1>1. Init => IInv
  BY InitInv
<1>2. IInv /\ [Next]_vars => IInv'
  BY NextInv
<1>3. IInv => SelectionPlays
  BY DEF IInv
<1> QED
  BY <1>1, <1>2, <1>3, PTL DEF Spec

-----------------------------------------------------------------------------
(* Counting. *)

LEMMA Least ==
  ASSUME NEW T, T \subseteq Nat, T # {}
  PROVE  Min(T) \in T /\ \A y \in T : Min(T) <= y
<1>1. IsWellFoundedOn(OpToRel(<, Nat), Nat)
  BY NatLessThanWellFounded
<1>2. PICK x \in T : \A y \in T : ~(<<y, x>> \in OpToRel(<, Nat))
  BY <1>1, WFMin
<1>3. \A y \in T : ~(y < x)
  BY <1>2 DEF OpToRel
<1>4. \E m \in T : \A y \in T : m <= y
  BY <1>3
<1> QED
  BY <1>4 DEF Min

\* Induction, for a set in place of a predicate.
LEMMA Counting ==
  ASSUME NEW T, 0 \in T, \A n \in Nat : n \in T => n + 1 \in T
  PROVE  Nat \subseteq T
<1> SUFFICES ASSUME Nat \ T # {} PROVE FALSE
  OBVIOUS
<1> DEFINE m == Min(Nat \ T)
<1>1. m \in Nat \ T /\ \A y \in Nat \ T : m <= y
  BY Least
<1> HIDE DEF m
<1>2. m - 1 \in Nat
  BY <1>1
<1>3. m - 1 \in T
  BY <1>1, <1>2
<1>4. (m - 1) + 1 = m
  BY <1>1
<1> QED
  BY <1>1, <1>2, <1>3, <1>4

LEMMA SumIs ==
  ASSUME NEW run \in RunData
  PROVE  /\ TicksTo(run, 0) = 0
         /\ \A k \in 1..Len(run.entries) :
              TicksTo(run, k) = TicksTo(run, k - 1) + run.entries[k].ticks
<1> DEFINE T == {n \in Nat : \E f : f = [j \in 0..n |-> IF j = 0 THEN 0 ELSE f[j - 1] + run.entries[j].ticks]}
           N == Len(run.entries)
           S == CHOOSE f : f = [j \in 0..N |-> IF j = 0 THEN 0 ELSE f[j - 1] + run.entries[j].ticks]
<1>1. 0 \in T
  <2> DEFINE f == [j \in 0..0 |-> 0]
  <2>1. f = [j \in 0..0 |-> IF j = 0 THEN 0 ELSE f[j - 1] + run.entries[j].ticks]
    OBVIOUS
  <2> QED
    BY <2>1
<1>2. ASSUME NEW n \in Nat, n \in T PROVE n + 1 \in T
  <2>1. PICK f : f = [j \in 0..n |-> IF j = 0 THEN 0 ELSE f[j - 1] + run.entries[j].ticks]
    BY <1>2
  <2> DEFINE g == [j \in 0..(n + 1) |-> IF j <= n THEN f[j] ELSE f[n] + run.entries[n + 1].ticks]
  <2>2. ASSUME NEW j \in 0..(n + 1)
        PROVE  g[j] = IF j = 0 THEN 0 ELSE g[j - 1] + run.entries[j].ticks
    <3>1. CASE j = 0
      BY <2>1, <3>1
    <3>2. CASE j \in 1..n
      <4>1. g[j] = f[j] /\ g[j - 1] = f[j - 1]
        BY <3>2
      <4>2. f[j] = f[j - 1] + run.entries[j].ticks
        BY <2>1, <3>2
      <4> QED
        BY <3>2, <4>1, <4>2
    <3>3. CASE j = n + 1
      BY <3>3
    <3> QED
      BY <3>1, <3>2, <3>3
  <2>3. g = [j \in 0..(n + 1) |-> IF j = 0 THEN 0 ELSE g[j - 1] + run.entries[j].ticks]
    BY <2>2
  <2> HIDE DEF g
  <2> QED
    BY <2>3
<1>3. N \in Nat
  BY DEF RunData
<1>4. N \in T
  <2> HIDE DEF T
  <2> QED
    BY <1>1, <1>2, <1>3, Counting
<1>5. \E f : f = [j \in 0..N |-> IF j = 0 THEN 0 ELSE f[j - 1] + run.entries[j].ticks]
  BY <1>4
<1>6. S = [j \in 0..N |-> IF j = 0 THEN 0 ELSE S[j - 1] + run.entries[j].ticks]
  BY <1>5, Zenon
<1>7. ASSUME NEW k PROVE TicksTo(run, k) = S[k]
  BY DEF TicksTo
<1> HIDE DEF S
<1>8. S[0] = 0
  BY <1>3, <1>6
<1>9. ASSUME NEW k \in 1..N PROVE S[k] = S[k - 1] + run.entries[k].ticks
  BY <1>3, <1>6
<1> QED
  BY <1>7, <1>8, <1>9

\* Updated() takes the ticks one after the other.
TickByTick(after, track, run, h, n) ==
  /\ after[0] = h
  /\ \A k \in 1..n : after[k] = Ticked(track, run, after[k - 1])
  /\ Updated(track, run, h, n) = after[n]

LEMMA UpdatedBySteps ==
  ASSUME NEW track, NEW run, NEW h, NEW n \in Nat
  PROVE  \E after : TickByTick(after, track, run, h, n)
<1> DEFINE T == {m \in Nat : \E f : f = [k \in 0..m |-> IF k = 0 THEN h ELSE Ticked(track, run, f[k - 1])]}
           S == CHOOSE f : f = [k \in 0..n |-> IF k = 0 THEN h ELSE Ticked(track, run, f[k - 1])]
<1>1. 0 \in T
  <2> DEFINE f == [k \in 0..0 |-> h]
  <2>1. f = [k \in 0..0 |-> IF k = 0 THEN h ELSE Ticked(track, run, f[k - 1])]
    OBVIOUS
  <2> QED
    BY <2>1
<1>2. ASSUME NEW m \in Nat, m \in T PROVE m + 1 \in T
  <2>1. PICK f : f = [k \in 0..m |-> IF k = 0 THEN h ELSE Ticked(track, run, f[k - 1])]
    BY <1>2
  <2> DEFINE g == [k \in 0..(m + 1) |-> IF k <= m THEN f[k] ELSE Ticked(track, run, f[m])]
  <2>2. ASSUME NEW k \in 0..(m + 1)
        PROVE  g[k] = IF k = 0 THEN h ELSE Ticked(track, run, g[k - 1])
    <3>1. CASE k = 0
      BY <2>1, <3>1
    <3>2. CASE k \in 1..m
      <4>1. g[k] = f[k] /\ g[k - 1] = f[k - 1]
        BY <3>2
      <4>2. f[k] = Ticked(track, run, f[k - 1])
        BY <2>1, <3>2
      <4> QED
        BY <3>2, <4>1, <4>2
    <3>3. CASE k = m + 1
      BY <3>3
    <3> QED
      BY <3>1, <3>2, <3>3
  <2>3. g = [k \in 0..(m + 1) |-> IF k = 0 THEN h ELSE Ticked(track, run, g[k - 1])]
    BY <2>2
  <2> HIDE DEF g
  <2> QED
    BY <2>3
<1>3. n \in T
  <2> HIDE DEF T
  <2> QED
    BY <1>1, <1>2, Counting
<1>4. \E f : f = [k \in 0..n |-> IF k = 0 THEN h ELSE Ticked(track, run, f[k - 1])]
  BY <1>3
<1>5. S = [k \in 0..n |-> IF k = 0 THEN h ELSE Ticked(track, run, S[k - 1])]
  BY <1>4, Zenon
<1>6. Updated(track, run, h, n) = S[n]
  BY DEF Updated
<1> HIDE DEF S
<1>7. S[0] = h
  BY <1>5
<1>8. ASSUME NEW k \in 1..n PROVE S[k] = Ticked(track, run, S[k - 1])
  BY <1>5
<1>9. TickByTick(S, track, run, h, n)
  BY <1>6, <1>7, <1>8 DEF TickByTick
<1> QED
  BY <1>9

-----------------------------------------------------------------------------
(* One tick of one run. *)

Sound(run) ==
  /\ run \in RunData
  /\ run.entries # <<>> => run.start < Len(run.entries) /\ LoopStart(run) < Len(run.entries)

Playhead(run) ==
  [offset : 0..LastOf(run), ticks : Nat, seen : {None} \cup 0..LastOf(run), done : BOOLEAN, hide : BOOLEAN]

\* What is remembered as visible is, and so is the pose of a run that has finished and is not hidden.
Visible(run, h) ==
  /\ h.seen # None => At(run, h.seen).visible
  /\ h.done /\ ~h.hide /\ ~Hold => At(run, h.offset).visible

\* A run without entries never starts.
InRun(run, h) ==
  IF run.entries = <<>> THEN ~h.done
  ELSE h \in Playhead(run) /\ h.ticks # 0 /\ Visible(run, h)

LEMMA Entries ==
  ASSUME NEW run, Sound(run), run.entries # <<>>
  PROVE  /\ LastOf(run) \in Nat /\ Len(run.entries) = LastOf(run) + 1
         /\ run.start \in 0..LastOf(run) /\ LoopStart(run) \in 0..LastOf(run)
         /\ \A o \in 0..LastOf(run) : At(run, o) = run.entries[o + 1] /\ At(run, o) \in Entry
<1>1. run.entries \in Seq(Entry) /\ run.start \in Nat /\ run.start < Len(run.entries)
      /\ LoopStart(run) < Len(run.entries)
  BY DEF Sound, RunData
<1>2. Len(run.entries) \in Nat /\ Len(run.entries) # 0 /\ DOMAIN run.entries = 1..Len(run.entries)
  BY <1>1
<1>3. LastOf(run) \in Nat /\ Len(run.entries) = LastOf(run) + 1
  BY <1>2 DEF LastOf
<1>4. LoopStart(run) \in Nat
  <2> DEFINE ends == {j \in DOMAIN run.entries : TicksTo(run, j) >= run.intro}
  <2>1. ends \subseteq Nat
    BY <1>2
  <2>2. ends # {} => Min(ends) \in ends
    BY <2>1, Least
  <2>3. LoopStart(run) = IF run.intro > 0 /\ ends # {} THEN Min(ends) ELSE 0
    BY DEF LoopStart
  <2> HIDE DEF ends
  <2>4. ends # {} => Min(ends) \in Nat
    BY <2>1, <2>2
  <2> QED
    BY <2>3, <2>4
<1>5. ASSUME NEW o \in 0..LastOf(run) PROVE At(run, o) = run.entries[o + 1] /\ At(run, o) \in Entry
  <2>1. At(run, o) = run.entries[o + 1]
    BY <1>3 DEF At
  <2>2. o + 1 \in 1..Len(run.entries)
    BY <1>3
  <2> QED
    BY <1>1, <2>1, <2>2
<1> QED
  BY <1>1, <1>3, <1>4, <1>5

LEMMA MovedIs ==
  ASSUME NEW track, NEW run, Sound(run), run.entries # <<>>, NEW h \in Playhead(run), ~h.done
  PROVE  LET g == Moved(track, run, h)
         IN  /\ g \in Playhead(run) /\ g.seen = h.seen /\ g.hide = h.hide /\ g.ticks = h.ticks
<1> DEFINE last == LastOf(run)
<1>1. last \in Nat /\ LoopStart(run) \in 0..last /\ run.start \in 0..last
      /\ At(run, h.offset) \in Entry
  BY Entries DEF Playhead
<1>2. At(run, h.offset).target \in Int
  BY <1>1 DEF Entry
<1>3. h.offset \in 0..last
  BY DEF Playhead
<1>4. Finished(run, h) \in Playhead(run) /\ Finished(run, h).seen = h.seen /\ Finished(run, h).hide = h.hide
      /\ Finished(run, h).ticks = h.ticks
  <2>1. Finished(run, h) = [h EXCEPT !.done = TRUE, !.offset = last]
    BY DEF Finished
  <2>2. last \in 0..last
    BY <1>1
  <2> HIDE DEF last
  <2>3. last \in 0..LastOf(run)
    BY <2>2 DEF last
  <2>4. [h EXCEPT !.done = TRUE, !.offset = last] \in Playhead(run)
    BY <2>3 DEF Playhead
  <2> QED
    BY <2>1, <2>3, <2>4 DEF Playhead
<1>5. Steps(run, h) \in Playhead(run) /\ Steps(run, h).seen = h.seen /\ Steps(run, h).hide = h.hide
      /\ Steps(run, h).ticks = h.ticks
  BY <1>1, <1>3 DEF Steps, Playhead
<1>6. Jumped(run, h) \in Playhead(run) /\ Jumped(run, h).seen = h.seen /\ Jumped(run, h).hide = h.hide
      /\ Jumped(run, h).ticks = h.ticks
  <2> DEFINE target == run.start + At(run, h.offset).target
  <2>1. target \in Int
    BY <1>1, <1>2
  <2>2. CASE target >= 0 /\ target <= LastOf(run)
    <3>1. Jumped(run, h) = [h EXCEPT !.offset = target]
      BY <2>2 DEF Jumped
    <3>2. target \in 0..last
      BY <1>1, <2>1, <2>2
    <3> HIDE DEF target
    <3> QED
      BY <3>1, <3>2 DEF Playhead
  <2>3. CASE ~(target >= 0 /\ target <= LastOf(run))
    <3>1. Jumped(run, h) = Finished(run, h)
      BY <2>3 DEF Jumped
    <3> QED
      BY <1>4, <3>1
  <2> QED
    BY <2>2, <2>3
<1>7. Moved(track, run, h) \in {Finished(run, h), Jumped(run, h), Steps(run, h)}
  BY DEF Moved
<1> HIDE DEF last
<1> QED
  BY <1>4, <1>5, <1>6, <1>7

LEMMA PosedIs ==
  ASSUME NEW track, NEW run, Sound(run), run.entries # <<>>, NEW h \in Playhead(run),
         NEW before \in 0..LastOf(run), h.done, h.seen # None => At(run, h.seen).visible
  PROVE  LET g == Posed(track, run, h, before)
         IN  g \in Playhead(run) /\ Visible(run, g) /\ g.done /\ g.seen = h.seen
<1> DEFINE g == Posed(track, run, h, before)
           end == At(run, h.offset)
           oneTick == run.once /\ ~Hold /\ end.ticks <= 1 /\ end.last
           holds == Len(track.runs) > 1 /\ h.seen # None /\ CanHold(run, h.seen)
<1>1. At(run, h.offset) \in Entry /\ LastOf(run) \in Nat
  BY Entries DEF Playhead
<1>2. (Hold \/ end.visible) \in BOOLEAN
  BY <1>1, PlaybackAssumption DEF Entry
<1>3. CASE oneTick /\ holds
  <2>1. g = [h EXCEPT !.offset = h.seen, !.hide = FALSE]
    BY <1>3 DEF Posed
  <2>2. h.seen \in 0..LastOf(run)
    BY <1>3 DEF Playhead
  <2> QED
    BY <2>1, <2>2, <1>3 DEF Playhead, Visible
<1>4. CASE oneTick /\ ~holds /\ At(run, before).visible
  <2>1. g = [h EXCEPT !.offset = before, !.hide = FALSE]
    BY <1>4 DEF Posed
  <2> QED
    BY <2>1, <1>4 DEF Playhead, Visible
<1>5. CASE oneTick /\ ~holds /\ ~At(run, before).visible
  <2>1. g = [h EXCEPT !.hide = TRUE]
    BY <1>5 DEF Posed
  <2> QED
    BY <2>1 DEF Playhead, Visible
<1>6. CASE ~oneTick
  <2>1. g = [h EXCEPT !.hide = ~(Hold \/ end.visible)]
    BY <1>6 DEF Posed
  <2>2. (~(Hold \/ end.visible)) \in BOOLEAN
    OBVIOUS
  <2> QED
    BY <2>1, <2>2 DEF Playhead, Visible
<1> QED
  BY <1>3, <1>4, <1>5, <1>6

LEMMA TickedKeeps ==
  ASSUME NEW track, NEW run, Sound(run), NEW h, InRun(run, h)
  PROVE  InRun(run, Ticked(track, run, h))
<1>1. CASE run.entries = <<>> \/ h.done \/ h.offset > LastOf(run)
  BY <1>1 DEF Ticked
<1>2. CASE run.entries # <<>> /\ ~h.done /\ ~(h.offset > LastOf(run))
  <2> DEFINE seen  == IF At(run, h.offset).visible THEN h.offset ELSE h.seen
             lit   == [h EXCEPT !.seen = seen, !.ticks = h.ticks - 1]
             moved == Moved(track, run, lit)
             posed == IF moved.done THEN Posed(track, run, moved, h.offset) ELSE moved
  <2>1. h \in Playhead(run) /\ h.ticks # 0 /\ Visible(run, h)
    BY <1>2 DEF InRun
  <2>2. Ticked(track, run, h) =
          IF ~Over(lit) THEN lit ELSE [posed EXCEPT !.ticks = At(run, posed.offset).ticks]
    BY <1>2 DEF Ticked
  <2>3. LastOf(run) \in Nat /\ \A o \in 0..LastOf(run) : At(run, o) \in Entry
    BY <1>2, Entries
  <2>4. h.offset \in 0..LastOf(run) /\ h.ticks - 1 \in Nat
    BY <2>1 DEF Playhead
  <2>5. seen \in {None} \cup 0..LastOf(run) /\ (seen # None => At(run, seen).visible)
    BY <2>1, <2>4 DEF Playhead, Visible
  <2> HIDE DEF seen
  <2>6. /\ lit \in Playhead(run) /\ lit.ticks = h.ticks - 1 /\ lit.seen = seen /\ ~lit.done
        /\ lit.offset = h.offset
    BY <1>2, <2>1, <2>4, <2>5 DEF Playhead
  <2> HIDE DEF lit
  <2>7. moved \in Playhead(run) /\ moved.seen = seen
    BY <1>2, <2>6, MovedIs
  <2> HIDE DEF moved
  <2>8. posed \in Playhead(run) /\ Visible(run, posed)
    <3>1. CASE moved.done
      BY <1>2, <2>4, <2>5, <2>7, <3>1, PosedIs
    <3>2. CASE ~moved.done
      BY <2>5, <2>7, <3>2 DEF Visible
    <3> QED
      BY <3>1, <3>2
  <2> HIDE DEF posed
  <2>9. CASE ~Over(lit)
    BY <1>2, <2>2, <2>5, <2>6, <2>9 DEF InRun, Visible, Over
  <2>10. CASE Over(lit)
    <3> DEFINE n == At(run, posed.offset).ticks
    <3>1. posed.offset \in 0..LastOf(run)
      BY <2>8 DEF Playhead
    <3>2. n \in Nat \ {0}
      BY <2>3, <3>1 DEF Entry
    <3>3. Ticked(track, run, h) = [posed EXCEPT !.ticks = n]
      BY <2>2, <2>10
    <3> HIDE DEF n
    <3>4. /\ [posed EXCEPT !.ticks = n] \in Playhead(run)
          /\ [posed EXCEPT !.ticks = n].ticks # 0
          /\ [posed EXCEPT !.ticks = n].seen = posed.seen
          /\ [posed EXCEPT !.ticks = n].done = posed.done
          /\ [posed EXCEPT !.ticks = n].hide = posed.hide
          /\ [posed EXCEPT !.ticks = n].offset = posed.offset
      BY <2>8, <3>2 DEF Playhead
    <3> QED
      BY <1>2, <2>8, <3>3, <3>4 DEF InRun, Visible
  <2> QED
    BY <2>9, <2>10
<1> QED
  BY <1>1, <1>2

LEMMA UpdatedKeeps ==
  ASSUME NEW track, NEW run, Sound(run), NEW h, InRun(run, h), NEW n \in Nat
  PROVE  InRun(run, Updated(track, run, h, n))
<1>0. PICK after : TickByTick(after, track, run, h, n)
  BY UpdatedBySteps
<1>1. /\ after[0] = h
      /\ \A k \in 1..n : after[k] = Ticked(track, run, after[k - 1])
      /\ Updated(track, run, h, n) = after[n]
  BY <1>0 DEF TickByTick
<1> DEFINE T == {k \in Nat : k <= n => InRun(run, after[k])}
<1>2. 0 \in T
  BY <1>1
<1>3. ASSUME NEW k \in Nat, k \in T PROVE k + 1 \in T
  <2> SUFFICES ASSUME k + 1 <= n PROVE InRun(run, after[k + 1])
    OBVIOUS
  <2>1. k + 1 \in 1..n /\ (k + 1) - 1 = k
    OBVIOUS
  <2>2. after[k + 1] = Ticked(track, run, after[k])
    BY <1>1, <2>1
  <2>3. InRun(run, after[k])
    BY <1>3
  <2> QED
    BY <2>2, <2>3, TickedKeeps
<1>4. n \in T
  <2> HIDE DEF T
  <2> QED
    BY <1>2, <1>3, Counting
<1> QED
  BY <1>1, <1>4

LEMMA StartedIn ==
  ASSUME NEW run, Sound(run)
  PROVE  InRun(run, Started(run))
<1>1. CASE run.entries = <<>>
  BY <1>1 DEF InRun, Started
<1>2. CASE run.entries # <<>>
  <2>1. run.start \in 0..LastOf(run) /\ At(run, run.start).ticks \in Nat \ {0}
    BY <1>2, Entries DEF Entry
  <2>2. Started(run) = [offset |-> run.start, ticks |-> At(run, run.start).ticks,
                        seen |-> None, done |-> FALSE, hide |-> FALSE]
    BY <1>2 DEF Started
  <2> QED
    BY <1>2, <2>1, <2>2 DEF InRun, Playhead, Visible
<1> QED
  BY <1>1, <1>2

-----------------------------------------------------------------------------
(* Time. *)

LEMMA DivMod ==
  ASSUME NEW x \in Int, NEW d \in Nat \ {0}
  PROVE  /\ x \div d \in Int /\ x % d \in 0..(d - 1)
         /\ x = d * (x \div d) + (x % d)
OBVIOUS

LEMMA Unique ==
  ASSUME NEW d \in Nat \ {0}, NEW p \in Int, NEW q \in Int, NEW r \in 0..(d - 1), NEW s \in 0..(d - 1),
         d * p + r = d * q + s
  PROVE  p = q /\ r = s
<1>1. d * (p - q) = s - r
  OBVIOUS
<1>2. CASE p - q >= 1
  <2>1. d * (p - q) >= d
    BY <1>2
  <2> QED
    BY <1>1, <2>1
<1>3. CASE p - q <= -1
  <2>1. d * (q - p) >= d
    BY <1>3
  <2>2. d * (q - p) = r - s
    BY <1>1
  <2> QED
    BY <2>1, <2>2
<1>4. CASE p = q
  BY <1>1, <1>4
<1> QED
  BY <1>2, <1>3, <1>4

LEMMA DivModIs ==
  ASSUME NEW x \in Int, NEW d \in Nat \ {0}, NEW q \in Int, NEW r \in 0..(d - 1), x = d * q + r
  PROVE  x \div d = q /\ x % d = r
<1>1. x \div d \in Int /\ x % d \in 0..(d - 1) /\ x = d * (x \div d) + (x % d)
  BY DivMod
<1>2. d * (x \div d) + (x % d) = d * q + r
  BY <1>1
<1> QED
  BY <1>1, <1>2, Unique

LEMMA NextMod ==
  ASSUME NEW x \in Nat, NEW d \in Nat \ {0}
  PROVE  /\ 0 % d = 0
         /\ (x + 1) % d = IF x % d = d - 1 THEN 0 ELSE (x % d) + 1
<1>1. 0 % d = 0
  BY DivModIs
<1> DEFINE q == x \div d
           r == x % d
<1>2. q \in Int /\ r \in 0..(d - 1) /\ x = d * q + r
  BY DivMod
<1> HIDE DEF q
<1>3. CASE r = d - 1
  <2>1. x + 1 = d * (q + 1) + 0
    BY <1>2, <1>3
  <2>2. q + 1 \in Int /\ 0 \in 0..(d - 1) /\ x + 1 \in Int
    BY <1>2
  <2> QED
    BY <1>1, <1>3, <2>1, <2>2, DivModIs
<1>4. CASE r # d - 1
  <2>1. x + 1 = d * q + (r + 1) /\ r + 1 \in 0..(d - 1) /\ x + 1 \in Int
    BY <1>2, <1>4
  <2> QED
    BY <1>1, <1>2, <1>4, <2>1, DivModIs
<1> QED
  BY <1>3, <1>4

\* The turn of a loop that begins at time f, from one tick to the next.
LEMMA Turn ==
  ASSUME NEW t \in Nat, NEW f \in Nat, NEW d \in Nat \ {0}
  PROVE  /\ t + 1 = f => ((t + 1) - f) % d = 0
         /\ t >= f => /\ (t - f) % d \in 0..(d - 1)
                      /\ ((t + 1) - f) % d = IF (t - f) % d = d - 1 THEN 0 ELSE ((t - f) % d) + 1
<1>1. ASSUME t + 1 = f PROVE ((t + 1) - f) % d = 0
  <2>1. (t + 1) - f = 0
    BY <1>1
  <2> QED
    BY <2>1, NextMod
<1>2. ASSUME t >= f
      PROVE  /\ (t - f) % d \in 0..(d - 1)
             /\ ((t + 1) - f) % d = IF (t - f) % d = d - 1 THEN 0 ELSE ((t - f) % d) + 1
  <2> DEFINE x == t - f
  <2>1. x \in Nat /\ x \in Int /\ (t + 1) - f = x + 1
    BY <1>2
  <2> HIDE DEF x
  <2>2. x % d \in 0..(d - 1) /\ (x + 1) % d = IF x % d = d - 1 THEN 0 ELSE (x % d) + 1
    BY <2>1, DivMod, NextMod
  <2> QED
    BY <2>1, <2>2 DEF x
<1> QED
  BY <1>1, <1>2

LEMMA SumGrows ==
  ASSUME NEW run, Sound(run)
  PROVE  /\ Len(run.entries) \in Nat
         /\ \A k \in 0..Len(run.entries) :
              TicksTo(run, k) \in Nat /\ \A j \in 0..k : TicksTo(run, j) <= TicksTo(run, k)
         /\ \A k \in 1..Len(run.entries) : TicksTo(run, k - 1) < TicksTo(run, k)
<1> DEFINE N == Len(run.entries)
           P(k) == TicksTo(run, k)
           T == {k \in Nat : k <= N => P(k) \in Nat /\ \A j \in 0..k : P(j) \in Nat /\ P(j) <= P(k)}
<1>1. run.entries \in Seq(Entry) /\ N \in Nat /\ run \in RunData
  BY DEF Sound, RunData
<1>2. ASSUME NEW k \in 1..N PROVE run.entries[k].ticks \in Nat \ {0} /\ P(k) = P(k - 1) + run.entries[k].ticks
  <2>1. run.entries[k] \in Entry
    BY <1>1
  <2>2. P(k) = P(k - 1) + run.entries[k].ticks
    BY <1>1, SumIs
  <2> QED
    BY <2>1, <2>2 DEF Entry
<1>3. P(0) = 0
  BY <1>1, SumIs
<1> HIDE DEF N, P
<1>4. 0 \in T
  BY <1>3
<1>5. ASSUME NEW k \in Nat, k \in T PROVE k + 1 \in T
  <2> SUFFICES ASSUME k + 1 <= N
               PROVE  P(k + 1) \in Nat /\ \A j \in 0..(k + 1) : P(j) \in Nat /\ P(j) <= P(k + 1)
    OBVIOUS
  <2>1. P(k) \in Nat /\ \A j \in 0..k : P(j) \in Nat /\ P(j) <= P(k)
    BY <1>1, <1>5
  <2>2. k + 1 \in 1..N /\ (k + 1) - 1 = k
    BY <1>1
  <2>3. P(k + 1) \in Nat /\ P(k) < P(k + 1)
    <3> DEFINE e == run.entries[k + 1].ticks
    <3>1. e \in Nat \ {0} /\ P(k + 1) = P(k) + e
      BY <1>2, <2>2
    <3> HIDE DEF e
    <3> QED
      BY <2>1, <3>1
  <2>4. ASSUME NEW j \in 0..(k + 1) PROVE P(j) \in Nat /\ P(j) <= P(k + 1)
    <3>1. CASE j \in 0..k
      BY <2>1, <2>3, <3>1
    <3>2. CASE j = k + 1
      BY <2>3, <3>2
    <3> QED
      BY <3>1, <3>2
  <2> QED
    BY <2>3, <2>4
<1>6. \A k \in 0..N : k \in T
  <2> HIDE DEF T
  <2> QED
    BY <1>1, <1>4, <1>5, Counting
<1>7. ASSUME NEW k \in 1..N PROVE P(k - 1) < P(k)
  <2>1. k - 1 \in 0..N /\ k - 1 <= N
    BY <1>1
  <2>2. P(k - 1) \in Nat
    BY <1>6, <2>1
  <2> DEFINE e == run.entries[k].ticks
  <2>3. e \in Nat \ {0} /\ P(k) = P(k - 1) + e
    BY <1>2
  <2> HIDE DEF e
  <2> QED
    BY <2>2, <2>3
<1>8. ASSUME NEW k \in 0..N PROVE P(k) \in Nat /\ \A j \in 0..k : P(j) <= P(k)
  BY <1>6
<1> QED
  BY <1>1, <1>7, <1>8 DEF N, P

\* A tick of a run without jumps: one less to wait, or the next entry, or the loop, or the end.
PlainMove(track, run, h, g) ==
  LET ends == track.oneShot \/ run.once
  IN  \/ h.ticks > 1 /\ ~g.done /\ g.offset = h.offset /\ g.ticks = h.ticks - 1
      \/ h.ticks = 1 /\ h.offset = LastOf(run) /\ ends /\ g.done
      \/ /\ h.ticks = 1 /\ ~g.done /\ g.ticks = At(run, g.offset).ticks
         /\ \/ h.offset < LastOf(run) /\ g.offset = h.offset + 1
            \/ h.offset = LastOf(run) /\ ~ends /\ g.offset = LoopStart(run)

LEMMA PlainTick ==
  ASSUME NEW track, NEW run, Sound(run), Plain(run), NEW h, InRun(run, h), ~h.done
  PROVE  PlainMove(track, run, h, Ticked(track, run, h))
<1> DEFINE seen  == IF At(run, h.offset).visible THEN h.offset ELSE h.seen
           lit   == [h EXCEPT !.seen = seen, !.ticks = h.ticks - 1]
           moved == Moved(track, run, lit)
           posed == IF moved.done THEN Posed(track, run, moved, h.offset) ELSE moved
           ends  == track.oneShot \/ run.once
           last  == LastOf(run)
<1>1. run.entries # <<>> /\ \A k \in DOMAIN run.entries : ~run.entries[k].jump
  BY DEF Plain
<1>2. /\ h \in Playhead(run) /\ h.ticks # 0 /\ Visible(run, h)
      /\ last \in Nat /\ Len(run.entries) = last + 1
      /\ \A o \in 0..last : At(run, o) = run.entries[o + 1] /\ At(run, o) \in Entry
  BY <1>1, Entries DEF InRun
<1>3. h.offset \in 0..last /\ h.ticks \in Nat \ {0} /\ h.ticks - 1 \in Nat
  BY <1>2 DEF Playhead
<1>4. ~At(run, h.offset).jump
  <2>1. h.offset + 1 \in DOMAIN run.entries
    <3>1. run.entries \in Seq(Entry)
      BY DEF Sound, RunData
    <3> QED
      BY <1>2, <1>3, <3>1
  <2> QED
    BY <1>1, <1>2, <1>3, <2>1
<1>5. Ticked(track, run, h) =
        IF ~Over(lit) THEN lit ELSE [posed EXCEPT !.ticks = At(run, posed.offset).ticks]
  BY <1>1, <1>2, <1>3 DEF Ticked
<1>6. seen \in {None} \cup 0..last /\ (seen # None => At(run, seen).visible)
  BY <1>2, <1>3 DEF Playhead, Visible
<1> HIDE DEF seen
<1>7. lit \in Playhead(run) /\ lit.ticks = h.ticks - 1 /\ lit.seen = seen /\ ~lit.done /\ lit.offset = h.offset
  BY <1>2, <1>3, <1>6 DEF Playhead
<1> HIDE DEF lit
<1>8. CASE ~Over(lit)
  BY <1>3, <1>5, <1>7, <1>8 DEF Over, PlainMove
<1>9. CASE Over(lit)
  <2>0. h.ticks = 1 /\ Ticked(track, run, h) = [posed EXCEPT !.ticks = At(run, posed.offset).ticks]
    BY <1>3, <1>5, <1>7, <1>9 DEF Over
  <2>1. CASE ends /\ h.offset = last
    <3>1. moved = Finished(run, lit)
      BY <1>3, <1>4, <1>7, <2>1 DEF Moved
    <3>2. moved \in Playhead(run) /\ moved.done /\ moved.seen = seen
      <4>1. moved \in Playhead(run) /\ moved.seen = seen
        BY <1>1, <1>7, MovedIs
      <4>2. moved.done
        BY <1>7, <3>1 DEF Finished, Playhead
      <4> QED
        BY <4>1, <4>2
    <3> HIDE DEF moved
    <3>3. posed.done /\ posed \in Playhead(run)
      BY <1>1, <1>3, <1>6, <3>2, PosedIs
    <3> HIDE DEF posed
    <3>4. Ticked(track, run, h).done
      BY <2>0, <3>3 DEF Playhead
    <3> QED
      BY <2>0, <2>1, <3>4 DEF PlainMove
  <2>2. CASE ~(ends /\ h.offset = last)
    <3>1. moved = Steps(run, lit)
      <4>1. ~At(run, lit.offset).jump
        BY <1>4, <1>7
      <4>2. ~(track.oneShot /\ lit.offset >= LastOf(run)) /\ ~(run.once /\ lit.offset >= LastOf(run))
        BY <1>2, <1>3, <1>7, <2>2
      <4> QED
        BY <4>1, <4>2 DEF Moved
    <3>2. moved \in Playhead(run) /\ ~moved.done
          /\ moved.offset = IF h.offset + 1 > last THEN LoopStart(run) ELSE h.offset + 1
      <4>1. moved \in Playhead(run)
        BY <1>1, <1>7, MovedIs
      <4>2. ~moved.done /\ moved.offset = IF h.offset + 1 > last THEN LoopStart(run) ELSE h.offset + 1
        BY <1>7, <3>1 DEF Steps, Playhead
      <4> QED
        BY <4>1, <4>2
    <3> HIDE DEF moved
    <3>3. Ticked(track, run, h) = [moved EXCEPT !.ticks = At(run, moved.offset).ticks]
      BY <2>0, <3>2
    <3>4. /\ ~Ticked(track, run, h).done /\ Ticked(track, run, h).offset = moved.offset
          /\ Ticked(track, run, h).ticks = At(run, moved.offset).ticks
      BY <3>2, <3>3 DEF Playhead
    <3>5. h.offset < last \/ (h.offset = last /\ ~ends)
      BY <1>2, <1>3, <2>2
    <3> HIDE DEF last
    <3>6. h.offset < last => Ticked(track, run, h).offset = h.offset + 1
      BY <1>2, <1>3, <3>2, <3>4
    <3>7. h.offset = last => Ticked(track, run, h).offset = LoopStart(run)
      BY <1>2, <1>3, <3>2, <3>4
    <3> QED
      BY <2>0, <3>4, <3>5, <3>6, <3>7 DEF last, PlainMove
  <2> QED
    BY <2>1, <2>2
<1> QED
  BY <1>8, <1>9

\* Where in its run a playhead stands, in ticks from the first entry.
Position(run, h) == TicksTo(run, h.offset + 1) - h.ticks

\* A playhead that has had t ticks since its run was started: it stands where the run is after
\* that time, in the first pass or in a turn of the loop.
Timed(track, run, h, t) ==
  IF h.done THEN (track.oneShot \/ run.once) /\ t >= FirstPass(run)
  ELSE /\ h.ticks <= At(run, h.offset).ticks
       /\ IF t < FirstPass(run)
          THEN h.offset >= run.start /\ Position(run, h) = TicksTo(run, run.start) + t
          ELSE /\ ~(track.oneShot \/ run.once) /\ h.offset >= LoopStart(run)
               /\ Position(run, h) =
                    TicksTo(run, LoopStart(run)) + ((t - FirstPass(run)) % LoopTicks(run))

LEMMA EntryEnds ==
  ASSUME NEW run, Sound(run), run.entries # <<>>, NEW o \in 0..LastOf(run)
  PROVE  /\ TicksTo(run, o) \in Nat /\ At(run, o).ticks \in Nat \ {0}
         /\ TicksTo(run, o + 1) = TicksTo(run, o) + At(run, o).ticks
<1>1. /\ LastOf(run) \in Nat /\ Len(run.entries) = LastOf(run) + 1
      /\ At(run, o) = run.entries[o + 1] /\ At(run, o) \in Entry
  BY Entries
<1>2. o + 1 \in 1..Len(run.entries) /\ (o + 1) - 1 = o /\ o \in 0..Len(run.entries)
  BY <1>1
<1>3. TicksTo(run, o) \in Nat
  BY <1>2, SumGrows
<1>4. TicksTo(run, o + 1) = TicksTo(run, o) + run.entries[o + 1].ticks
  BY <1>2, SumIs DEF Sound
<1> QED
  BY <1>1, <1>3, <1>4 DEF Entry

LEMMA Passes ==
  ASSUME NEW run, Sound(run), run.entries # <<>>
  PROVE  /\ FirstPass(run) \in Nat \ {0} /\ LoopTicks(run) \in Nat \ {0}
         /\ TicksTo(run, run.start) \in Nat /\ TicksTo(run, LoopStart(run)) \in Nat
         /\ TicksTo(run, Len(run.entries)) = TicksTo(run, run.start) + FirstPass(run)
         /\ TicksTo(run, Len(run.entries)) = TicksTo(run, LoopStart(run)) + LoopTicks(run)
<1> DEFINE N == Len(run.entries)
           P(k) == TicksTo(run, k)
<1>1. /\ LastOf(run) \in Nat /\ N = LastOf(run) + 1
      /\ run.start \in 0..LastOf(run) /\ LoopStart(run) \in 0..LastOf(run)
  BY Entries
<1>2. ASSUME NEW k \in 0..LastOf(run) PROVE P(k) \in Nat /\ P(N) - P(k) \in Nat \ {0}
  <2>1. /\ k + 1 \in 1..N /\ k + 1 \in 0..N /\ k \in 0..N /\ N \in 0..N /\ (k + 1) - 1 = k
    BY <1>1
  <2>2. P(k) \in Nat /\ P(k + 1) \in Nat /\ P(N) \in Nat /\ P(k) < P(k + 1) /\ P(k + 1) <= P(N)
    BY <2>1, SumGrows
  <2> HIDE DEF P
  <2> QED
    BY <2>2
<1>3. FirstPass(run) = P(N) - P(run.start) /\ LoopTicks(run) = P(N) - P(LoopStart(run))
  BY DEF FirstPass, LoopTicks, TicksFrom
<1>4. P(N) \in Nat
  BY <1>1, SumGrows
<1> HIDE DEF P
<1>5. /\ P(run.start) \in Nat /\ P(N) - P(run.start) \in Nat \ {0}
      /\ P(LoopStart(run)) \in Nat /\ P(N) - P(LoopStart(run)) \in Nat \ {0}
  BY <1>1, <1>2
<1>6. /\ P(N) = P(run.start) + FirstPass(run) /\ P(N) = P(LoopStart(run)) + LoopTicks(run)
  BY <1>3, <1>4, <1>5
<1> QED
  BY <1>3, <1>5, <1>6 DEF P

\* Before the end of a run a playhead is in it.
LEMMA Before ==
  ASSUME NEW run, Sound(run), run.entries # <<>>, NEW h \in Playhead(run), h.ticks # 0
  PROVE  Position(run, h) \in Int /\ Position(run, h) < TicksTo(run, Len(run.entries))
<1>1. LastOf(run) \in Nat /\ Len(run.entries) = LastOf(run) + 1
  BY Entries
<1>2. h.offset \in 0..LastOf(run) /\ h.ticks \in Nat
  BY DEF Playhead
<1>3. h.offset + 1 \in 0..Len(run.entries) /\ Len(run.entries) \in 0..Len(run.entries)
  BY <1>1, <1>2
<1>4. TicksTo(run, h.offset + 1) \in Nat /\ TicksTo(run, Len(run.entries)) \in Nat
      /\ TicksTo(run, h.offset + 1) <= TicksTo(run, Len(run.entries))
  BY <1>3, SumGrows
<1> QED
  BY <1>2, <1>4 DEF Position

LEMMA TickedInTime ==
  ASSUME NEW track, NEW run, Sound(run), Plain(run), NEW h, InRun(run, h),
         NEW t \in Nat, Timed(track, run, h, t)
  PROVE  Timed(track, run, Ticked(track, run, h), t + 1)
<1> DEFINE g == Ticked(track, run, h)
           ends == track.oneShot \/ run.once
           F == FirstPass(run)
           L == LoopTicks(run)
           S == TicksTo(run, run.start)
           B == TicksTo(run, LoopStart(run))
           last == LastOf(run)
           all == TicksTo(run, Len(run.entries))
           m == (t - F) % L
<1>0. run.entries # <<>>
  BY DEF Plain
<1>1. /\ F \in Nat \ {0} /\ L \in Nat \ {0} /\ S \in Nat /\ B \in Nat
      /\ all = S + F /\ all = B + L
  BY <1>0, Passes
<1>2. /\ last \in Nat /\ Len(run.entries) = last + 1 /\ LoopStart(run) \in 0..last
      /\ run.start \in 0..last
  BY <1>0, Entries
<1>3. h \in Playhead(run) /\ h.ticks # 0 /\ h.offset \in 0..last /\ h.ticks \in Nat
  BY <1>0 DEF InRun, Playhead
<1>4. InRun(run, g)
  BY TickedKeeps
<1>5. g \in Playhead(run) /\ g.ticks # 0 /\ g.offset \in 0..last /\ g.ticks \in Nat
  BY <1>0, <1>4 DEF InRun, Playhead
<1>6. Position(run, h) \in Int /\ Position(run, g) \in Int /\ Position(run, g) < all
  BY <1>0, <1>3, <1>5, Before
<1>7. /\ t + 1 = F => ((t + 1) - F) % L = 0
      /\ t >= F => m \in 0..(L - 1) /\ ((t + 1) - F) % L = IF m = L - 1 THEN 0 ELSE m + 1
  <2> HIDE DEF F, L
  <2> QED
    BY <1>1, Turn
<1> HIDE DEF F, L, S, B, last, all, m
<1>8. CASE h.done
  <2>1. g = h
    BY <1>8 DEF Ticked
  <2>2. ends /\ t >= F
    BY <1>8 DEF Timed, F
  <2> QED
    BY <1>1, <1>8, <2>1, <2>2 DEF Timed, F
<1>9. CASE ~h.done
  <2> DEFINE now == IF t < F THEN S + t ELSE B + m
             next == ((t + 1) - F) % L
  <2>1. /\ Position(run, h) = now
        /\ t < F => h.offset >= run.start
        /\ t >= F => ~ends /\ h.offset >= LoopStart(run)
    BY <1>1, <1>9 DEF Timed, F, L, S, B, m
  <2>2. ASSUME ~g.done, g.ticks <= At(run, g.offset).ticks,
               t + 1 < F => g.offset >= run.start /\ Position(run, g) = S + (t + 1),
               t + 1 >= F => /\ ~ends /\ g.offset >= LoopStart(run)
                             /\ Position(run, g) = B + next
        PROVE  Timed(track, run, g, t + 1)
    BY <1>1, <2>2 DEF Timed, F, L, S, B
  <2>3. h.ticks <= At(run, h.offset).ticks
    BY <1>9 DEF Timed
  <2>4. \/ h.ticks > 1 /\ ~g.done /\ g.offset = h.offset /\ g.ticks = h.ticks - 1
        \/ h.ticks = 1 /\ h.offset = last /\ ends /\ g.done
        \/ /\ h.ticks = 1 /\ ~g.done /\ g.ticks = At(run, g.offset).ticks
           /\ \/ h.offset < last /\ g.offset = h.offset + 1
              \/ h.offset = last /\ ~ends /\ g.offset = LoopStart(run)
    <3>1. PlainMove(track, run, h, g)
      BY <1>9, PlainTick
    <3> HIDE DEF g
    <3> QED
      BY <3>1 DEF PlainMove, last
  <2>5. \A o \in 0..last : /\ TicksTo(run, o) \in Nat /\ At(run, o).ticks \in Nat \ {0}
                           /\ TicksTo(run, o + 1) = TicksTo(run, o) + At(run, o).ticks
    BY <1>0, EntryEnds DEF last
  <2> SUFFICES Timed(track, run, g, t + 1)
    OBVIOUS
  <2> HIDE DEF now, next, g
  <2>6. ASSUME ~g.done, g.ticks <= At(run, g.offset).ticks,
               Position(run, g) = Position(run, h) + 1, g.offset >= h.offset
        PROVE  Timed(track, run, g, t + 1)
    <3>1. t < F => t + 1 < F /\ Position(run, g) = S + (t + 1)
      BY <1>1, <1>6, <2>1, <2>6 DEF now
    <3>2. t >= F => m # L - 1 /\ Position(run, g) = B + next
      BY <1>1, <1>6, <1>7, <2>1, <2>6 DEF now, next
    <3>3. t < F => g.offset >= run.start
      BY <1>2, <1>3, <1>5, <2>1, <2>6
    <3>4. t >= F => g.offset >= LoopStart(run)
      BY <1>2, <1>3, <1>5, <2>1, <2>6
    <3>5. t < F \/ t >= F
      BY <1>1
    <3>6. t >= F => ~(t + 1 < F)
      BY <1>1
    <3>7. t + 1 < F => ~(t + 1 >= F)
      BY <1>1
    <3> QED
      BY <2>1, <2>2, <2>6, <3>1, <3>2, <3>3, <3>4, <3>5, <3>6, <3>7
  <2>7. ASSUME h.ticks = 1, h.offset = last PROVE t + 1 >= F /\ next = 0
    <3>1. Position(run, h) = all - 1
      BY <1>2, <2>7 DEF Position, all
    <3>2. CASE t < F
      <4>1. t + 1 = F
        BY <1>1, <2>1, <3>1, <3>2 DEF now
      <4> QED
        BY <1>1, <1>7, <4>1 DEF next
    <3>3. CASE t >= F
      <4>1. m = L - 1
        BY <1>1, <1>7, <2>1, <3>1, <3>3 DEF now
      <4> QED
        BY <1>1, <1>7, <3>3, <4>1 DEF next
    <3> QED
      BY <1>1, <3>2, <3>3
  <2>8. CASE h.ticks > 1 /\ ~g.done /\ g.offset = h.offset /\ g.ticks = h.ticks - 1
    <3>1. TicksTo(run, h.offset + 1) \in Nat /\ At(run, h.offset).ticks \in Nat
      BY <1>3, <2>5
    <3>2. Position(run, g) = Position(run, h) + 1
      BY <1>3, <2>8, <3>1 DEF Position
    <3>3. g.ticks <= At(run, g.offset).ticks
      BY <1>3, <2>3, <2>8, <3>1
    <3> QED
      BY <1>3, <2>6, <2>8, <3>2, <3>3
  <2>9. CASE h.ticks = 1 /\ h.offset = last /\ ends /\ g.done
    BY <2>7, <2>9 DEF Timed, F
  <2>10. CASE /\ h.ticks = 1 /\ ~g.done /\ g.ticks = At(run, g.offset).ticks
              /\ h.offset < last /\ g.offset = h.offset + 1
    <3>1. /\ TicksTo(run, g.offset) \in Nat /\ g.ticks \in Nat
          /\ TicksTo(run, g.offset + 1) = TicksTo(run, g.offset) + g.ticks
      BY <1>5, <2>5, <2>10
    <3>2. Position(run, g) = Position(run, h) + 1
      BY <2>10, <3>1 DEF Position
    <3> QED
      BY <1>3, <1>5, <2>6, <2>10, <3>1, <3>2
  <2>11. CASE /\ h.ticks = 1 /\ ~g.done /\ g.ticks = At(run, g.offset).ticks
              /\ h.offset = last /\ ~ends /\ g.offset = LoopStart(run)
    <3>1. /\ TicksTo(run, g.offset) \in Nat /\ g.ticks \in Nat
          /\ TicksTo(run, g.offset + 1) = TicksTo(run, g.offset) + g.ticks
      BY <1>5, <2>5, <2>11
    <3>2. Position(run, g) = B
      BY <2>11, <3>1 DEF Position, B
    <3>3. t + 1 >= F /\ next = 0
      BY <2>7, <2>11
    <3> QED
      BY <1>1, <1>5, <2>2, <2>11, <3>1, <3>2, <3>3
  <2> QED
    BY <2>4, <2>8, <2>9, <2>10, <2>11
<1> QED
  BY <1>8, <1>9

LEMMA UpdatedInTime ==
  ASSUME NEW track, NEW run, Sound(run), Plain(run), NEW h, InRun(run, h),
         NEW t \in Nat, Timed(track, run, h, t), NEW n \in Nat
  PROVE  Timed(track, run, Updated(track, run, h, n), t + n)
<1>0. PICK after : TickByTick(after, track, run, h, n)
  BY UpdatedBySteps
<1>1. /\ after[0] = h
      /\ \A k \in 1..n : after[k] = Ticked(track, run, after[k - 1])
      /\ Updated(track, run, h, n) = after[n]
  BY <1>0 DEF TickByTick
<1> DEFINE T == {k \in Nat : k <= n => InRun(run, after[k]) /\ Timed(track, run, after[k], t + k)}
<1>2. 0 \in T
  <2>1. t + 0 = t
    OBVIOUS
  <2> QED
    BY <1>1, <2>1
<1>3. ASSUME NEW k \in Nat, k \in T PROVE k + 1 \in T
  <2> SUFFICES ASSUME k + 1 <= n
               PROVE  InRun(run, after[k + 1]) /\ Timed(track, run, after[k + 1], t + (k + 1))
    OBVIOUS
  <2>1. k + 1 \in 1..n /\ (k + 1) - 1 = k /\ t + k \in Nat /\ t + (k + 1) = (t + k) + 1
    OBVIOUS
  <2>2. after[k + 1] = Ticked(track, run, after[k])
    BY <1>1, <2>1
  <2>3. InRun(run, after[k]) /\ Timed(track, run, after[k], t + k)
    BY <1>3
  <2>4. Timed(track, run, Ticked(track, run, after[k]), (t + k) + 1)
    BY <2>1, <2>3, TickedInTime
  <2> QED
    BY <2>1, <2>2, <2>3, <2>4, TickedKeeps
<1>4. n \in T
  <2> HIDE DEF T
  <2> QED
    BY <1>2, <1>3, Counting
<1> QED
  BY <1>1, <1>4

LEMMA StartedInTime ==
  ASSUME NEW track, NEW run, Sound(run), Plain(run)
  PROVE  Timed(track, run, Started(run), 0)
<1>0. run.entries # <<>>
  BY DEF Plain
<1>1. run.start \in 0..LastOf(run) /\ FirstPass(run) \in Nat \ {0}
  BY <1>0, Entries, Passes
<1>2. /\ TicksTo(run, run.start) \in Nat /\ At(run, run.start).ticks \in Nat \ {0}
      /\ TicksTo(run, run.start + 1) = TicksTo(run, run.start) + At(run, run.start).ticks
  BY <1>0, <1>1, EntryEnds
<1>3. /\ Started(run).offset = run.start /\ Started(run).ticks = At(run, run.start).ticks
      /\ ~Started(run).done
  BY <1>0 DEF Started
<1> QED
  BY <1>0, <1>1, <1>2, <1>3, Entries DEF Timed, Position

LEMMA EntryAfterIs ==
  ASSUME NEW run, Sound(run), run.entries # <<>>, NEW h \in Playhead(run), h.ticks # 0,
         h.ticks <= At(run, h.offset).ticks,
         NEW from \in 0..LastOf(run), h.offset >= from,
         NEW x \in Int, Position(run, h) = TicksTo(run, from) + x
  PROVE  EntryAfter(run, from, x) = h.offset
<1> DEFINE last == LastOf(run)
           P(k) == TicksTo(run, k)
           o == h.offset
           K == {k \in from..last : P(k + 1) - P(from) > x}
<1>1. o \in 0..last /\ h.ticks \in Nat \ {0} /\ last \in Nat /\ Len(run.entries) = last + 1
  BY Entries DEF Playhead
<1>2. P(o) \in Nat /\ At(run, o).ticks \in Nat \ {0} /\ P(o + 1) = P(o) + At(run, o).ticks
  BY <1>1, EntryEnds
<1>3. P(from) \in Nat
  BY EntryEnds
<1>4. P(o + 1) - h.ticks = P(from) + x
  BY DEF Position
<1>5. \A k \in 0..o : P(k) \in Nat /\ P(k) <= P(o)
  <2>1. o \in 0..Len(run.entries) /\ \A k \in 0..o : k \in 0..Len(run.entries)
    BY <1>1
  <2> QED
    BY <2>1, SumGrows
<1>6. P(o) <= P(from) + x /\ P(o + 1) - P(from) > x
  <2> DEFINE d == At(run, o).ticks
             s == P(o)
             u == P(o + 1)
             b == P(from)
             w == h.ticks
  <2>1. /\ s \in Nat /\ d \in Nat /\ b \in Nat /\ w \in Nat \ {0} /\ w <= d
        /\ u = s + d /\ u - w = b + x
    BY <1>1, <1>2, <1>3, <1>4
  <2> HIDE DEF d, s, u, b, w
  <2>2. s <= b + x /\ u - b > x
    BY <2>1
  <2> QED
    BY <2>2 DEF s, u, b
<1> HIDE DEF last, P, o
<1>7. o \in K
  <2>1. P(o + 1) - P(from) > x
    BY <1>6
  <2>2. o \in from..last
    BY <1>1 DEF o, last
  <2> QED
    BY <2>1, <2>2
<1>8. ASSUME NEW k \in K, k < o PROVE FALSE
  <2>1. k \in from..last /\ P(k + 1) - P(from) > x
    OBVIOUS
  <2>2. k + 1 \in 0..o
    BY <1>1, <1>8, <2>1 DEF last
  <2>3. P(k + 1) \in Nat /\ P(k + 1) <= P(o)
    BY <1>5, <2>2
  <2> HIDE DEF K
  <2> QED
    BY <1>2, <1>3, <1>6, <2>1, <2>3
<1>9. K \subseteq Nat
  BY <1>1 DEF last
<1>10. EntryAfter(run, from, x) = Min(K)
  BY DEF EntryAfter, last, P
<1> HIDE DEF K
<1>11. Min(K) \in K /\ Min(K) <= o
  BY <1>7, <1>9, Least
<1>12. ~(Min(K) < o)
  BY <1>8, <1>11
<1>13. Min(K) = o
  <2>1. \A k \in K : k \in Int
    BY <1>9
  <2>2. o \in Int /\ Min(K) \in Int
    BY <2>1, <1>7, <1>11
  <2> QED
    BY <2>2, <1>11, <1>12
<1> QED
  BY <1>10, <1>13 DEF o

LEMMA TimedShows ==
  ASSUME NEW track, NEW run, Sound(run), Plain(run), NEW h, InRun(run, h),
         NEW t \in Nat, Timed(track, run, h, t)
  PROVE  /\ h.done <=> (track.oneShot \/ run.once) /\ t >= FirstPass(run)
         /\ ~h.done => h.offset = EntryAt(run, t)
<1>0. run.entries # <<>>
  BY DEF Plain
<1>1. /\ h \in Playhead(run) /\ h.ticks # 0
      /\ run.start \in 0..LastOf(run) /\ LoopStart(run) \in 0..LastOf(run)
      /\ FirstPass(run) \in Nat \ {0} /\ LoopTicks(run) \in Nat \ {0}
  BY <1>0, Entries, Passes DEF InRun
<1>2. CASE h.done
  BY <1>2 DEF Timed
<1>3. CASE ~h.done
  <2>0. h.ticks <= At(run, h.offset).ticks
    BY <1>3 DEF Timed
  <2>1. CASE t < FirstPass(run)
    <3>1. h.offset >= run.start /\ Position(run, h) = TicksTo(run, run.start) + t
      BY <1>3, <2>1 DEF Timed
    <3>2. h.offset = EntryAfter(run, run.start, t)
      BY <1>0, <1>1, <2>0, <3>1, EntryAfterIs
    <3>3. ~(t >= FirstPass(run))
      BY <1>1, <2>1
    <3> QED
      BY <1>3, <2>1, <3>2, <3>3 DEF EntryAt
  <2>2. CASE ~(t < FirstPass(run))
    <3> DEFINE x == (t - FirstPass(run)) % LoopTicks(run)
    <3>1. /\ ~(track.oneShot \/ run.once) /\ h.offset >= LoopStart(run)
          /\ Position(run, h) = TicksTo(run, LoopStart(run)) + x
      BY <1>3, <2>2 DEF Timed
    <3>2. x \in Int
      <4>1. t >= FirstPass(run)
        BY <1>1, <2>2
      <4>2. FirstPass(run) \in Nat
        BY <1>1
      <4>3. x \in 0..(LoopTicks(run) - 1)
        BY <1>1, <4>1, <4>2, Turn
      <4> HIDE DEF x
      <4> QED
        BY <4>3
    <3>3. EntryAt(run, t) = EntryAfter(run, LoopStart(run), x)
      BY <2>2 DEF EntryAt
    <3> HIDE DEF x
    <3>4. h.offset = EntryAfter(run, LoopStart(run), x)
      BY <1>0, <1>1, <2>0, <3>1, <3>2, EntryAfterIs
    <3> QED
      BY <1>3, <3>1, <3>3, <3>4
  <2> QED
    BY <2>1, <2>2
<1> QED
  BY <1>2, <1>3

-----------------------------------------------------------------------------
(* All the runs of the track that plays. *)

\* Whole ticks, when e parts more have passed at part a of a tick.
TicksAdd(d, x, a, e) ==
  /\ x \div d \in Nat /\ (a + e) \div d \in Nat
  /\ (x + e) \div d = (x \div d) + ((a + e) \div d)
  /\ (x + e) % d = (a + e) % d

LEMMA Clock ==
  ASSUME NEW d \in Nat \ {0}, NEW x \in Nat, NEW a \in Nat, a = x % d, NEW e \in Nat
  PROVE  TicksAdd(d, x, a, e)
<1>1. ASSUME NEW y \in Nat PROVE y \div d \in Nat
  <2>1. y \div d \in Int /\ y % d \in 0..(d - 1) /\ y = d * (y \div d) + (y % d)
    BY DivMod
  <2> DEFINE q == y \div d
  <2>2. CASE q <= -1
    <3> HIDE DEF q
    <3>1. d * q <= -d
      BY <2>1, <2>2 DEF q
    <3> QED
      BY <2>1, <3>1 DEF q
  <2> QED
    BY <2>1, <2>2
<1> DEFINE q == x \div d
           n == (a + e) \div d
           r == (a + e) % d
<1>2. q \in Nat /\ x = d * q + a
  BY <1>1, DivMod
<1>3. n \in Nat /\ r \in 0..(d - 1) /\ a + e = d * n + r
  BY <1>1, DivMod
<1> SUFFICES (x + e) \div d = q + n /\ (x + e) % d = r
  BY <1>2, <1>3 DEF TicksAdd
<1> HIDE DEF q, n, r
<1>4. x + e = d * (q + n) + r /\ x + e \in Int /\ q + n \in Int
  BY <1>2, <1>3
<1> QED
  BY <1>3, <1>4, DivModIs

\* Every run is where the time since play() has brought it.
HeadsInv ==
  /\ played \in Nat /\ accum \in Nat /\ accum = played % Parts
  /\ heads = [i \in DOMAIN Runs |-> heads[i]]
  /\ \A i \in DOMAIN Runs :
       /\ InRun(Runs[i], heads[i])
       /\ Plain(Runs[i]) => Timed(Tracks[chosen], Runs[i], heads[i], played \div Parts)

LEMMA Element ==
  ASSUME NEW S, NEW s \in Seq(S), NEW k \in DOMAIN s
  PROVE  s[k] \in S
<1>1. DOMAIN s = 1..Len(s)
  OBVIOUS
<1> QED
  BY <1>1

LEMMA TracksAreSound ==
  ASSUME NEW t \in DOMAIN Tracks, NEW i \in DOMAIN Tracks[t].runs
  PROVE  Sound(Tracks[t].runs[i])
<1>1. Tracks[t] \in [oneShot : BOOLEAN, runs : Seq(RunData)]
  BY PlaybackAssumption, Element
<1>2. Tracks[t].runs \in Seq(RunData)
  BY <1>1
<1>3. Tracks[t].runs[i] \in RunData
  BY <1>2, Element
<1> QED
  BY <1>3, PlaybackAssumption DEF Sound

\* play(), in the first frame or later.
LEMMA PlayedHeads ==
  ASSUME NEW t \in DOMAIN Tracks,
         chosen' = t, heads' = [i \in DOMAIN Tracks[t].runs |-> Started(Tracks[t].runs[i])],
         played' = 0, accum' = 0
  PROVE  HeadsInv'
<1>1. Parts \in Nat \ {0}
  BY PlaybackAssumption
<1>2. 0 \div Parts = 0 /\ 0 % Parts = 0
  BY <1>1, DivModIs
<1>3. ASSUME NEW i \in DOMAIN Tracks[t].runs
      PROVE  /\ InRun(Tracks[t].runs[i], heads'[i])
             /\ Plain(Tracks[t].runs[i]) => Timed(Tracks[t], Tracks[t].runs[i], heads'[i], 0)
  BY TracksAreSound, StartedIn, StartedInTime
<1>4. heads' = [i \in DOMAIN Tracks[t].runs |-> heads'[i]]
  OBVIOUS
<1> QED
  BY <1>2, <1>3, <1>4 DEF HeadsInv, Runs

LEMMA AdvancedHeads ==
  ASSUME HeadsInv, chosen \in DOMAIN Tracks, NEW elapsed \in Elapses, Advance(elapsed)
  PROVE  HeadsInv'
<1> DEFINE n == (accum + elapsed) \div Parts
           t == played \div Parts
<1>1. Parts \in Nat \ {0} /\ elapsed \in Nat /\ played \in Nat /\ accum \in Nat /\ accum = played % Parts
  BY PlaybackAssumption DEF HeadsInv
<1>2. /\ t \in Nat /\ n \in Nat /\ (played + elapsed) \div Parts = t + n
      /\ (played + elapsed) % Parts = (accum + elapsed) % Parts
  <2>1. TicksAdd(Parts, played, accum, elapsed)
    BY <1>1, Clock
  <2> QED
    BY <2>1 DEF TicksAdd
<1>3. (accum + elapsed) % Parts \in Nat
  <2>1. accum + elapsed \in Int
    BY <1>1
  <2>2. (accum + elapsed) % Parts \in 0..(Parts - 1)
    BY <1>1, <2>1, DivMod
  <2> QED
    BY <2>2
<1>4. /\ chosen' = chosen /\ played' = played + elapsed /\ accum' = (accum + elapsed) % Parts
      /\ heads' = [i \in DOMAIN heads |-> Updated(Tracks[chosen], Runs[i], heads[i], n)]
  BY DEF Advance
<1>5. /\ played' \in Nat /\ accum' \in Nat /\ accum' = played' % Parts
  BY <1>1, <1>2, <1>3, <1>4
<1>6. Runs' = Runs /\ DOMAIN heads = DOMAIN Runs
  BY <1>4 DEF Runs, HeadsInv
<1> HIDE DEF n, t
<1>7. heads' = [i \in DOMAIN Runs |-> heads'[i]]
  BY <1>4, <1>6
<1>8. ASSUME NEW i \in DOMAIN Runs
      PROVE  /\ InRun(Runs[i], heads'[i])
             /\ Plain(Runs[i]) => Timed(Tracks[chosen], Runs[i], heads'[i], t + n)
  <2>1. heads'[i] = Updated(Tracks[chosen], Runs[i], heads[i], n)
    BY <1>4, <1>6
  <2>2. Sound(Runs[i])
    BY TracksAreSound DEF Runs
  <2>3. InRun(Runs[i], heads[i]) /\ (Plain(Runs[i]) => Timed(Tracks[chosen], Runs[i], heads[i], t))
    BY DEF HeadsInv, t
  <2>4. InRun(Runs[i], heads'[i])
    BY <1>2, <2>1, <2>2, <2>3, UpdatedKeeps
  <2>5. ASSUME Plain(Runs[i]) PROVE Timed(Tracks[chosen], Runs[i], heads'[i], t + n)
    BY <1>2, <2>1, <2>2, <2>3, <2>5, UpdatedInTime
  <2> QED
    BY <2>4, <2>5
<1>9. played' \div Parts = t + n
  BY <1>2, <1>4
<1> QED
  BY <1>4, <1>5, <1>6, <1>7, <1>8, <1>9 DEF HeadsInv

LEMMA NextHeads == IInv /\ HeadsInv /\ [Next]_vars => HeadsInv'
<1> SUFFICES ASSUME IInv, HeadsInv, [Next]_vars PROVE HeadsInv'
  OBVIOUS
<1>0. chosen \in DOMAIN Tracks /\ want.track \in DOMAIN Tracks
  BY DEF IInv, Selection
<1>1. ASSUME UNCHANGED <<chosen, heads, accum, played>> PROVE HeadsInv'
  BY <1>1 DEF HeadsInv, Runs
<1>2. ASSUME NEW t \in DOMAIN Tracks, Select(t) PROVE HeadsInv'
  BY <1>1, <1>2 DEF Select
<1>3. ASSUME NEW p \in BOOLEAN, Apply(p) PROVE HeadsInv'
  <2>1. CASE Applies
    BY <1>0, <1>3, <2>1, PlayedHeads DEF Apply, Play
  <2>2. CASE ~Applies
    BY <1>1, <1>3, <2>2 DEF Apply
  <2> QED
    BY <2>1, <2>2
<1>4. CASE Frame
  BY <1>0, <1>1, <1>4, AdvancedHeads DEF Frame
<1>5. CASE UNCHANGED vars
  BY <1>1, <1>5 DEF vars
<1> QED
  BY <1>2, <1>3, <1>4, <1>5 DEF Next

LEMMA InitHeads == Init => HeadsInv
<1> SUFFICES ASSUME Init PROVE HeadsInv
  OBVIOUS
<1>1. PICK t \in DOMAIN Tracks :
        /\ chosen = t
        /\ heads = [i \in DOMAIN Tracks[t].runs |-> Started(Tracks[t].runs[i])]
  BY DEF Init
<1>2. accum = 0 /\ played = 0
  BY DEF Init
<1>3. Parts \in Nat \ {0}
  BY PlaybackAssumption
<1>4. 0 \div Parts = 0 /\ 0 % Parts = 0
  BY <1>3, DivModIs
<1>5. ASSUME NEW i \in DOMAIN Tracks[t].runs
      PROVE  /\ InRun(Tracks[t].runs[i], heads[i])
             /\ Plain(Tracks[t].runs[i]) => Timed(Tracks[t], Tracks[t].runs[i], heads[i], 0)
  BY <1>1, TracksAreSound, StartedIn, StartedInTime
<1>6. heads = [i \in DOMAIN Tracks[t].runs |-> heads[i]]
  BY <1>1
<1> QED
  BY <1>1, <1>2, <1>4, <1>5, <1>6 DEF HeadsInv, Runs

\* The invariant that the theorems below rest on.
THEOREM HeadsInvariance == Spec => [](IInv /\ HeadsInv)
<1>1. Init => IInv /\ HeadsInv
  BY InitInv, InitHeads
<1>2. IInv /\ HeadsInv /\ [Next]_vars => (IInv /\ HeadsInv)'
  BY NextInv, NextHeads
<1> QED
  BY <1>1, <1>2, PTL DEF Spec

\* No jump, loop, hold or end leads a playhead out of its run (SpritePlaybackState::update()),
\* whatever the entries, and however many ticks one picture takes.
THEOREM PlayheadsStayInside == Spec => []PlayheadInside
<1>1. IInv /\ HeadsInv => PlayheadInside
  BY DEF HeadsInv, InRun, Playhead, PlayheadInside
<1> QED
  BY <1>1, HeadsInvariance, PTL

\* A run that has finished shows a pose that can be seen or is hidden
\* (sprite_playback_state.cpp:178).
THEOREM PosesAreSeen == Spec => []HeldPose
<1>1. IInv /\ HeadsInv => HeldPose
  <2> SUFFICES ASSUME HeadsInv, NEW i \in DOMAIN Runs, heads[i].done, ~heads[i].hide, ~Hold
               PROVE  At(Runs[i], heads[i].offset).visible
    BY DEF HeldPose
  <2>1. InRun(Runs[i], heads[i])
    BY DEF HeadsInv
  <2> QED
    BY <2>1 DEF InRun, Visible
<1> QED
  BY <1>1, HeadsInvariance, PTL

\* What a run without jumps shows depends on the time since it was started only, and one that
\* ends does so when its entries are used up: for all entries, intros and rates of pictures
\* (update(); track_duration_frames(), by which scripts wait, counts on it).
THEOREM RunsPlayInTime == Spec => []PlaysInTime
<1>1. IInv /\ HeadsInv => PlaysInTime
  <2> SUFFICES ASSUME IInv, HeadsInv PROVE PlaysInTime
    OBVIOUS
  <2> DEFINE t == played \div Parts
  <2>1. t \in Nat
    <3>1. Parts \in Nat \ {0} /\ played \in Nat /\ accum \in Nat /\ accum = played % Parts
      BY PlaybackAssumption DEF HeadsInv
    <3>2. TicksAdd(Parts, played, accum, 0)
      BY <3>1, Clock
    <3> QED
      BY <3>2 DEF TicksAdd
  <2>2. ASSUME NEW i \in DOMAIN Runs, Plain(Runs[i])
        PROVE  /\ heads[i].done <=> Ends(Runs[i]) /\ t >= FirstPass(Runs[i])
               /\ ~heads[i].done => heads[i].offset = EntryAt(Runs[i], t)
    <3>1. InRun(Runs[i], heads[i]) /\ Timed(Tracks[chosen], Runs[i], heads[i], t)
      BY <2>2 DEF HeadsInv
    <3>2. Sound(Runs[i])
      BY TracksAreSound DEF IInv, Runs
    <3> HIDE DEF t
    <3> QED
      BY <2>1, <2>2, <3>1, <3>2, TimedShows DEF Ends
  <2> QED
    BY <2>2 DEF PlaysInTime
<1> QED
  BY <1>1, HeadsInvariance, PTL

=============================================================================
