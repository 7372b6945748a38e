--------------------------- MODULE SpritePlayback ---------------------------
(***************************************************************************)
(* How the viewer plays the clip of one sprite (sprite.cpp,                  *)
(* sprite_playback.cpp, sprite_playback_state.cpp).  A track has runs that   *)
(* play side by side.  A run is a list of entries, each shown for some ticks  *)
(* of 1/120 s; it loops, jumps, or plays once and holds or hides its last      *)
(* pose.  The script selects tracks in scene frames; the picture moves on by   *)
(* however much time has passed.                                            *)
(*                                                                         *)
(* Time is counted in parts of a tick.  Transforms, textures and the viewer's *)
(* debugging filters are left out.                                          *)
(***************************************************************************)
EXTENDS Integers, Sequences, FiniteSetsExt

CONSTANTS
  Tracks,      \* the tracks of the asset that can be chosen
  Hold,        \* SpritePlaybackState::hold_finished
  Parts,       \* parts of a tick the clock can tell apart
  Elapses,     \* parts of a tick that may pass between two frames
  MaxFrame     \* bound: scene frames

None == -1      \* UINT32_MAX

\* The ticks of the first k entries of a run.
TicksTo(run, k) ==
  LET sum[j \in 0..Len(run.entries)] == IF j = 0 THEN 0 ELSE sum[j - 1] + run.entries[j].ticks
  IN  sum[k]

\* analyze_tracks(): the entry a run goes back to, the first after its intro.
LoopStart(run) ==
  LET ends == {j \in DOMAIN run.entries : TicksTo(run, j) >= run.intro}
  IN  IF run.intro > 0 /\ ends # {} THEN Min(ends) ELSE 0

Entry == [ticks : Nat \ {0}, jump : BOOLEAN, target : Int, last : BOOLEAN, visible : BOOLEAN, textured : BOOLEAN]

RunData == [entries : Seq(Entry), start : Nat, intro : Int, once : BOOLEAN]

\* Every entry lasts a tick at least and an intro is not the whole run.
ASSUME PlaybackAssumption ==
  /\ Hold \in BOOLEAN /\ Parts \in Nat \ {0} /\ Elapses \subseteq Nat /\ MaxFrame \in Nat
  /\ Tracks \in Seq([oneShot : BOOLEAN, runs : Seq(RunData)])
  /\ \A t \in DOMAIN Tracks : \A i \in DOMAIN Tracks[t].runs :
       LET run == Tracks[t].runs[i]
       IN  run.entries # <<>> => run.start < Len(run.entries) /\ LoopStart(run) < Len(run.entries)

VARIABLES
  frame,      \* the scene frame
  want,       \* RuntimeEntity::track_index and animation_start_frame
  synced,     \* the view has followed the script in this frame
  chosen,     \* SpritePlayback::track_index
  applied,    \* SpritePlayback::applied_start_frame
  heads,      \* the playhead of every run: SpritePlaybackState's vectors
  accum,      \* SpritePlaybackState::accum, in parts of a tick
  paused,     \* SpritePlaybackState::paused
  played,     \* history: parts of a tick since play()
  since       \* history: the scene frame of the last play()

vars == <<frame, want, synced, chosen, applied, heads, accum, paused, played, since>>

Runs == Tracks[chosen].runs

-----------------------------------------------------------------------------
LastOf(run) == Len(run.entries) - 1

\* Offsets count from 0, as in the code.  Beyond a run lie the entries of the next one.
At(run, offset) ==
  IF offset <= LastOf(run) THEN run.entries[offset + 1]
  ELSE [ticks |-> 1, jump |-> FALSE, target |-> 0, last |-> FALSE, visible |-> TRUE, textured |-> TRUE]

\* play(): the playhead a run starts with.
Started(run) ==
  [offset |-> run.start, ticks |-> IF run.entries = <<>> THEN 0 ELSE At(run, run.start).ticks,
   seen |-> None, done |-> FALSE, hide |-> FALSE]

Play(t) == heads' = [i \in DOMAIN Tracks[t].runs |-> Started(Tracks[t].runs[i])]

\* can_hold()
CanHold(run, offset) == At(run, offset).textured

Finished(run, h) == [h EXCEPT !.done = TRUE, !.offset = LastOf(run)]

\* Mutant: the target is not compared with the end of the run.
JumpedAnywhere(run, h) == [h EXCEPT !.offset = run.start + At(run, h.offset).target]

\* A jump counts from the start offset; one that leads out of the run ends it.
Jumped(run, h) ==
  LET target == run.start + At(run, h.offset).target
  IN  IF target >= 0 /\ target <= LastOf(run) THEN [h EXCEPT !.offset = target]
      ELSE Finished(run, h)

\* Mutant: a loop starts over from the first entry.
StepsToFirst(run, h) ==
  [h EXCEPT !.offset = IF h.offset + 1 > LastOf(run) THEN 0 ELSE h.offset + 1]

Steps(run, h) ==
  [h EXCEPT !.offset = IF h.offset + 1 > LastOf(run) THEN LoopStart(run) ELSE h.offset + 1]

\* The entry at the playhead is over: where the playhead goes.
Moved(track, run, h) ==
  CASE track.oneShot /\ h.offset >= LastOf(run) -> Finished(run, h)
    [] ~(track.oneShot /\ h.offset >= LastOf(run)) /\ At(run, h.offset).jump -> Jumped(run, h)
    [] ~track.oneShot /\ ~At(run, h.offset).jump
         /\ run.once /\ h.offset >= LastOf(run) -> Finished(run, h)
    [] OTHER -> Steps(run, h)

\* Mutant: the entry before the end is held whether it shows anything or not.
PosedAsBefore(track, run, h, before) ==
  LET end     == At(run, h.offset)
      oneTick == run.once /\ ~Hold /\ end.ticks <= 1 /\ end.last
  IN  CASE oneTick /\ Len(track.runs) > 1 /\ h.seen # None /\ CanHold(run, h.seen)
             -> [h EXCEPT !.offset = h.seen, !.hide = FALSE]
        [] oneTick /\ ~(Len(track.runs) > 1 /\ h.seen # None /\ CanHold(run, h.seen))
             -> [h EXCEPT !.offset = before, !.hide = FALSE]
        [] OTHER -> [h EXCEPT !.hide = ~(Hold \/ end.visible)]

\* A run that has finished holds a pose or hides.  A last entry of one tick is the end mark
\* of a clip: the last visible entry is held instead, or else the one before the end.
Posed(track, run, h, before) ==
  LET end     == At(run, h.offset)
      oneTick == run.once /\ ~Hold /\ end.ticks <= 1 /\ end.last
      holds   == Len(track.runs) > 1 /\ h.seen # None /\ CanHold(run, h.seen)
  IN  CASE oneTick /\ holds -> [h EXCEPT !.offset = h.seen, !.hide = FALSE]
        [] oneTick /\ ~holds /\ At(run, before).visible
                            -> [h EXCEPT !.offset = before, !.hide = FALSE]
        [] oneTick /\ ~holds /\ ~At(run, before).visible
                            -> [h EXCEPT !.hide = TRUE]
        [] OTHER            -> [h EXCEPT !.hide = ~(Hold \/ end.visible)]

Over(h) == h.ticks = 0

\* One tick of one run.
Ticked(track, run, h) ==
  IF run.entries = <<>> \/ h.done \/ h.offset > LastOf(run) THEN h
  ELSE LET lit == [h EXCEPT !.seen = IF At(run, h.offset).visible THEN h.offset ELSE @, !.ticks = @ - 1]
           moved == Moved(track, run, lit)
           posed == IF moved.done THEN Posed(track, run, moved, h.offset) ELSE moved
       IN  IF ~Over(lit) THEN lit ELSE [posed EXCEPT !.ticks = At(run, posed.offset).ticks]

\* update(): the ticks that are due, one after the other.
Updated(track, run, h, n) ==
  LET after[k \in 0..n] == IF k = 0 THEN h ELSE Ticked(track, run, after[k - 1])
  IN  after[n]

-----------------------------------------------------------------------------
Init ==
  /\ frame = 0
  /\ \E t \in DOMAIN Tracks :
       /\ want = [track |-> t, start |-> 0]
       /\ chosen = t
       /\ heads = [i \in DOMAIN Tracks[t].runs |-> Started(Tracks[t].runs[i])]
  /\ applied = 0
  /\ synced = TRUE
  /\ accum = 0 /\ played = 0 /\ since = 0
  /\ paused = FALSE

\* DrAnimation, DrUiSetAnimation and the others: a track is selected, perhaps the same again.
Select(t) ==
  /\ ~synced
  /\ want' = [track |-> t, start |-> frame]
  /\ UNCHANGED <<frame, synced, chosen, applied, heads, accum, paused, played, since>>

\* Mutant: only another track is played.
AppliesOther == want.track # chosen

Applies == want.track # chosen \/ want.start # applied

\* SpritePlayback::apply(), called by every sync; it also takes over whether the script has
\* paused the entity.  RuntimeEntity::sequence_index, whose change would play() the track again
\* (sprite_playback.cpp:93), is 0 for good: nothing under src/ assigns it.
Apply(p) ==
  /\ ~synced
  /\ synced' = TRUE
  /\ paused' = p
  /\ applied' = want.start
  /\ IF Applies
       THEN /\ chosen' = want.track /\ Play(want.track)
            /\ accum' = 0 /\ played' = 0 /\ since' = frame
       ELSE UNCHANGED <<chosen, heads, accum, played, since>>
  /\ UNCHANGED <<frame, want>>

\* advance() with the time since the last picture.
Advance(elapsed) ==
  /\ synced
  /\ ~paused
  /\ heads' = [i \in DOMAIN heads |->
                 Updated(Tracks[chosen], Runs[i], heads[i], (accum + elapsed) \div Parts)]
  /\ accum' = (accum + elapsed) % Parts
  /\ played' = played + elapsed
  /\ UNCHANGED <<want, chosen, applied, paused, since>>

\* A scene frame passes, drawn or skipped.
NextFrame ==
  /\ frame < MaxFrame
  /\ frame' = frame + 1
  /\ synced' = FALSE

Frame ==
  \/ NextFrame /\ \E elapsed \in Elapses : Advance(elapsed)
  \/ NextFrame /\ synced /\ UNCHANGED <<want, chosen, applied, heads, accum, paused, played, since>>

Next ==
  \/ \E t \in DOMAIN Tracks : Select(t)
  \/ \E p \in BOOLEAN : Apply(p)
  \/ Frame

Spec == Init /\ [][Next]_vars

-----------------------------------------------------------------------------
(* A run without jumps, by what it is: the entries from the start offset, and  *)
(* then the loop over and over.                                             *)

Plain(run) == run.entries # <<>> /\ \A k \in DOMAIN run.entries : ~run.entries[k].jump

TicksFrom(run, from) == TicksTo(run, Len(run.entries)) - TicksTo(run, from)

FirstPass(run) == TicksFrom(run, run.start)
LoopTicks(run) == TicksFrom(run, LoopStart(run))

\* The entry on show t ticks after the entry `from` was begun.
EntryAfter(run, from, t) ==
  Min({k \in from..LastOf(run) : TicksTo(run, k + 1) - TicksTo(run, from) > t})

EntryAt(run, t) ==
  IF t < FirstPass(run) THEN EntryAfter(run, run.start, t)
  ELSE EntryAfter(run, LoopStart(run), (t - FirstPass(run)) % LoopTicks(run))

Ends(run) == Tracks[chosen].oneShot \/ run.once

\* No jump, loop, hold or end leads a playhead out of its run, where it would show the
\* entries of another (sprite_playback_state.cpp:229, 268).
PlayheadInside ==
  \A i \in DOMAIN Runs : Runs[i].entries # <<>> => heads[i].offset \in 0..LastOf(Runs[i])

\* However the time is cut into pictures, a run without jumps shows the entry that belongs
\* to the time since it was started, and one that ends ends in the tick its entries are used up;
\* track_duration_frames(), by which scripts wait for clips (sprite.cpp:149), counts on it.
PlaysInTime ==
  \A i \in DOMAIN Runs :
    LET run == Runs[i]
        t   == played \div Parts
    IN  Plain(run) =>
          /\ heads[i].done <=> Ends(run) /\ t >= FirstPass(run)
          /\ ~heads[i].done => heads[i].offset = EntryAt(run, t)

\* A finished run holds a pose that can be seen, unless it is told to hold the last or is
\* hidden (sprite_playback_state.cpp:178-181).
HeldPose ==
  \A i \in DOMAIN Runs :
    heads[i].done /\ ~heads[i].hide /\ ~Hold => At(Runs[i], heads[i].offset).visible

\* sprite_playback.cpp:86: "Re-selecting the same track is meaningful".  After every sync the
\* track the script selected last plays, and was started after that.
SelectionPlays ==
  synced => chosen = want.track /\ since >= want.start

=============================================================================
