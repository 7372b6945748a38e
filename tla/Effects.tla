------------------------------- MODULE Effects -------------------------------
(***************************************************************************)
(* Effects over a scene: the natives that append to SceneState::effects     *)
(* while the script runs, and the viewer's EffectManager, which follows the  *)
(* list with a cursor in every frame and keeps the effects that are on.     *)
(*                                                                         *)
(* A place is a number on a line.  Rotation, scale, direction, alpha and the *)
(* collision and opening records move nothing: they are events of the kind   *)
(* "style".  Easing is linear.                                              *)
(***************************************************************************)
EXTENDS ScriptClock, Sequences, FiniteSetsExt

CONSTANTS
  Names,        \* names the script gives to effects, the empty one perhaps among them
  NoName,       \* the empty name
  Nobody,       \* no entity to be attached to
  Actor,        \* an entity of the scene
  Cues,         \* what effects are created with: place, asset found, length, auto-delete
  Places,       \* places effects are sent to
  Offsets,      \* the offsets
  MoveTimes,    \* the time arguments of DrMoveEffect
  LastFrame,    \* bound: frames
  MaxEvents     \* bound: events of the list

ASSUME EffectsAssumption ==
  /\ NoName # Nobody /\ Actor # Nobody
  /\ Cues \subseteq [at : Int, loads : BOOLEAN, length : Nat, autoDelete : BOOLEAN]
  /\ Places \subseteq Int /\ Offsets \subseteq Int /\ MoveTimes \subseteq Int
  /\ LastFrame \in Nat /\ MaxEvents \in Nat

VARIABLES
  events,    \* SceneState::effects
  stand,     \* where the actor's entity is
  live,      \* EffectManager::_effects
  cursor,    \* EffectManager::_next
  synced     \* the view has caught up with the scene of this frame

effectsVars == <<clockVars, events, stand, live, cursor, synced>>

-----------------------------------------------------------------------------
(* EffectManager *)

\* The name given to an effect without one: "effect#" and the cursor.
Unnamed(n) == <<NoName, n>>

Larger(a, b) == IF a > b THEN a ELSE b

Still == [from |-> 0, to |-> 0, begin |-> 0, end |-> 0]

\* What `create` builds, unless the asset is missing.
Created(e) ==
  [base |-> e.cue.at, offset |-> 0, pos |-> e.cue.at, attached |-> Nobody,
   moving |-> FALSE, move |-> Still, start |-> e.frame, end |-> e.frame + e.cue.length,
   autoDelete |-> e.cue.autoDelete]

\* Mutant: a place set during a move does not end it.
PutDrifting(ef, p) == [ef EXCEPT !.base = p]

Put(ef, p) == [ef EXCEPT !.base = p, !.moving = FALSE]

\* Mutant: a move leaves from the place that was set, not from the one on show.
TakeOffFromBase(ef, e) ==
  [ef EXCEPT !.moving = TRUE,
             !.move = [from |-> ef.base, to |-> e.at, begin |-> e.frame, end |-> e.frame + Larger(1, e.time)]]

TakeOff(ef, e) ==
  [ef EXCEPT !.moving = TRUE,
             !.move = [from |-> ef.pos, to |-> e.at, begin |-> e.frame, end |-> e.frame + Larger(1, e.time)]]

\* The other events change an effect that is on.
Changed(ef, e) ==
  CASE e.kind = "pos"    -> Put(ef, e.at)
    [] e.kind = "offset" -> [ef EXCEPT !.offset = e.at, !.base = IF ef.attached = Nobody THEN @ + e.at ELSE @]
    [] e.kind = "attach" -> [ef EXCEPT !.attached = e.to]
    [] e.kind = "sprite_attach" -> [ef EXCEPT !.attached = e.to, !.offset = e.at]
    [] e.kind = "move"   -> TakeOff(ef, e)
    [] e.kind = "style"  -> ef

With(effects, n, ef) == [m \in DOMAIN effects \cup {n} |-> IF m = n THEN ef ELSE effects[m]]

\* apply() and the step of the cursor after it.  Naming an effect moves the cursor too.
Apply(s, e) ==
  LET passed == [s EXCEPT !.cursor = @ + 1]
  IN  CASE e.kind = "delete" ->
             [passed EXCEPT !.live = [n \in DOMAIN s.live \ {e.name} |-> s.live[n]]]
        [] e.kind = "create" ->
             IF ~e.cue.loads THEN passed
             ELSE IF e.name = NoName
             THEN [live |-> With(s.live, Unnamed(s.cursor), Created(e)), cursor |-> s.cursor + 2]
             ELSE [passed EXCEPT !.live = With(s.live, e.name, Created(e))]
        [] OTHER ->
             IF e.name \notin DOMAIN s.live THEN passed
             ELSE [passed EXCEPT !.live = With(s.live, e.name, Changed(s.live[e.name], e))]

\* The condition of the loop of update() and its body.
Caught(s) ==
  IF s.cursor < Len(events) /\ events[s.cursor + 1].frame <= clock
  THEN Apply(s, events[s.cursor + 1]) ELSE s

\* The loop: the events from the cursor on, in their order; at most as many as there are.
CaughtUp(s) ==
  LET after[k \in 0..Len(events)] == IF k = 0 THEN s ELSE Caught(after[k - 1])
  IN  after[Len(events)]

\* ease() of the part of a move that is over: nothing before it, all of it after.
Along(m) ==
  IF clock <= m.begin THEN m.from
  ELSE IF clock >= m.end THEN m.to
  ELSE m.from + ((m.to - m.from) * (clock - m.begin)) \div (m.end - m.begin)

\* Where update() puts an effect.
Placed(ef) ==
  [ef EXCEPT !.pos = IF ef.moving THEN Along(ef.move)
                     ELSE IF ef.attached = Nobody THEN ef.base ELSE stand + ef.offset]

\* Mutant: auto-deleted in the frame its track ends in.
OverEarly(ef) == ef.autoDelete /\ clock >= ef.end

Over(ef) == ef.autoDelete /\ ef.end > ef.start /\ clock > ef.end

\* EffectManager::update(), called by SceneView::initialize() and sync().
Update ==
  LET s  == CaughtUp([live |-> live, cursor |-> cursor])
      on == {n \in DOMAIN s.live : ~Over(s.live[n])}
  IN  /\ live' = [n \in on |-> Placed(s.live[n])]
      /\ cursor' = s.cursor

-----------------------------------------------------------------------------
EffectsInit ==
  /\ ClockInit
  /\ events = <<>>
  /\ stand = 0
  /\ live = [n \in {} |-> 0]
  /\ cursor = 0
  /\ synced = FALSE

\* The viewer starts its session once.
EffectsStart ==
  /\ phase = "unborn"
  /\ Begin
  /\ UNCHANGED <<events, stand, live, cursor, synced>>

\* A native appends an event in the frame it is called in.
Record(e) ==
  /\ phase = "run"
  /\ Len(events) < MaxEvents
  /\ events' = Append(events, e)
  /\ UNCHANGED <<clockVars, stand, live, cursor, synced>>

DrCreateEffect(n, cue) == Record([kind |-> "create", frame |-> clock, name |-> n, cue |-> cue])
DrDeleteEffect(n)      == Record([kind |-> "delete", frame |-> clock, name |-> n])
DrSetEffectPosV(n, p)  == Record([kind |-> "pos", frame |-> clock, name |-> n, at |-> p])
DrSetEffectOffsetV(n, d) == Record([kind |-> "offset", frame |-> clock, name |-> n, at |-> d])
DrSetCharaToEffect(n, a) == Record([kind |-> "attach", frame |-> clock, name |-> n, to |-> a])
SetDrCharaToSpriteEffect(n, a, d) ==
  Record([kind |-> "sprite_attach", frame |-> clock, name |-> n, to |-> a, at |-> d])
DrMoveEffect(n, p, t)  == Record([kind |-> "move", frame |-> clock, name |-> n, at |-> p, time |-> t])
StyleEffect(n)         == Record([kind |-> "style", frame |-> clock, name |-> n])

\* The burst ends: the script waits or has returned.
BurstEnds ==
  /\ \/ \E n \in 1..LongestWait : Sleep(n)
     \/ Return
  /\ UNCHANGED <<events, stand, live, cursor, synced>>

\* ScenePlayback::step(): the view follows every advance().
Sync ==
  /\ phase \in {"sleep", "over", "halted"}
  /\ ~synced
  /\ Update
  /\ synced' = TRUE
  /\ UNCHANGED <<clockVars, events, stand>>

\* A frame.  The actor walks all the time.
EffectsFrame ==
  /\ synced
  /\ clock < LastFrame
  /\ Tick
  /\ stand' = stand + 1
  /\ synced' = FALSE
  /\ UNCHANGED <<events, live, cursor>>

AtLimit ==
  /\ synced
  /\ Halt
  /\ synced' = FALSE
  /\ UNCHANGED <<events, stand, live, cursor>>

EffectNatives ==
  \/ \E n \in Names : \/ \E cue \in Cues : DrCreateEffect(n, cue)
                      \/ DrDeleteEffect(n)
                      \/ \E p \in Places : DrSetEffectPosV(n, p)
                      \/ \E d \in Offsets : DrSetEffectOffsetV(n, d)
                      \/ \E a \in {Actor, Nobody} : DrSetCharaToEffect(n, a)
                      \/ \E a \in {Actor, Nobody}, d \in Offsets : SetDrCharaToSpriteEffect(n, a, d)
                      \/ \E p \in Places, t \in MoveTimes : DrMoveEffect(n, p, t)
                      \/ StyleEffect(n)

EffectsNext == EffectsStart \/ EffectNatives \/ BurstEnds \/ Sync \/ EffectsFrame \/ AtLimit

EffectsSpec == EffectsInit /\ [][EffectsNext]_effectsVars

-----------------------------------------------------------------------------
(* What the list asks for, read as a whole, without a cursor. *)

Of(n, kinds) == {i \in 1..Len(events) : events[i].name = n /\ events[i].kind \in kinds}

\* The creation that counts: the last one whose asset was found.
Creations(n) == {i \in Of(n, {"create"}) : events[i].cue.loads}
Creation(n) == Max(Creations(n))

Since(n, kinds) == {i \in Of(n, kinds) : i > Creation(n)}

\* An effect with a track that ends deletes itself when told to.
Expired(n) ==
  LET e == events[Creation(n)]
  IN  e.cue.autoDelete /\ e.cue.length > 0 /\ clock > e.frame + e.cue.length

Wanted(n) == Creations(n) # {} /\ Since(n, {"delete"}) = {} /\ ~Expired(n)

\* The last of these events, or the creation.
Latest(n, kinds) == Max(Since(n, kinds) \cup {Creation(n)})

CarrierAt(n, i) ==
  LET attached == {j \in Since(n, {"attach", "sprite_attach"}) : j < i}
  IN  IF attached = {} THEN Nobody ELSE events[Max(attached)].to

\* Where an effect that is not on a move belongs.
Home(n) ==
  LET c      == Creation(n)
      put    == Latest(n, {"pos"})
      shifts == {i \in Since(n, {"offset"}) : i > put /\ CarrierAt(n, i) = Nobody}
      shifted[i \in put..Len(events)] ==
        IF i = put THEN (IF put = c THEN events[c].cue.at ELSE events[put].at)
        ELSE shifted[i - 1] + (IF i \in shifts THEN events[i].at ELSE 0)
      off    == Latest(n, {"offset", "sprite_attach"})
  IN  IF CarrierAt(n, Len(events) + 1) = Nobody THEN shifted[Len(events)]
      ELSE stand + (IF off = c THEN 0 ELSE events[off].at)

-----------------------------------------------------------------------------
\* effect_manager.hpp:15: the manager "plays the Timeline.effects stream".  After every frame
\* the named effects on show are those the whole list asks for: created, found, not deleted
\* since, and not ended; none is skipped, applied twice or kept.
ShowsWhatWasAsked == synced => \A n \in Names \ {NoName} : n \in DOMAIN live <=> Wanted(n)

\* Every effect is where the list, read as a whole, puts it: at the last place set, moved by
\* the offsets since; with its entity once attached; at the target once the last move is over.
PlacedAsAsked ==
  synced =>
    \A n \in DOMAIN live \cap Names :
      LET m == Latest(n, {"move"})
      IN  IF m = Creation(n) \/ m < Latest(n, {"pos"}) THEN live[n].pos = Home(n)
          ELSE clock >= live[n].move.end => live[n].pos = events[m].at

\* An effect that is on show does not jump when a move begins: it leaves from where the last
\* frame showed it, also when it is attached, is on another move or was told to stand elsewhere.
MoveTakesOff ==
  [][synced' /\ ~synced =>
       \A n \in DOMAIN live \cap DOMAIN live' \cap Names :
         LET m == Latest(n, {"move"})
         IN  m \in Since(n, {"move"}) /\ m > Latest(n, {"pos"})
               /\ events[m].frame = clock /\ Creation(n) <= cursor
             => live'[n].pos = live[n].pos]_effectsVars

=============================================================================
