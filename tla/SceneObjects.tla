---------------------------- MODULE SceneObjects ----------------------------
(***************************************************************************)
(* The objects of a scene: how scripts create, address, fade, move and      *)
(* delete them (registry.cpp, registry_sprite.cpp, registry_movement.cpp),  *)
(* and what the viewer's renderer shows of them.                            *)
(*                                                                         *)
(* An object has an id and further names.  Natives look names up in a table  *)
(* that only grows; movements are kept under the id; the renderer keeps its  *)
(* items by id too.  A place is a number on a line, opacity runs from 0 to    *)
(* Opaque.  Assets, layers, scale and animations are left out: Movement has    *)
(* the animations.                                                          *)
(***************************************************************************)
EXTENDS ScriptClock, Sequences, FiniteSets

CONSTANTS
  NoName,       \* the empty string
  Sprites,      \* ids given to CreateSprite*
  Casts,        \* string arguments of DrCreateChara, DrCreateNpc, DrUiCreateChara
  Opaque,       \* alpha 255
  Alphas,       \* values given to DrUiSetColorA
  Times,        \* time and delay arguments of fades
  Places,       \* where objects are put and sent
  Durations,    \* frames a movement takes
  MaxClock,     \* bound: frames
  MaxCalls      \* bound: natives the script calls

\* create_chara(): the second name if there is one, else the first.
CharaId(names) == IF Len(names) >= 2 /\ names[2] # NoName THEN names[2] ELSE names[1]

NamesOf(cast) == {cast.names[k] : k \in DOMAIN cast.names} \ {NoName}

\* Ids are not given to other objects as further names: such a name would change hands.
ASSUME ObjectsAssumption ==
  /\ \A c \in Casts : c.names[1] # NoName /\ c.ui \in BOOLEAN
  /\ \A c, d \in Casts : CharaId(d.names) \in NamesOf(c) => CharaId(c.names) = CharaId(d.names)
  /\ \A c \in Casts, s \in Sprites : s \in NamesOf(c) => CharaId(c.names) = s
  /\ Opaque \in Nat \ {0} /\ Alphas \subseteq 0..Opaque /\ Times \subseteq Int
  /\ Places \subseteq Nat /\ Durations \subseteq 1..LongestWait
  /\ MaxClock \in Nat /\ MaxCalls \in Nat /\ NoName \notin Sprites

VARIABLES
  entities,    \* SceneState::entities
  byName,      \* Registry::_by_name
  moves,       \* Registry::_moves, by id
  goal,        \* history: where the script last put or sent each entity
  asked,       \* history: the opacity it last asked for
  last,        \* history: the name the last native created, NoName after anything else
  calls        \* the natives called so far

sceneVars == <<entities, byName, moves>>
vars == <<clockVars, sceneVars, goal, asked, last, calls>>

AllNames == Sprites \cup UNION {NamesOf(c) : c \in Casts}

NoClaim == -1

Steady == [start |-> 0, duration |-> 0, from |-> Opaque, to |-> 0]

Fresh(id) ==
  [name |-> id, aliases |-> <<>>, chara |-> FALSE, started |-> FALSE, visible |-> TRUE,
   alpha |-> Opaque, fade |-> Steady, pos |-> 0]

-----------------------------------------------------------------------------
Init ==
  /\ ClockInit
  /\ entities = <<>>
  /\ byName = [n \in {} |-> 0]
  /\ moves = [n \in {} |-> 0]
  /\ goal = <<>> /\ asked = <<>>
  /\ last = NoName
  /\ calls = 0

AtLeastZero(n) == IF n > 0 THEN n ELSE 0

\* entity_arg(): the entity a native means by a name.
Known == DOMAIN byName
Id(n) == entities[byName[n]].name

Native == phase = "run" /\ calls < MaxCalls /\ calls' = calls + 1 /\ UNCHANGED clockVars

\* f with one entry for k, in place of the one it had.
Put(f, k, value) == [x \in DOMAIN f \cup {k} |-> IF x = k THEN value ELSE f[x]]

\* Mutant: a new entity is not entered into the table.
EnsureUnlisted(id) ==
  IF id \in Known THEN [index |-> byName[id], all |-> entities, table |-> byName]
  ELSE [index |-> Len(entities) + 1, all |-> Append(entities, Fresh(id)), table |-> byName]

\* ensure(): the entity known by this name, or a new one.
Ensure(id) ==
  IF id \in Known THEN [index |-> byName[id], all |-> entities, table |-> byName]
  ELSE [index |-> Len(entities) + 1,
        all   |-> Append(entities, Fresh(id)),
        table |-> Put(byName, id, Len(entities) + 1)]

AsSprite(e, id, p) ==
  [e EXCEPT !.chara = FALSE, !.started = FALSE, !.pos = p, !.aliases = IF @ = <<>> THEN <<id>> ELSE @]

\* create_sprite().  An entity that was there keeps its opacity and its movement.
CreateSprite(id, p) ==
  /\ Native
  /\ LET s == Ensure(id)
         i == s.index
     IN  /\ entities' = [s.all EXCEPT ![i] = AsSprite(@, id, p)]
         /\ byName' = s.table
         /\ goal' = Put(goal, i, IF s.all[i].name \in DOMAIN moves THEN NoClaim ELSE p)
         /\ asked' = IF i \in DOMAIN asked THEN asked ELSE Put(asked, i, Opaque)
  /\ last' = NoName
  /\ UNCHANGED moves

\* A character of the user interface starts transparent.
AsChara(e, cast) ==
  [e EXCEPT !.chara = TRUE, !.started = TRUE, !.alpha = IF cast.ui THEN 0 ELSE @, !.aliases = cast.names]

\* create_chara(): the entity takes the names of this call as its aliases, and the table
\* leads every one of them to it.
CreateChara(cast) ==
  /\ Native
  /\ LET s == Ensure(CharaId(cast.names))
         i == s.index
     IN  /\ entities' = [s.all EXCEPT ![i] = AsChara(@, cast)]
         /\ byName' = [n \in DOMAIN s.table \cup NamesOf(cast) |->
                         IF n \in NamesOf(cast) THEN i ELSE s.table[n]]
         /\ goal' = IF i \in DOMAIN goal THEN goal ELSE Put(goal, i, 0)
         /\ asked' = IF cast.ui
                       THEN Put(asked, i, IF s.all[i].fade.duration = 0 THEN 0 ELSE NoClaim)
                       ELSE IF i \in DOMAIN asked THEN asked ELSE Put(asked, i, Opaque)
  /\ last' = IF cast.ui THEN NoName ELSE cast.names[1]
  /\ UNCHANGED moves

\* An animation native on an object: RuntimeEntity::started becomes true.
SetAnimation(n) ==
  /\ Native
  /\ entities' = [entities EXCEPT ![byName[n]].started = TRUE]
  /\ last' = NoName
  /\ UNCHANGED <<byName, moves, goal, asked>>

-----------------------------------------------------------------------------
(* Opacity. *)

Fading(e, start, duration, to) ==
  [e EXCEPT !.fade = [start |-> start, duration |-> duration, from |-> e.alpha, to |-> to]]

\* Mutant: an alpha set at once leaves an older fade in place.
ColoredUnderFade(e, value, time) ==
  IF time > 0 THEN [Fading(e, clock, time, value) EXCEPT !.alpha = value]
  ELSE [e EXCEPT !.alpha = value]

Colored(e, value, time) ==
  IF time > 0 THEN [Fading(e, clock, time, value) EXCEPT !.alpha = value]
  ELSE [e EXCEPT !.alpha = value, !.fade.duration = 0, !.fade.to = value]

\* DrUiSetColorA, SetSpriteColorA, DrSetColorA, SetColorA.
SetColorA(n, value, time) ==
  /\ Native
  /\ LET i == byName[n]
     IN  /\ entities' = [entities EXCEPT ![i] = Colored(@, value, AtLeastZero(time))]
         /\ asked' = [asked EXCEPT ![i] = IF entities[i].visible THEN value ELSE 0]
  /\ last' = NoName
  /\ UNCHANGED <<byName, moves, goal>>

Deleted(e, fade, delay) ==
  CASE fade > 0               -> Fading(e, clock + delay, fade, 0)
    [] fade = 0 /\ delay = 0  -> [e EXCEPT !.visible = FALSE]
    [] fade = 0 /\ delay > 0  -> Fading(e, clock + delay, 1, 0)

\* DeleteSprite, DeleteObject, DrUiDeleteChara: the entity stays in the list and in the table.
DeleteObject(n, fade, delay) ==
  /\ Native
  /\ LET i == byName[n]
     IN  /\ entities' = [entities EXCEPT ![i] = Deleted(@, AtLeastZero(fade), AtLeastZero(delay))]
         /\ asked' = [asked EXCEPT ![i] = 0]
  /\ last' = NoName
  /\ UNCHANGED <<byName, moves, goal>>

\* SceneRenderer's faded(): the opacity of an entity's item in a frame.
Faded(e, f) ==
  LET fade == e.fade
      on   == IF f - fade.start < fade.duration THEN f - fade.start ELSE fade.duration
  IN  IF fade.duration = 0 \/ f < fade.start THEN e.alpha
      ELSE fade.from + ((fade.to - fade.from) * on) \div fade.duration

\* SceneRenderer::sync(): how opaque an entity is on screen.
OnScreen(e) == IF e.visible /\ e.started THEN Faded(e, clock) ELSE 0

-----------------------------------------------------------------------------
(* Movement, by any of an object's names. *)

\* Move*, DrMove*, DrShortMove*, DrJumpAsync.
MoveTo(n, to, d) ==
  /\ Native
  /\ moves' = Put(moves, Id(n),
                  [from |-> entities[byName[n]].pos, to |-> to, f0 |-> clock, f1 |-> clock + d])
  /\ goal' = [goal EXCEPT ![byName[n]] = to]
  /\ last' = NoName
  /\ UNCHANGED <<entities, byName, asked>>

\* Mutant: a movement goes on under the place set.
PutUnderMove(n, p) ==
  /\ Native
  /\ entities' = [entities EXCEPT ![byName[n]].pos = p]
  /\ goal' = [goal EXCEPT ![byName[n]] = p]
  /\ last' = NoName
  /\ UNCHANGED <<byName, moves, asked>>

SetPosV(n, p) ==
  /\ Native
  /\ moves' = [k \in DOMAIN moves \ {Id(n)} |-> moves[k]]
  /\ entities' = [entities EXCEPT ![byName[n]].pos = p]
  /\ goal' = [goal EXCEPT ![byName[n]] = p]
  /\ last' = NoName
  /\ UNCHANGED <<byName, asked>>

Remaining(k) == moves[k].f1 - clock

\* MoveWait compares the name it is given with the keys of the movements.
MoveWaitParks(n) ==
  /\ n \in DOMAIN moves
  /\ Sleep(Remaining(n))
  /\ last' = NoName
  /\ UNCHANGED <<sceneVars, goal, asked, calls>>

MoveWaitReturns(n) ==
  /\ Native
  /\ n \notin DOMAIN moves
  /\ last' = NoName
  /\ UNCHANGED <<sceneVars, goal, asked>>

MoveWaitAll ==
  /\ \E k \in DOMAIN moves :
       /\ \A other \in DOMAIN moves : Remaining(other) <= Remaining(k)
       /\ Sleep(Remaining(k))
  /\ last' = NoName
  /\ UNCHANGED <<sceneVars, goal, asked, calls>>

-----------------------------------------------------------------------------
\* Registry::advance(): where a movement has its entity in frame f.
Along(m, f) ==
  IF f >= m.f1 THEN m.to ELSE m.from + ((m.to - m.from) * (f - m.f0)) \div (m.f1 - m.f0)

\* The movements that drive the entity at i.
Drivers(i) == {k \in DOMAIN moves : byName[k] = i}

Frame ==
  /\ clock < MaxClock
  /\ Tick
  /\ entities' = [i \in DOMAIN entities |->
                    IF Drivers(i) = {} THEN entities[i]
                    ELSE [entities[i] EXCEPT !.pos = Along(moves[CHOOSE k \in Drivers(i) : TRUE], clock')]]
  /\ moves' = [k \in {m \in DOMAIN moves : clock' < moves[m].f1} |-> moves[k]]
  /\ last' = NoName
  /\ UNCHANGED <<byName, goal, asked, calls>>

Start ==
  /\ Begin
  /\ entities' = <<>>
  /\ byName' = [n \in {} |-> 0]
  /\ moves' = [n \in {} |-> 0]
  /\ goal' = <<>> /\ asked' = <<>>
  /\ last' = NoName
  /\ UNCHANGED calls

OtherWait ==
  /\ \E n \in 1..LongestWait : Sleep(n)
  /\ last' = NoName
  /\ UNCHANGED <<sceneVars, goal, asked, calls>>

End ==
  /\ Return \/ Halt
  /\ last' = NoName
  /\ UNCHANGED <<sceneVars, goal, asked, calls>>

Creations ==
  \/ \E id \in Sprites, p \in Places : CreateSprite(id, p)
  \/ \E cast \in Casts : CreateChara(cast)

\* entity_arg() finds nothing for a name nobody has: the native does nothing.
OnObjects ==
  \E n \in Known :
    \/ SetAnimation(n)
    \/ \E a \in Alphas, t \in Times : SetColorA(n, a, t)
    \/ \E fade, delay \in Times : DeleteObject(n, fade, delay)
    \/ \E p \in Places, d \in Durations : MoveTo(n, p, d)
    \/ \E p \in Places : SetPosV(n, p)
    \/ MoveWaitParks(n)
    \/ MoveWaitReturns(n)

Next == Creations \/ OnObjects \/ MoveWaitAll \/ Frame \/ Start \/ OtherWait \/ End

Spec == Init /\ [][Next]_vars

-----------------------------------------------------------------------------
\* The renderer keeps its items by id and the natives look ids up: an id belongs to one
\* entity, and the table leads it there, whatever was created over it (registry.cpp:258,
\* scene_renderer.cpp:248).
OneEntityPerId ==
  \A i \in DOMAIN entities :
    /\ entities[i].name \in Known /\ byName[entities[i].name] = i
    /\ \A k \in DOMAIN entities \ {i} : entities[k].name # entities[i].name

\* Once its fade is over an object is as opaque as the script last asked for, by whichever of
\* its names, and a deleted one is gone: no older fade comes back, no fade stops half way.
OpacityAsAsked ==
  \A i \in DOMAIN entities :
    LET e == entities[i]
    IN  e.started /\ asked[i] # NoClaim
          /\ (e.fade.duration > 0 => clock >= e.fade.start + e.fade.duration)
        => OnScreen(e) = asked[i]

\* An object that does not move stands where the script last put or sent it, by whichever of
\* its names; one that moves is driven by one movement, to that place.
StandsWhereSent ==
  \A i \in DOMAIN entities :
    goal[i] # NoClaim =>
      IF Drivers(i) = {} THEN entities[i].pos = goal[i]
      ELSE Cardinality(Drivers(i)) = 1 /\ \A k \in Drivers(i) : moves[k].to = goal[i]

\* registry.cpp:333: "world chara (DrCreateChara/Npc) are visible immediately".
CreatedIsVisible ==
  last # NoName => OnScreen(entities[byName[last]]) > 0

=============================================================================
