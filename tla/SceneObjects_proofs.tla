------------------------- MODULE SceneObjects_proofs -------------------------
(***************************************************************************)
(* An id belongs to one entity and the table leads it there; an object stands *)
(* where it was sent and is as opaque as was asked: for all sprites, casts and  *)
(* sequences of natives.  The proof needs the assumption on names: no id is     *)
(* given to another object as a further name.  The inductive invariant has two  *)
(* layers: the types, and that the table leads nowhere else than into the list; *)
(* then, on top of it, that movements are kept under ids, and what the script   *)
(* last asked of an entity against its place, alpha, visibility and fade.      *)
(***************************************************************************)
EXTENDS SceneObjects, SequenceTheorems, FiniteSetTheorems, TLAPS

Ids == Sprites \cup {CharaId(c.names) : c \in Casts}
AliasLists == {<<>>} \cup {<<s>> : s \in Sprites} \cup {c.names : c \in Casts}

OpacityFade == [start : Int, duration : Int, from : Int, to : Int]

EntityRecord ==
  [name : Ids, aliases : AliasLists, chara : BOOLEAN, started : BOOLEAN, visible : BOOLEAN,
   alpha : Int, fade : OpacityFade, pos : Int]

MoveRecord == [from : Int, to : Int, f0 : Int, f1 : Int]

Types ==
  /\ clock \in Nat
  /\ entities \in Seq(EntityRecord)
  /\ \A k \in DOMAIN moves : moves[k] \in MoveRecord /\ moves[k].f0 < moves[k].f1
  /\ \A n \in Known : byName[n] \in 1..Len(entities)

IInv == Types /\ OneEntityPerId

-----------------------------------------------------------------------------
LEMMA Numbers ==
  /\ Opaque \in Nat /\ Alphas \subseteq Int /\ Times \subseteq Int /\ Places \subseteq Int
  /\ Durations \subseteq Nat \ {0}
<1>1. Opaque \in Nat \ {0} /\ Alphas \subseteq 0..Opaque /\ Times \subseteq Int /\ Places \subseteq Nat
      /\ Durations \subseteq 1..LongestWait
  BY ObjectsAssumption
<1> QED
  BY <1>1, LongestWaitAssumption

\* A further name of an object is an id only if it is its own.
LEMMA NamesApart ==
  ASSUME NEW cast \in Casts, NEW n \in NamesOf(cast), n \in Ids
  PROVE  n = CharaId(cast.names)
<1>1. CASE n \in Sprites
  BY <1>1, ObjectsAssumption
<1>2. ASSUME NEW c \in Casts, n = CharaId(c.names) PROVE n = CharaId(cast.names)
  BY <1>2, ObjectsAssumption
<1> QED
  BY <1>1, <1>2 DEF Ids

LEMMA EntityAt ==
  ASSUME Types, NEW i \in 1..Len(entities)
  PROVE  entities[i] \in EntityRecord
BY ElementOfSeq DEF Types

\* Names the table leads to different entities are different.
LEMMA Apart ==
  ASSUME NEW f, NEW x, NEW y, f[x] # f[y]
  PROVE  x # y
OBVIOUS

\* A native that changes one entity, but not its name.
LEMMA ChangeKeeps ==
  ASSUME IInv, clock' = clock, byName' = byName, NEW i \in 1..Len(entities), NEW e \in EntityRecord,
         e.name = entities[i].name, entities' = [entities EXCEPT ![i] = e],
         \A k \in DOMAIN moves' : moves'[k] \in MoveRecord /\ moves'[k].f0 < moves'[k].f1
  PROVE  IInv'
<1>1. /\ entities' \in Seq(EntityRecord) /\ Len(entities') = Len(entities)
      /\ \A j \in 1..Len(entities) : entities'[j] = IF j = i THEN e ELSE entities[j]
  BY ExceptSeq DEF IInv, Types
<1>2. Types'
  BY <1>1 DEF IInv, Types, Known
<1>3. DOMAIN entities = 1..Len(entities) /\ DOMAIN entities' = 1..Len(entities)
  BY <1>1, LenProperties DEF IInv, Types
<1>4. \A j \in 1..Len(entities) : entities'[j].name = entities[j].name
  BY <1>1
<1>5. OneEntityPerId'
  BY <1>3, <1>4 DEF IInv, OneEntityPerId, Known
<1> QED
  BY <1>2, <1>5 DEF IInv

LEMMA NothingChanges ==
  ASSUME IInv, clock' \in Nat, entities' = entities, byName' = byName,
         \A k \in DOMAIN moves' : moves'[k] \in MoveRecord /\ moves'[k].f0 < moves'[k].f1
  PROVE  IInv'
BY DEF IInv, Types, OneEntityPerId, Known

\* ensure(): the entity with this name, or one more in the list and in the table.
LEMMA EnsureFinds ==
  ASSUME IInv, NEW id \in Ids
  PROVE  LET s == Ensure(id)
         IN  /\ s.all \in Seq(EntityRecord) /\ s.index \in 1..Len(s.all)
             /\ Len(entities) <= Len(s.all)
             /\ DOMAIN s.table = Known \cup {id} /\ s.table[id] = s.index
             /\ \A n \in Known : s.table[n] = byName[n]
             /\ \A j \in 1..Len(s.all) : s.all[j].name \in DOMAIN s.table /\ s.table[s.all[j].name] = j
             /\ \A n \in DOMAIN s.table : s.table[n] \in 1..Len(s.all)
<1>1. CASE id \in Known
  <2>1. Ensure(id).index = byName[id] /\ Ensure(id).all = entities /\ Ensure(id).table = byName
    BY <1>1 DEF Ensure
  <2>2. DOMAIN entities = 1..Len(entities) /\ Len(entities) \in Nat /\ entities \in Seq(EntityRecord)
    BY LenProperties DEF IInv, Types
  <2>3. DOMAIN byName = Known \cup {id}
    BY <1>1 DEF Known
  <2> QED
    BY <1>1, <2>1, <2>2, <2>3 DEF IInv, Types, OneEntityPerId, Known
<1>2. CASE id \notin Known
  <2> DEFINE all == Append(entities, Fresh(id))
             table == Put(byName, id, Len(entities) + 1)
  <2>1. Ensure(id).index = Len(entities) + 1 /\ Ensure(id).all = all /\ Ensure(id).table = table
    BY <1>2 DEF Ensure
  <2>2. Fresh(id) \in EntityRecord /\ Fresh(id).name = id
    BY Numbers DEF Fresh, EntityRecord, Steady, OpacityFade, AliasLists
  <2>3. entities \in Seq(EntityRecord) /\ Len(entities) \in Nat /\ DOMAIN entities = 1..Len(entities)
    BY LenProperties DEF IInv, Types
  <2>4. /\ all \in Seq(EntityRecord) /\ Len(all) = Len(entities) + 1
        /\ \A j \in 1..Len(entities) : all[j] = entities[j]
        /\ all[Len(entities) + 1] = Fresh(id)
    BY <2>2, <2>3, AppendProperties
  <2>5. /\ DOMAIN table = Known \cup {id} /\ table[id] = Len(entities) + 1
        /\ \A n \in Known : table[n] = byName[n]
    BY <1>2 DEF Put, Known
  <2> HIDE DEF all, table
  <2>6. ASSUME NEW j \in 1..Len(all) PROVE all[j].name \in DOMAIN table /\ table[all[j].name] = j
    <3>1. CASE j = Len(entities) + 1
      BY <2>2, <2>4, <2>5, <3>1
    <3>2. CASE j # Len(entities) + 1
      <4>1. j \in 1..Len(entities) /\ all[j] = entities[j]
        BY <2>3, <2>4, <3>2
      <4>2. entities[j].name \in Known /\ byName[entities[j].name] = j
        BY <2>3, <4>1 DEF IInv, OneEntityPerId
      <4> QED
        BY <2>5, <4>1, <4>2
    <3> QED
      BY <3>1, <3>2
  <2>7. ASSUME NEW n \in DOMAIN table PROVE table[n] \in 1..Len(all)
    BY <2>3, <2>4, <2>5 DEF IInv, Types
  <2> QED
    BY <2>1, <2>3, <2>4, <2>5, <2>6, <2>7
<1> QED
  BY <1>1, <1>2

-----------------------------------------------------------------------------
LEMMA InitInv == Init => IInv
<1> SUFFICES ASSUME Init PROVE IInv
  OBVIOUS
<1>1. entities = <<>> /\ DOMAIN byName = {} /\ DOMAIN moves = {} /\ clock = 0
  BY DEF Init, ClockInit
<1>2. <<>> \in Seq(EntityRecord) /\ DOMAIN <<>> = {}
  OBVIOUS
<1> QED
  BY <1>1, <1>2 DEF IInv, Types, OneEntityPerId, Known

LEMMA Replaced ==
  ASSUME NEW all \in Seq(EntityRecord), NEW i \in 1..Len(all), NEW e \in EntityRecord,
         e.name = all[i].name, NEW new, new = [all EXCEPT ![i] = e]
  PROVE  /\ new \in Seq(EntityRecord) /\ Len(new) = Len(all) /\ DOMAIN new = 1..Len(all)
         /\ \A j \in 1..Len(all) : new[j].name = all[j].name
<1>1. /\ new \in Seq(EntityRecord) /\ Len(new) = Len(all)
      /\ \A j \in 1..Len(all) : new[j] = IF j = i THEN e ELSE all[j]
  BY ExceptSeq
<1> QED
  BY <1>1, LenProperties

\* CreateSprite and CreateChara: the list and the table ensure() leaves, further names for the
\* entity it found, and a change of that entity.
LEMMA CreationKeeps ==
  ASSUME IInv, NEW id \in Ids, NEW names, NEW e \in EntityRecord,
         NEW all \in Seq(EntityRecord), NEW i \in 1..Len(all), NEW table,
         id \in DOMAIN table, table[id] = i,
         \A j \in 1..Len(all) : all[j].name \in DOMAIN table /\ table[all[j].name] = j,
         \A n \in DOMAIN table : table[n] \in 1..Len(all),
         \A n \in names : n \in Ids => n = id,
         e.name = all[i].name, entities' = [all EXCEPT ![i] = e],
         DOMAIN byName' = DOMAIN table \cup names,
         \A n \in DOMAIN byName' : byName'[n] = IF n \in names THEN i ELSE table[n],
         clock' = clock, moves' = moves
  PROVE  IInv'
<1>1. /\ entities' \in Seq(EntityRecord) /\ Len(entities') = Len(all) /\ DOMAIN entities' = 1..Len(all)
      /\ \A j \in 1..Len(all) : entities'[j].name = all[j].name
  BY Replaced
<1>2. /\ DOMAIN byName' = DOMAIN table \cup names
      /\ \A n \in DOMAIN byName' : byName'[n] = IF n \in names THEN i ELSE table[n]
  OBVIOUS
<1>3. ASSUME NEW j \in 1..Len(all) PROVE all[j].name \in DOMAIN byName' /\ byName'[all[j].name] = j
  <2>1. all[j].name \in Ids
    <3>1. all[j] \in EntityRecord
      BY ElementOfSeq
    <3> QED
      BY <3>1 DEF EntityRecord
  <2>2. CASE all[j].name \in names
    <3>1. all[j].name = id
      BY <2>1, <2>2
    <3> QED
      BY <1>2, <2>2, <3>1
  <2>3. CASE all[j].name \notin names
    BY <1>2, <2>3
  <2> QED
    BY <2>2, <2>3
<1>4. OneEntityPerId'
  <2>1. ASSUME NEW j \in 1..Len(all), NEW k \in 1..Len(all), j # k
        PROVE  all[j].name # all[k].name
    <3>1. byName'[all[j].name] = j /\ byName'[all[k].name] = k
      BY <1>3
    <3> QED
      BY <2>1, <3>1, Apart
  <2>2. ASSUME NEW j \in DOMAIN entities'
        PROVE  /\ entities'[j].name \in DOMAIN byName' /\ byName'[entities'[j].name] = j
               /\ \A k \in DOMAIN entities' \ {j} : entities'[k].name # entities'[j].name
    <3>1. j \in 1..Len(all) /\ entities'[j].name = all[j].name
      BY <1>1
    <3>2. ASSUME NEW k \in DOMAIN entities' \ {j} PROVE entities'[k].name # entities'[j].name
      <4>1. k \in 1..Len(all) /\ k # j /\ entities'[k].name = all[k].name
        <5>1. k \in DOMAIN entities' /\ k # j
          BY Zenon
        <5>2. k \in 1..Len(all)
          BY <1>1, <5>1, Zenon
        <5> QED
          BY <1>1, <5>1, <5>2, Zenon
      <4> QED
        <5>1. all[k].name # all[j].name
          BY <2>1, <3>1, <4>1, Zenon
        <5> QED
          BY <3>1, <4>1, <5>1, Zenon
    <3> QED
      BY <1>3, <3>1, <3>2, Zenon
  <2> QED
    BY <2>2 DEF OneEntityPerId, Known
<1>5. Types'
  <2>1. \A n \in DOMAIN byName' : byName'[n] \in 1..Len(all)
    BY <1>2
  <2> QED
    BY <1>1, <2>1 DEF IInv, Types, Known
<1> QED
  BY <1>4, <1>5 DEF IInv

LEMMA AsSpriteTyped ==
  ASSUME NEW e \in EntityRecord, NEW id \in Sprites, NEW p \in Int
  PROVE  AsSprite(e, id, p) \in EntityRecord /\ AsSprite(e, id, p).name = e.name
<1>1. (IF e.aliases = <<>> THEN <<id>> ELSE e.aliases) \in AliasLists
  BY DEF EntityRecord, AliasLists
<1> QED
  BY <1>1 DEF EntityRecord, AsSprite

LEMMA AsCharaTyped ==
  ASSUME NEW e \in EntityRecord, NEW cast \in Casts
  PROVE  AsChara(e, cast) \in EntityRecord /\ AsChara(e, cast).name = e.name
<1>1. (IF cast.ui THEN 0 ELSE e.alpha) \in Int /\ cast.names \in AliasLists
  BY DEF EntityRecord, AliasLists
<1> QED
  BY <1>1 DEF EntityRecord, AsChara

LEMMA CreateSpriteKeeps ==
  ASSUME IInv, NEW id \in Sprites, NEW p \in Places, CreateSprite(id, p)
  PROVE  IInv'
<1> DEFINE all == Ensure(id).all
           i == Ensure(id).index
           table == Ensure(id).table
           names == {}
<1>1. id \in Ids /\ p \in Int
  BY Numbers DEF Ids
<1>2. /\ all \in Seq(EntityRecord) /\ i \in 1..Len(all) /\ id \in DOMAIN table /\ table[id] = i
      /\ \A j \in 1..Len(all) : all[j].name \in DOMAIN table /\ table[all[j].name] = j
      /\ \A n \in DOMAIN table : table[n] \in 1..Len(all)
  BY <1>1, EnsureFinds
<1>3. entities' = [all EXCEPT ![i] = AsSprite(all[i], id, p)] /\ byName' = table
      /\ clock' = clock /\ moves' = moves
  BY DEF CreateSprite, Native, clockVars
<1> HIDE DEF all, i, table
<1>4. AsSprite(all[i], id, p) \in EntityRecord /\ AsSprite(all[i], id, p).name = all[i].name
  BY <1>1, <1>2, AsSpriteTyped, ElementOfSeq
<1>5. /\ DOMAIN byName' = DOMAIN table \cup names
      /\ \A n \in DOMAIN byName' : byName'[n] = IF n \in names THEN i ELSE table[n]
      /\ \A n \in names : n \in Ids => n = id
  BY <1>2, <1>3
<1> HIDE DEF names
<1> QED
  BY <1>1, <1>2, <1>3, <1>4, <1>5, CreationKeeps

LEMMA CreateCharaKeeps ==
  ASSUME IInv, NEW cast \in Casts, CreateChara(cast)
  PROVE  IInv'
<1> DEFINE id == CharaId(cast.names)
           all == Ensure(id).all
           i == Ensure(id).index
           table == Ensure(id).table
<1>1. id \in Ids /\ \A n \in NamesOf(cast) : n \in Ids => n = id
  BY NamesApart DEF Ids
<1>2. /\ all \in Seq(EntityRecord) /\ i \in 1..Len(all) /\ id \in DOMAIN table /\ table[id] = i
      /\ \A j \in 1..Len(all) : all[j].name \in DOMAIN table /\ table[all[j].name] = j
      /\ \A n \in DOMAIN table : table[n] \in 1..Len(all)
  BY <1>1, EnsureFinds
<1>3. entities' = [all EXCEPT ![i] = AsChara(all[i], cast)]
      /\ byName' = [n \in DOMAIN table \cup NamesOf(cast) |-> IF n \in NamesOf(cast) THEN i ELSE table[n]]
      /\ clock' = clock /\ moves' = moves
  BY DEF CreateChara, Native, clockVars
<1> HIDE DEF all, i, table, id
<1>4. AsChara(all[i], cast) \in EntityRecord /\ AsChara(all[i], cast).name = all[i].name
  BY <1>2, AsCharaTyped, ElementOfSeq
<1>5. /\ DOMAIN byName' = DOMAIN table \cup NamesOf(cast)
      /\ \A n \in DOMAIN byName' : byName'[n] = IF n \in NamesOf(cast) THEN i ELSE table[n]
  BY <1>3
<1> QED
  BY <1>1, <1>2, <1>3, <1>4, <1>5, CreationKeeps

-----------------------------------------------------------------------------
LEMMA Stopped ==
  ASSUME NEW f \in OpacityFade, NEW a \in Int
  PROVE  [f EXCEPT !.duration = 0, !.to = a] \in OpacityFade
<1>1. [f EXCEPT !.duration = 0] \in OpacityFade
  BY DEF OpacityFade
<1> DEFINE g == [f EXCEPT !.duration = 0]
<1>2. [g EXCEPT !.to = a] \in OpacityFade
  <2> HIDE DEF g
  <2> QED
    BY <1>1 DEF OpacityFade, g
<1> QED
  BY <1>2

LEMMA OnObjectKeeps ==
  ASSUME IInv, OnObjects
  PROVE  IInv'
<1>0. PICK n \in Known :
        \/ SetAnimation(n)
        \/ \E a \in Alphas, t \in Times : SetColorA(n, a, t)
        \/ \E fade, delay \in Times : DeleteObject(n, fade, delay)
        \/ \E p \in Places, d \in Durations : MoveTo(n, p, d)
        \/ \E p \in Places : SetPosV(n, p)
        \/ MoveWaitParks(n)
        \/ MoveWaitReturns(n)
  BY DEF OnObjects
<1> DEFINE i == byName[n]
           e0 == entities[i]
<1>1. i \in 1..Len(entities) /\ e0 \in EntityRecord /\ clock \in Nat
  BY EntityAt DEF IInv, Types
<1>2. \A k \in DOMAIN moves : moves[k] \in MoveRecord /\ moves[k].f0 < moves[k].f1
  BY DEF IInv, Types
<1>3. CASE SetAnimation(n)
  <2> DEFINE e == [e0 EXCEPT !.started = TRUE]
  <2>1. e \in EntityRecord /\ e.name = e0.name
    BY <1>1 DEF EntityRecord
  <2>2. entities' = [entities EXCEPT ![i] = e] /\ byName' = byName /\ moves' = moves /\ clock' = clock
    BY <1>3 DEF SetAnimation, Native, clockVars
  <2> HIDE DEF e, i
  <2> QED
    BY <1>1, <1>2, <2>1, <2>2, ChangeKeeps
<1>4. ASSUME NEW a \in Alphas, NEW t \in Times, SetColorA(n, a, t) PROVE IInv'
  <2> DEFINE e == Colored(e0, a, AtLeastZero(t))
  <2>1. a \in Int /\ AtLeastZero(t) \in Int
    BY Numbers DEF AtLeastZero
  <2>2. e0.alpha \in Int /\ e0.fade \in OpacityFade
    BY <1>1 DEF EntityRecord
  <2>3. [start |-> clock, duration |-> AtLeastZero(t), from |-> e0.alpha, to |-> a] \in OpacityFade
        /\ [e0.fade EXCEPT !.duration = 0, !.to = a] \in OpacityFade
    <3> DEFINE f == e0.fade
    <3>1. f \in OpacityFade
      BY <2>2
    <3> HIDE DEF f
    <3>2. [f EXCEPT !.duration = 0, !.to = a] \in OpacityFade
      BY <2>1, <3>1, Stopped
    <3>3. [start |-> clock, duration |-> AtLeastZero(t), from |-> e0.alpha, to |-> a] \in OpacityFade
      BY <1>1, <2>1, <2>2 DEF OpacityFade
    <3> QED
      BY <3>2, <3>3 DEF f
  <2>4. e \in EntityRecord /\ e.name = e0.name
    <3> HIDE DEF e0
    <3> QED
      BY <1>1, <2>1, <2>3 DEF EntityRecord, Colored, Fading
  <2>5. entities' = [entities EXCEPT ![i] = e] /\ byName' = byName /\ moves' = moves /\ clock' = clock
    BY <1>4 DEF SetColorA, Native, clockVars
  <2> HIDE DEF e, i
  <2> QED
    BY <1>1, <1>2, <2>4, <2>5, ChangeKeeps
<1>5. ASSUME NEW fade \in Times, NEW delay \in Times, DeleteObject(n, fade, delay) PROVE IInv'
  <2> DEFINE e == Deleted(e0, AtLeastZero(fade), AtLeastZero(delay))
  <2>1. AtLeastZero(fade) \in Nat /\ AtLeastZero(delay) \in Nat
    BY Numbers DEF AtLeastZero
  <2>2. e0.alpha \in Int
    BY <1>1 DEF EntityRecord
  <2>3. \A d \in Nat : Fading(e0, clock + AtLeastZero(delay), d, 0) \in EntityRecord
                       /\ Fading(e0, clock + AtLeastZero(delay), d, 0).name = e0.name
    <3> SUFFICES ASSUME NEW d \in Nat
                 PROVE  Fading(e0, clock + AtLeastZero(delay), d, 0) \in EntityRecord
                        /\ Fading(e0, clock + AtLeastZero(delay), d, 0).name = e0.name
      OBVIOUS
    <3>1. [start |-> clock + AtLeastZero(delay), duration |-> d, from |-> e0.alpha, to |-> 0] \in OpacityFade
      BY <1>1, <2>1, <2>2 DEF OpacityFade
    <3> HIDE DEF e0
    <3> QED
      BY <1>1, <3>1 DEF EntityRecord, Fading
  <2>4. [e0 EXCEPT !.visible = FALSE] \in EntityRecord /\ [e0 EXCEPT !.visible = FALSE].name = e0.name
    BY <1>1 DEF EntityRecord
  <2>5. e \in EntityRecord /\ e.name = e0.name
    <3> HIDE DEF e0
    <3>1. AtLeastZero(fade) > 0 \/ (AtLeastZero(fade) = 0 /\ AtLeastZero(delay) = 0)
          \/ (AtLeastZero(fade) = 0 /\ AtLeastZero(delay) > 0)
      BY <2>1
    <3> QED
      BY <2>1, <2>3, <2>4, <3>1 DEF Deleted
  <2>6. entities' = [entities EXCEPT ![i] = e] /\ byName' = byName /\ moves' = moves /\ clock' = clock
    BY <1>5 DEF DeleteObject, Native, clockVars
  <2> HIDE DEF e, i
  <2> QED
    BY <1>1, <1>2, <2>5, <2>6, ChangeKeeps
<1>6. ASSUME NEW p \in Places, NEW d \in Durations, MoveTo(n, p, d) PROVE IInv'
  <2> DEFINE m == [from |-> e0.pos, to |-> p, f0 |-> clock, f1 |-> clock + d]
  <2>0. e0.pos \in Int /\ p \in Int /\ clock + d \in Int /\ clock < clock + d
    BY <1>1, Numbers DEF EntityRecord
  <2>1. m \in MoveRecord /\ m.f0 < m.f1
    BY <1>1, <2>0 DEF MoveRecord
  <2>2. moves' = Put(moves, Id(n), m) /\ entities' = entities /\ byName' = byName /\ clock' = clock
    BY <1>6 DEF MoveTo, Native, clockVars
  <2> HIDE DEF m
  <2>3. \A k \in DOMAIN moves' : moves'[k] = m \/ (k \in DOMAIN moves /\ moves'[k] = moves[k])
    BY <2>2 DEF Put
  <2> QED
    BY <1>1, <1>2, <2>1, <2>2, <2>3, NothingChanges
<1>7. ASSUME NEW p \in Places, SetPosV(n, p) PROVE IInv'
  <2> DEFINE e == [e0 EXCEPT !.pos = p]
  <2>0. p \in Int
    BY Numbers
  <2>1. e \in EntityRecord /\ e.name = e0.name
    <3> HIDE DEF e0
    <3> QED
      BY <1>1, <2>0 DEF EntityRecord
  <2>2. entities' = [entities EXCEPT ![i] = e] /\ byName' = byName /\ clock' = clock
        /\ moves' = [k \in DOMAIN moves \ {Id(n)} |-> moves[k]]
    BY <1>7 DEF SetPosV, Native, clockVars
  <2> HIDE DEF e, i
  <2> QED
    BY <1>1, <1>2, <2>1, <2>2, ChangeKeeps
<1>8. CASE MoveWaitParks(n) \/ MoveWaitReturns(n)
  BY <1>1, <1>2, <1>8, NothingChanges DEF MoveWaitParks, MoveWaitReturns, Native, Sleep, clockVars, sceneVars
<1> QED
  BY <1>0, <1>3, <1>4, <1>5, <1>6, <1>7, <1>8

LEMMA AlongInt ==
  ASSUME NEW m \in MoveRecord, m.f0 < m.f1, NEW f \in Int
  PROVE  Along(m, f) \in Int
<1>1. m.from \in Int /\ m.to \in Int /\ m.f0 \in Int /\ m.f1 - m.f0 \in Nat \ {0}
  BY DEF MoveRecord
<1>2. (m.to - m.from) * (f - m.f0) \in Int
  BY <1>1
<1>3. \A a \in Int, n \in Nat \ {0} : a \div n \in Int
  OBVIOUS
<1>4. ((m.to - m.from) * (f - m.f0)) \div (m.f1 - m.f0) \in Int
  BY <1>1, <1>2, <1>3
<1> QED
  BY <1>1, <1>4 DEF Along, MoveRecord

LEMMA FrameKeeps ==
  ASSUME IInv, Frame
  PROVE  IInv'
<1>1. clock' \in Nat /\ byName' = byName
  BY DEF Frame, Tick, IInv, Types
<1>2. entities' = [i \in DOMAIN entities |->
                     IF Drivers(i) = {} THEN entities[i]
                     ELSE [entities[i] EXCEPT !.pos = Along(moves[CHOOSE k \in Drivers(i) : TRUE], clock')]]
      /\ moves' = [k \in {m \in DOMAIN moves : clock' < moves[m].f1} |-> moves[k]]
  BY DEF Frame
<1>3. DOMAIN entities = 1..Len(entities) /\ Len(entities) \in Nat
  BY LenProperties DEF IInv, Types
<1>4. ASSUME NEW i \in 1..Len(entities)
      PROVE  entities'[i] \in EntityRecord /\ entities'[i].name = entities[i].name
  <2>1. entities[i] \in EntityRecord
    BY EntityAt DEF IInv
  <2>2. CASE Drivers(i) = {}
    BY <1>2, <1>3, <2>1, <2>2
  <2>3. CASE Drivers(i) # {}
    <3> DEFINE x == Along(moves[CHOOSE k \in Drivers(i) : TRUE], clock')
    <3>1. (CHOOSE k \in Drivers(i) : TRUE) \in DOMAIN moves
      BY <2>3 DEF Drivers
    <3>2. x \in Int
      BY <1>1, <3>1, AlongInt DEF IInv, Types
    <3>3. entities'[i] = [entities[i] EXCEPT !.pos = x]
      BY <1>2, <1>3, <2>3
    <3> HIDE DEF x
    <3> QED
      BY <2>1, <3>2, <3>3 DEF EntityRecord
  <2> QED
    BY <2>2, <2>3
<1>5. DOMAIN entities' = 1..Len(entities)
  BY <1>2, <1>3
<1>6. entities' \in Seq(EntityRecord) /\ Len(entities') = Len(entities)
  <2>1. entities' \in [1..Len(entities) -> EntityRecord]
    BY <1>2, <1>3, <1>4
  <2> QED
    BY <1>3, <2>1, SeqDef, LenProperties
<1>7. Types'
  BY <1>1, <1>2, <1>6 DEF IInv, Types, Known
<1>8. OneEntityPerId'
  BY <1>1, <1>3, <1>4, <1>5 DEF IInv, OneEntityPerId, Known
<1> QED
  BY <1>7, <1>8 DEF IInv

LEMMA NextInv == IInv /\ [Next]_vars => IInv'
<1> SUFFICES ASSUME IInv, [Next]_vars PROVE IInv'
  OBVIOUS
<1>0. clock \in Nat /\ \A k \in DOMAIN moves : moves[k] \in MoveRecord /\ moves[k].f0 < moves[k].f1
  BY DEF IInv, Types
<1>1. CASE Creations
  BY <1>1, CreateSpriteKeeps, CreateCharaKeeps DEF Creations
<1>2. CASE OnObjects
  BY <1>2, OnObjectKeeps
<1>3. CASE MoveWaitAll \/ OtherWait \/ End \/ UNCHANGED vars
  BY <1>0, <1>3, NothingChanges
     DEF MoveWaitAll, OtherWait, End, Sleep, Return, Halt, vars, clockVars, sceneVars
<1>4. CASE Frame
  BY <1>4, FrameKeeps
<1>5. CASE Start
  <2>1. entities' = <<>> /\ DOMAIN byName' = {} /\ DOMAIN moves' = {} /\ clock' = 0
    BY <1>5 DEF Start, Begin
  <2>2. <<>> \in Seq(EntityRecord) /\ DOMAIN <<>> = {}
    OBVIOUS
  <2> QED
    BY <2>1, <2>2 DEF IInv, Types, OneEntityPerId, Known
<1> QED
  BY <1>1, <1>2, <1>3, <1>4, <1>5 DEF Next

-----------------------------------------------------------------------------
\* Whatever is created over what, an id belongs to one entity and the table leads it there
\* (ensure(), create_chara(), registry.cpp), so that the renderer never mixes two objects up.
THEOREM IdsAreUnique == Spec => []OneEntityPerId
<1>1. Init => IInv
  BY InitInv
<1>2. IInv /\ [Next]_vars => IInv'
  BY NextInv
<1>3. IInv => OneEntityPerId
  BY DEF IInv
<1> QED
  BY <1>1, <1>2, <1>3, PTL DEF Spec

-----------------------------------------------------------------------------
(* Where objects stand and how opaque they are, against what the script asked for: the second *)
(* layer of the invariant, on top of IInv.                                                     *)

\* An entity with a movement is on its way to its goal `g`, one without stands on it.
Placed(e, g, ms) ==
  g # NoClaim => IF e.name \in DOMAIN ms THEN ms[e.name].to = g ELSE e.pos = g

\* The alpha `a` last asked for is what the fade leads to, or what is set when there is none;
\* an entity that is gone was asked to go.
Shown(e, a) ==
  /\ e.fade.duration >= 0
  /\ a # NoClaim => IF ~e.visible THEN a = 0
                    ELSE IF e.fade.duration = 0 THEN e.alpha = a ELSE e.fade.to = a

\* A movement is kept under the id of an entity.
MovesById == \A k \in DOMAIN moves : \E j \in 1..Len(entities) : entities[j].name = k

ClaimInv ==
  /\ MovesById
  /\ DOMAIN goal = 1..Len(entities) /\ DOMAIN asked = 1..Len(entities)
  /\ \A j \in 1..Len(entities) : Placed(entities[j], goal[j], moves) /\ Shown(entities[j], asked[j])

\* A native that touches one entity, which it may have created, and no movement but its own.
LEMMA ClaimsKept ==
  ASSUME ClaimInv, NEW i \in 1..Len(entities'), Len(entities) \in Nat, Len(entities') \in Nat,
         Len(entities) <= Len(entities'),
         i <= Len(entities) => entities'[i].name = entities[i].name,
         \A j \in 1..Len(entities') :
           j # i => /\ j <= Len(entities) /\ entities'[j] = entities[j]
                    /\ goal'[j] = goal[j] /\ asked'[j] = asked[j]
                    /\ entities'[j].name # entities'[i].name,
         DOMAIN goal' = 1..Len(entities'), DOMAIN asked' = 1..Len(entities'),
         \A k : k # entities'[i].name =>
                  /\ k \in DOMAIN moves' <=> k \in DOMAIN moves
                  /\ k \in DOMAIN moves => moves'[k] = moves[k],
         Placed(entities'[i], goal'[i], moves'), Shown(entities'[i], asked'[i])
  PROVE  ClaimInv'
<1>1. MovesById'
  <2> SUFFICES ASSUME NEW k \in DOMAIN moves'
               PROVE  \E j \in 1..Len(entities') : entities'[j].name = k
    BY DEF MovesById
  <2>1. CASE k # entities'[i].name
    <3>1. PICK j \in 1..Len(entities) : entities[j].name = k
      BY <2>1 DEF ClaimInv, MovesById
    <3>2. j \in 1..Len(entities')
      OBVIOUS
    <3>3. j # i
      BY <2>1, <3>1
    <3> QED
      BY <3>1, <3>2, <3>3
  <2> QED
    BY <2>1
<1>2. ASSUME NEW j \in 1..Len(entities'), j # i
      PROVE  Placed(entities'[j], goal'[j], moves') /\ Shown(entities'[j], asked'[j])
  <2>1. j \in 1..Len(entities)
    BY <1>2
  <2>2. Placed(entities[j], goal[j], moves) /\ Shown(entities[j], asked[j])
    BY <2>1 DEF ClaimInv
  <2> QED
    BY <1>2, <2>2 DEF Placed
<1> QED
  BY <1>1, <1>2 DEF ClaimInv

\* What Ensure leaves, apart from the table.
LEMMA EnsureAppends ==
  ASSUME IInv, NEW id
  PROVE  /\ id \in Known => /\ Ensure(id).all = entities /\ Ensure(id).index = byName[id]
                            /\ byName[id] \in 1..Len(entities)
         /\ id \notin Known => /\ Ensure(id).all = Append(entities, Fresh(id))
                               /\ Ensure(id).index = Len(entities) + 1
BY DEF Ensure, IInv, Types

\* An entity that is not known has no movement.
LEMMA UnknownAtRest ==
  ASSUME IInv, ClaimInv, NEW id, id \notin Known
  PROVE  id \notin DOMAIN moves
<1> SUFFICES ASSUME id \in DOMAIN moves PROVE FALSE
  OBVIOUS
<1>1. PICK j \in 1..Len(entities) : entities[j].name = id
  BY DEF ClaimInv, MovesById
<1>2. j \in DOMAIN entities
  BY LenProperties DEF IInv, Types
<1> QED
  BY <1>1, <1>2 DEF IInv, OneEntityPerId

\* The list an entity was created in, or found in, and changed.
LEMMA CreationClaims ==
  ASSUME IInv, IInv', ClaimInv, NEW id, NEW e,
         LET s == Ensure(id) IN entities' = [s.all EXCEPT ![s.index] = e] /\ e.name = s.all[s.index].name,
         LET i == Ensure(id).index
         IN  /\ Placed(e, goal'[i], moves) /\ Shown(e, asked'[i])
             /\ DOMAIN goal' = DOMAIN goal \cup {i} /\ DOMAIN asked' = DOMAIN asked \cup {i}
             /\ \A j \in 1..Len(entities) : j # i => goal'[j] = goal[j] /\ asked'[j] = asked[j],
         moves' = moves
  PROVE  ClaimInv'
<1> DEFINE i == Ensure(id).index
           all == Ensure(id).all
<1>0. entities \in Seq(EntityRecord) /\ Len(entities) \in Nat /\ DOMAIN entities = 1..Len(entities)
      /\ entities' \in Seq(EntityRecord) /\ DOMAIN entities' = 1..Len(entities')
  BY LenProperties DEF IInv, Types
<1>1. /\ Len(entities) <= Len(entities') /\ i \in 1..Len(entities') /\ Len(entities') \in Nat
      /\ entities'[i] = e
      /\ 1..Len(entities') = 1..Len(entities) \cup {i}
      /\ i <= Len(entities) => e.name = entities[i].name
      /\ \A j \in 1..Len(entities') : j # i => j \in 1..Len(entities) /\ entities'[j] = entities[j]
  <2>1. CASE id \in Known
    <3>1. all = entities /\ i \in 1..Len(entities)
      BY <2>1, EnsureAppends
    <3>2. entities' = [entities EXCEPT ![i] = e] /\ e.name = entities[i].name
      BY <3>1
    <3> HIDE DEF i, all
    <3>3. /\ DOMAIN entities' = DOMAIN entities /\ entities'[i] = e
          /\ \A j \in 1..Len(entities) : j # i => entities'[j] = entities[j]
      BY <1>0, <3>1, <3>2
    <3>4. Len(entities') = Len(entities)
      BY <1>0, <3>3, LenProperties
    <3> QED
      BY <1>0, <3>1, <3>2, <3>3, <3>4
  <2>2. CASE id \notin Known
    <3>1. all = Append(entities, Fresh(id)) /\ i = Len(entities) + 1
      BY <2>2, EnsureAppends
    <3>2. entities' = [all EXCEPT ![i] = e]
      OBVIOUS
    <3> HIDE DEF i, all
    <3>3. /\ DOMAIN all = 1..(Len(entities) + 1)
          /\ \A j \in 1..Len(entities) : all[j] = entities[j]
      BY <1>0, <3>1
    <3>4. i \in 1..(Len(entities) + 1) /\ i \notin 1..Len(entities)
          /\ 1..Len(entities) \subseteq 1..(Len(entities) + 1)
      BY <1>0, <3>1
    <3>5. /\ DOMAIN entities' = 1..(Len(entities) + 1) /\ entities'[i] = e
          /\ \A j \in 1..Len(entities) : entities'[j] = entities[j]
      BY <3>2, <3>3, <3>4
    <3>6. Len(entities') = Len(entities) + 1
      BY <1>0, <3>5
    <3> QED
      BY <1>0, <3>1, <3>5, <3>6
  <2> QED
    BY <2>1, <2>2
<1>2. /\ Placed(e, goal'[i], moves) /\ Shown(e, asked'[i])
      /\ DOMAIN goal' = DOMAIN goal \cup {i} /\ DOMAIN asked' = DOMAIN asked \cup {i}
      /\ \A j \in 1..Len(entities) : j # i => goal'[j] = goal[j] /\ asked'[j] = asked[j]
  OBVIOUS
<1> HIDE DEF i, all
<1>3. DOMAIN goal' = 1..Len(entities') /\ DOMAIN asked' = 1..Len(entities')
  <2>1. DOMAIN goal = 1..Len(entities) /\ DOMAIN asked = 1..Len(entities)
    BY DEF ClaimInv
  <2> QED
    BY <1>1, <1>2, <2>1, Zenon
<1>4. \A j \in 1..Len(entities') : j # i => entities'[j].name # entities'[i].name
  BY <1>0, <1>1 DEF IInv, OneEntityPerId
<1> QED
  BY <1>0, <1>1, <1>2, <1>3, <1>4, ClaimsKept

LEMMA CreateSpriteClaims ==
  ASSUME IInv, IInv', ClaimInv, NEW id \in Sprites, NEW p \in Places, CreateSprite(id, p)
  PROVE  ClaimInv'
<1> DEFINE i == Ensure(id).index
           old == Ensure(id).all[i]
           e == AsSprite(old, id, p)
<1>1. /\ entities' = [Ensure(id).all EXCEPT ![i] = e] /\ moves' = moves
      /\ goal' = Put(goal, i, IF old.name \in DOMAIN moves THEN NoClaim ELSE p)
      /\ asked' = IF i \in DOMAIN asked THEN asked ELSE Put(asked, i, Opaque)
  BY DEF CreateSprite
<1>2. old \in EntityRecord
  <2>1. id \in Ids
    BY DEF Ids
  <2> QED
    BY <2>1, EnsureFinds, ElementOfSeq
<1>3. /\ e.name = old.name /\ e.pos = p /\ e.fade = old.fade /\ e.alpha = old.alpha
      /\ e.visible = old.visible
  BY <1>2 DEF AsSprite, EntityRecord
<1>4. Placed(e, goal'[i], moves)
  BY <1>1, <1>3 DEF Placed, Put
<1>5. Shown(e, asked'[i])
  <2>1. CASE id \in Known
    <3>1. i \in 1..Len(entities) /\ old = entities[i]
      BY <2>1, EnsureAppends
    <3> HIDE DEF i, old, e
    <3>2. asked'[i] = asked[i] /\ Shown(old, asked[i])
      BY <1>1, <3>1 DEF ClaimInv
    <3> QED
      BY <1>3, <3>2 DEF Shown
  <2>2. CASE id \notin Known
    <3>1. i = Len(entities) + 1 /\ old = Fresh(id)
      BY <2>2, EnsureAppends, AppendProperties DEF IInv, Types
    <3>2. i \notin DOMAIN asked
      BY <3>1, LenProperties DEF ClaimInv, IInv, Types
    <3>3. asked'[i] = Opaque
      BY <1>1, <3>2 DEF Put
    <3> HIDE DEF i, old, e
    <3> QED
      BY <1>3, <3>1, <3>3 DEF Shown, Fresh, Steady
  <2> QED
    BY <2>1, <2>2
<1>6. DOMAIN goal' = DOMAIN goal \cup {i} /\ DOMAIN asked' = DOMAIN asked \cup {i}
      /\ \A j \in 1..Len(entities) : j # i => goal'[j] = goal[j] /\ asked'[j] = asked[j]
  BY <1>1 DEF ClaimInv, Put
<1>7. LET s == Ensure(id) IN entities' = [s.all EXCEPT ![s.index] = e] /\ e.name = s.all[s.index].name
  BY <1>1, <1>3
<1> HIDE DEF e
<1> QED
  BY <1>1, <1>4, <1>5, <1>6, <1>7, CreationClaims

LEMMA CreateCharaClaims ==
  ASSUME IInv, IInv', ClaimInv, NEW cast \in Casts, CreateChara(cast)
  PROVE  ClaimInv'
<1> DEFINE id == CharaId(cast.names)
           i == Ensure(id).index
           old == Ensure(id).all[i]
           e == AsChara(old, cast)
<1>1. /\ entities' = [Ensure(id).all EXCEPT ![i] = e] /\ moves' = moves
      /\ goal' = IF i \in DOMAIN goal THEN goal ELSE Put(goal, i, 0)
      /\ asked' = IF cast.ui THEN Put(asked, i, IF old.fade.duration = 0 THEN 0 ELSE NoClaim)
                  ELSE IF i \in DOMAIN asked THEN asked ELSE Put(asked, i, Opaque)
  BY DEF CreateChara
<1>2. old \in EntityRecord
  <2>1. id \in Ids
    BY DEF Ids
  <2> QED
    BY <2>1, EnsureFinds, ElementOfSeq
<1>3. /\ e.name = old.name /\ e.pos = old.pos /\ e.fade = old.fade /\ e.visible = old.visible
      /\ e.alpha = IF cast.ui THEN 0 ELSE old.alpha
  BY <1>2 DEF AsChara, EntityRecord
<1>4. ASSUME id \in Known PROVE Placed(e, goal'[i], moves) /\ Shown(e, asked'[i])
  <2>1. i \in 1..Len(entities) /\ old = entities[i]
    BY <1>4, EnsureAppends
  <2>2. Placed(e, goal'[i], moves)
    <3> HIDE DEF i, old, e
    <3>1. goal'[i] = goal[i] /\ Placed(old, goal[i], moves)
      BY <1>1, <2>1 DEF ClaimInv
    <3> QED
      BY <1>3, <3>1 DEF Placed
  <2>3. Shown(e, asked'[i])
    <3> HIDE DEF i, old, e
    <3>1. Shown(old, asked[i]) /\ i \in DOMAIN asked
      BY <2>1 DEF ClaimInv
    <3>2. CASE cast.ui
      <4>1. asked'[i] = IF old.fade.duration = 0 THEN 0 ELSE NoClaim
        BY <1>1, <3>2 DEF Put
      <4> QED
        BY <1>3, <3>1, <3>2, <4>1 DEF Shown
    <3>3. CASE ~cast.ui
      BY <1>1, <1>3, <3>1, <3>3 DEF Shown
    <3> QED
      BY <3>2, <3>3
  <2> QED
    BY <2>2, <2>3
<1>5. ASSUME id \notin Known PROVE Placed(e, goal'[i], moves) /\ Shown(e, asked'[i])
  <2>1. i = Len(entities) + 1 /\ old = Fresh(id)
    BY <1>5, EnsureAppends, AppendProperties DEF IInv, Types
  <2>2. id \notin DOMAIN moves
    BY <1>5, UnknownAtRest
  <2>3. i \notin DOMAIN asked /\ i \notin DOMAIN goal
    BY <2>1, LenProperties DEF ClaimInv, IInv, Types
  <2>4. goal'[i] = 0 /\ asked'[i] = IF cast.ui THEN IF old.fade.duration = 0 THEN 0 ELSE NoClaim ELSE Opaque
    BY <1>1, <2>3 DEF Put
  <2> HIDE DEF i, old, e
  <2> QED
    BY <1>3, <2>1, <2>2, <2>4 DEF Placed, Shown, Fresh, Steady
<1>6. DOMAIN goal' = DOMAIN goal \cup {i} /\ DOMAIN asked' = DOMAIN asked \cup {i}
      /\ \A j \in 1..Len(entities) : j # i => goal'[j] = goal[j] /\ asked'[j] = asked[j]
  BY <1>1 DEF ClaimInv, Put
<1>7. LET s == Ensure(id) IN entities' = [s.all EXCEPT ![s.index] = e] /\ e.name = s.all[s.index].name
  BY <1>1, <1>3
<1>8. Placed(e, goal'[i], moves) /\ Shown(e, asked'[i])
  BY <1>4, <1>5, Zenon
<1> HIDE DEF e
<1> QED
  BY <1>1, <1>6, <1>7, <1>8, CreationClaims

\* A native on the entity at i of the list, which stays the entity it is.
LEMMA NativeClaims ==
  ASSUME IInv, IInv', ClaimInv, NEW i \in 1..Len(entities), NEW e, NEW g, NEW a,
         entities' = [entities EXCEPT ![i] = e], e.name = entities[i].name,
         goal' = [goal EXCEPT ![i] = g] \/ (goal' = goal /\ g = goal[i]),
         asked' = [asked EXCEPT ![i] = a] \/ (asked' = asked /\ a = asked[i]),
         \A k : k # e.name =>
                  /\ k \in DOMAIN moves' <=> k \in DOMAIN moves
                  /\ k \in DOMAIN moves => moves'[k] = moves[k],
         Placed(e, g, moves'), Shown(e, a)
  PROVE  ClaimInv'
<1>1. /\ DOMAIN entities = 1..Len(entities) /\ DOMAIN entities' = 1..Len(entities')
      /\ Len(entities) \in Nat /\ Len(entities') \in Nat
  BY LenProperties DEF IInv, Types
<1>2. /\ DOMAIN entities' = DOMAIN entities /\ entities'[i] = e
      /\ \A j \in 1..Len(entities) : j # i => entities'[j] = entities[j]
  BY <1>1
<1>3. Len(entities') = Len(entities)
  BY <1>1, <1>2, LenProperties DEF IInv, Types
<1>4. /\ DOMAIN goal' = 1..Len(entities) /\ goal'[i] = g
      /\ \A j \in 1..Len(entities) : j # i => goal'[j] = goal[j]
  BY DEF ClaimInv
<1>5. /\ DOMAIN asked' = 1..Len(entities) /\ asked'[i] = a
      /\ \A j \in 1..Len(entities) : j # i => asked'[j] = asked[j]
  BY DEF ClaimInv
<1>6. \A j \in 1..Len(entities') : j # i => entities'[j].name # entities'[i].name
  BY <1>1, <1>3 DEF IInv, OneEntityPerId
<1> QED
  BY <1>1, <1>2, <1>3, <1>4, <1>5, <1>6, ClaimsKept

LEMMA ColoredShows ==
  ASSUME NEW e \in EntityRecord, NEW value \in Int, NEW time \in Nat
  PROVE  LET c == Colored(e, value, time)
         IN  /\ c.name = e.name /\ c.pos = e.pos
             /\ e.visible \in BOOLEAN /\ Shown(c, IF e.visible THEN value ELSE 0)
<1> DEFINE f == e.fade
           c == Colored(e, value, time)
<1>1. e.visible \in BOOLEAN /\ f \in OpacityFade
  BY DEF EntityRecord
<1>2. CASE time > 0
  <2>1. c = [[e EXCEPT !.fade = [start |-> clock, duration |-> time, from |-> e.alpha, to |-> value]]
               EXCEPT !.alpha = value]
    BY <1>2 DEF Colored, Fading
  <2>2. /\ c.name = e.name /\ c.pos = e.pos /\ c.visible = e.visible
        /\ c.fade.duration = time /\ c.fade.to = value
    BY <2>1 DEF EntityRecord
  <2> HIDE DEF c
  <2>3. Shown(c, IF e.visible THEN value ELSE 0)
    BY <1>1, <1>2, <2>2 DEF Shown
  <2> QED
    BY <1>1, <2>2, <2>3 DEF c
<1>3. CASE ~(time > 0)
  <2>0. c = [e EXCEPT !.alpha = value, !.fade.duration = 0, !.fade.to = value]
    BY <1>3 DEF Colored
  <2>1. /\ c.name = e.name /\ c.pos = e.pos /\ c.visible = e.visible /\ c.alpha = value
        /\ c.fade = [f EXCEPT !.duration = 0, !.to = value]
    BY <2>0 DEF EntityRecord
  <2> HIDE DEF c, f
  <2>2. c.fade.duration = 0 /\ c.fade.to = value
    BY <1>1, <2>1 DEF OpacityFade
  <2>3. Shown(c, IF e.visible THEN value ELSE 0)
    BY <1>1, <2>1, <2>2 DEF Shown
  <2> QED
    BY <1>1, <2>1, <2>3 DEF c
<1> QED
  BY <1>2, <1>3

LEMMA DeletedShows ==
  ASSUME NEW e \in EntityRecord, NEW fade \in Nat, NEW delay \in Nat, e.fade.duration >= 0,
         clock \in Nat
  PROVE  LET d == Deleted(e, fade, delay)
         IN  d.name = e.name /\ d.pos = e.pos /\ Shown(d, 0)
<1> DEFINE d == Deleted(e, fade, delay)
<1>1. \A start \in Int, duration \in Nat \ {0} :
        LET x == Fading(e, start, duration, 0)
        IN  x.name = e.name /\ x.pos = e.pos /\ x.visible = e.visible /\ Shown(x, 0)
  BY DEF Fading, Shown, EntityRecord
<1>2. [e EXCEPT !.visible = FALSE].name = e.name /\ [e EXCEPT !.visible = FALSE].pos = e.pos
      /\ Shown([e EXCEPT !.visible = FALSE], 0)
  BY DEF Shown, EntityRecord
<1>3. \/ d = Fading(e, clock + delay, fade, 0) /\ fade \in Nat \ {0}
      \/ d = Fading(e, clock + delay, 1, 0)
      \/ d = [e EXCEPT !.visible = FALSE]
  BY DEF Deleted
<1> HIDE DEF d
<1>4. d.name = e.name /\ d.pos = e.pos /\ Shown(d, 0)
  <2>1. ASSUME NEW duration \in Nat \ {0}, d = Fading(e, clock + delay, duration, 0)
        PROVE  d.name = e.name /\ d.pos = e.pos /\ Shown(d, 0)
    <3>1. clock + delay \in Int
      OBVIOUS
    <3> QED
      BY <1>1, <2>1, <3>1, Zenon
  <2>2. 1 \in Nat \ {0}
    OBVIOUS
  <2> QED
    BY <1>2, <1>3, <2>1, <2>2, Zenon
<1> QED
  BY <1>4 DEF d

LEMMA OnObjectClaims ==
  ASSUME IInv, IInv', ClaimInv, OnObjects
  PROVE  ClaimInv'
<1>0. PICK n \in Known :
        \/ SetAnimation(n)
        \/ \E a \in Alphas, t \in Times : SetColorA(n, a, t)
        \/ \E fade, delay \in Times : DeleteObject(n, fade, delay)
        \/ \E p \in Places, d \in Durations : MoveTo(n, p, d)
        \/ \E p \in Places : SetPosV(n, p)
        \/ MoveWaitParks(n)
        \/ MoveWaitReturns(n)
  BY DEF OnObjects
<1> DEFINE i == byName[n]
           e0 == entities[i]
<1>1. i \in 1..Len(entities) /\ e0 \in EntityRecord /\ clock \in Nat
  BY EntityAt DEF IInv, Types
<1>2. Placed(e0, goal[i], moves) /\ Shown(e0, asked[i])
  BY <1>1 DEF ClaimInv
<1>3. CASE SetAnimation(n)
  <2> DEFINE e == [e0 EXCEPT !.started = TRUE]
  <2>1. /\ e.name = e0.name /\ e.pos = e0.pos /\ e.visible = e0.visible /\ e.alpha = e0.alpha
        /\ e.fade = e0.fade
    BY <1>1 DEF EntityRecord
  <2>2. entities' = [entities EXCEPT ![i] = e] /\ UNCHANGED <<moves, goal, asked>>
    BY <1>3 DEF SetAnimation
  <2> HIDE DEF e, i
  <2>3. Placed(e, goal[i], moves') /\ Shown(e, asked[i])
    BY <1>2, <2>1, <2>2 DEF Placed, Shown
  <2> QED
    BY <1>1, <1>2, <2>1, <2>2, <2>3, NativeClaims
<1>4. ASSUME NEW a \in Alphas, NEW t \in Times, SetColorA(n, a, t) PROVE ClaimInv'
  <2> DEFINE e == Colored(e0, a, AtLeastZero(t))
             v == IF e0.visible THEN a ELSE 0
  <2>1. a \in Int /\ AtLeastZero(t) \in Nat
    BY Numbers DEF AtLeastZero
  <2>2. e.name = e0.name /\ e.pos = e0.pos /\ Shown(e, v)
    BY <1>1, <2>1, ColoredShows
  <2>3. /\ entities' = [entities EXCEPT ![i] = e] /\ asked' = [asked EXCEPT ![i] = v]
        /\ UNCHANGED <<moves, goal>>
    BY <1>4 DEF SetColorA
  <2> HIDE DEF e, i, v
  <2>4. Placed(e, goal[i], moves')
    BY <1>2, <2>2, <2>3 DEF Placed
  <2> QED
    BY <1>1, <1>2, <2>2, <2>3, <2>4, NativeClaims
<1>5. ASSUME NEW fade \in Times, NEW delay \in Times, DeleteObject(n, fade, delay) PROVE ClaimInv'
  <2> DEFINE e == Deleted(e0, AtLeastZero(fade), AtLeastZero(delay))
  <2>1. AtLeastZero(fade) \in Nat /\ AtLeastZero(delay) \in Nat
    BY Numbers DEF AtLeastZero
  <2>2. e.name = e0.name /\ e.pos = e0.pos /\ Shown(e, 0)
    <3>1. e0.fade.duration >= 0
      BY <1>2 DEF Shown
    <3> QED
      BY <1>1, <2>1, <3>1, DeletedShows
  <2>3. /\ entities' = [entities EXCEPT ![i] = e] /\ asked' = [asked EXCEPT ![i] = 0]
        /\ UNCHANGED <<moves, goal>>
    BY <1>5 DEF DeleteObject
  <2> HIDE DEF e, i
  <2>4. Placed(e, goal[i], moves')
    BY <1>2, <2>2, <2>3 DEF Placed
  <2> QED
    BY <1>1, <1>2, <2>2, <2>3, <2>4, NativeClaims
<1>6. ASSUME NEW p \in Places, NEW d \in Durations, MoveTo(n, p, d) PROVE ClaimInv'
  <2> DEFINE m == [from |-> e0.pos, to |-> p, f0 |-> clock, f1 |-> clock + d]
  <2>1. /\ moves' = Put(moves, e0.name, m) /\ goal' = [goal EXCEPT ![i] = p]
        /\ UNCHANGED <<entities, asked>>
    BY <1>6 DEF MoveTo, Id
  <2>2. m.to = p
    OBVIOUS
  <2>3. entities' = [entities EXCEPT ![i] = e0]
    BY <2>1, LenProperties DEF IInv, Types
  <2> HIDE DEF m, i
  <2>4. /\ \A k : k # e0.name => /\ k \in DOMAIN moves' <=> k \in DOMAIN moves
                                 /\ k \in DOMAIN moves => moves'[k] = moves[k]
        /\ e0.name \in DOMAIN moves' /\ moves'[e0.name] = m
    BY <2>1 DEF Put
  <2>5. Placed(e0, p, moves')
    BY <2>2, <2>4 DEF Placed
  <2> HIDE DEF e0
  <2> QED
    BY <1>1, <1>2, <2>1, <2>3, <2>4, <2>5, NativeClaims DEF e0
<1>7. ASSUME NEW p \in Places, SetPosV(n, p) PROVE ClaimInv'
  <2> DEFINE e == [e0 EXCEPT !.pos = p]
  <2>1. /\ e.name = e0.name /\ e.pos = p /\ e.visible = e0.visible /\ e.alpha = e0.alpha
        /\ e.fade = e0.fade
    BY <1>1 DEF EntityRecord
  <2>2. /\ entities' = [entities EXCEPT ![i] = e] /\ goal' = [goal EXCEPT ![i] = p]
        /\ UNCHANGED asked
        /\ moves' = [k \in DOMAIN moves \ {e0.name} |-> moves[k]]
    BY <1>7 DEF SetPosV, Id
  <2> HIDE DEF e, i
  <2>3. /\ \A k : k # e0.name => /\ k \in DOMAIN moves' <=> k \in DOMAIN moves
                                 /\ k \in DOMAIN moves => moves'[k] = moves[k]
        /\ e0.name \notin DOMAIN moves'
    BY <2>2
  <2>4. Placed(e, p, moves') /\ Shown(e, asked[i])
    BY <1>2, <2>1, <2>3 DEF Placed, Shown
  <2> QED
    BY <1>1, <1>2, <2>1, <2>2, <2>3, <2>4, NativeClaims
<1>8. CASE MoveWaitParks(n) \/ MoveWaitReturns(n)
  BY <1>8 DEF MoveWaitParks, MoveWaitReturns, sceneVars, ClaimInv, MovesById
<1> QED
  BY <1>0, <1>3, <1>4, <1>5, <1>6, <1>7, <1>8

\* The movements that drive an entity: the one kept under its id, if there is one.
LEMMA OneDriver ==
  ASSUME IInv, ClaimInv, NEW i \in 1..Len(entities)
  PROVE  Drivers(i) = {entities[i].name} \cap DOMAIN moves
<1>1. DOMAIN entities = 1..Len(entities)
  BY LenProperties DEF IInv, Types
<1>2. \A j \in 1..Len(entities) : byName[entities[j].name] = j
  BY <1>1 DEF IInv, OneEntityPerId
<1>3. ASSUME NEW k \in DOMAIN moves, byName[k] = i PROVE k = entities[i].name
  <2>1. PICK j \in 1..Len(entities) : entities[j].name = k
    BY DEF ClaimInv, MovesById
  <2> QED
    BY <1>2, <1>3, <2>1
<1> QED
  BY <1>2, <1>3 DEF Drivers

LEMMA FrameClaims ==
  ASSUME IInv, IInv', ClaimInv, Frame
  PROVE  ClaimInv'
<1>1. /\ moves' = [k \in {m \in DOMAIN moves : clock' < moves[m].f1} |-> moves[k]]
      /\ UNCHANGED <<goal, asked>>
      /\ entities' = [i \in DOMAIN entities |->
                     IF Drivers(i) = {} THEN entities[i]
                     ELSE [entities[i] EXCEPT !.pos = Along(moves[CHOOSE k \in Drivers(i) : TRUE], clock')]]
  BY DEF Frame
<1>2. /\ DOMAIN entities = 1..Len(entities) /\ DOMAIN entities' = 1..Len(entities')
      /\ Len(entities) \in Nat /\ Len(entities') \in Nat /\ clock' \in Nat
  BY LenProperties DEF IInv, Types
<1>3. DOMAIN entities' = DOMAIN entities /\ Len(entities') = Len(entities)
  BY <1>1, <1>2, LenProperties DEF IInv, Types
<1>4. ASSUME NEW i \in 1..Len(entities)
      PROVE  /\ entities'[i].name = entities[i].name
             /\ Placed(entities'[i], goal[i], moves') /\ Shown(entities'[i], asked[i])
  <2> DEFINE e0 == entities[i]
             k == e0.name
             m == moves[k]
  <2>1. e0 \in EntityRecord /\ Placed(e0, goal[i], moves) /\ Shown(e0, asked[i])
    BY EntityAt DEF IInv, ClaimInv
  <2>2. CASE k \in DOMAIN moves
    <3>1. (CHOOSE x \in Drivers(i) : TRUE) = k /\ Drivers(i) # {}
      <4>1. Drivers(i) = {k}
        BY <2>2, OneDriver
      <4> QED
        BY <4>1
    <3>2. entities'[i] = [e0 EXCEPT !.pos = Along(m, clock')]
      BY <1>1, <1>2, <3>1
    <3>3. /\ entities'[i].name = k /\ entities'[i].pos = Along(m, clock')
          /\ entities'[i].fade = e0.fade /\ entities'[i].alpha = e0.alpha /\ entities'[i].visible = e0.visible
      BY <2>1, <3>2 DEF EntityRecord
    <3>4. goal[i] # NoClaim => m.to = goal[i]
      BY <2>1, <2>2 DEF Placed
    <3>5. CASE clock' < m.f1
      <4>1. k \in DOMAIN moves' /\ moves'[k] = m
        BY <1>1, <2>2, <3>5
      <4> QED
        BY <2>1, <3>3, <3>4, <4>1 DEF Placed, Shown
    <3>6. CASE ~(clock' < m.f1)
      <4>1. k \notin DOMAIN moves'
        BY <1>1, <3>6
      <4>2. m.f1 \in Int
        BY <2>2 DEF IInv, Types, MoveRecord
      <4>3. Along(m, clock') = m.to
        BY <1>2, <3>6, <4>2 DEF Along
      <4> QED
        BY <2>1, <3>3, <3>4, <4>1, <4>3 DEF Placed, Shown
    <3> QED
      BY <3>5, <3>6
  <2>3. CASE k \notin DOMAIN moves
    <3>1. Drivers(i) = {}
      BY <2>3, OneDriver
    <3>2. entities'[i] = e0
      BY <1>1, <1>2, <3>1
    <3>3. k \notin DOMAIN moves'
      BY <1>1, <2>3
    <3> QED
      BY <2>1, <2>3, <3>2, <3>3 DEF Placed
  <2> QED
    BY <2>2, <2>3
<1>5. MovesById'
  <2>1. \A k \in DOMAIN moves' : k \in DOMAIN moves
    BY <1>1
  <2> QED
    BY <1>3, <1>4, <2>1 DEF ClaimInv, MovesById
<1> QED
  BY <1>1, <1>3, <1>4, <1>5 DEF ClaimInv

LEMMA NextClaims == IInv /\ ClaimInv /\ [Next]_vars => ClaimInv'
<1> SUFFICES ASSUME IInv, ClaimInv, [Next]_vars PROVE ClaimInv'
  OBVIOUS
<1>0. IInv'
  BY NextInv
<1>1. CASE Creations
  BY <1>0, <1>1, CreateSpriteClaims, CreateCharaClaims DEF Creations
<1>2. CASE OnObjects
  BY <1>0, <1>2, OnObjectClaims
<1>3. CASE MoveWaitAll \/ OtherWait \/ End \/ UNCHANGED vars
  BY <1>3 DEF MoveWaitAll, OtherWait, End, vars, sceneVars, ClaimInv, MovesById
<1>4. CASE Frame
  BY <1>0, <1>4, FrameClaims
<1>5. CASE Start
  <2>1. entities' = <<>> /\ DOMAIN moves' = {} /\ goal' = <<>> /\ asked' = <<>>
    BY <1>5 DEF Start
  <2>2. Len(<<>>) = 0 /\ DOMAIN <<>> = {} /\ 1..0 = {}
    OBVIOUS
  <2> QED
    BY <2>1, <2>2 DEF ClaimInv, MovesById
<1> QED
  BY <1>1, <1>2, <1>3, <1>4, <1>5 DEF Next

LEMMA ClaimInvariance == Spec => [](IInv /\ ClaimInv)
<1>1. Init => ClaimInv
  <2> SUFFICES ASSUME Init PROVE ClaimInv
    OBVIOUS
  <2>1. entities = <<>> /\ DOMAIN moves = {} /\ goal = <<>> /\ asked = <<>>
    BY DEF Init
  <2>2. Len(<<>>) = 0 /\ DOMAIN <<>> = {} /\ 1..0 = {}
    OBVIOUS
  <2> QED
    BY <2>1, <2>2 DEF ClaimInv, MovesById
<1> QED
  BY <1>1, InitInv, NextInv, NextClaims, PTL DEF Spec

\* An object that does not move stands where the script last put or sent it, and one that moves
\* has one movement, to that place, by whichever of its names it was moved (SetPosV and the
\* movement natives, Registry::advance()).
THEOREM ObjectsStandWhereSent == Spec => []StandsWhereSent
<1>1. IInv /\ ClaimInv => StandsWhereSent
  <2> SUFFICES ASSUME IInv, ClaimInv, NEW i \in DOMAIN entities, goal[i] # NoClaim
               PROVE  IF Drivers(i) = {} THEN entities[i].pos = goal[i]
                      ELSE Cardinality(Drivers(i)) = 1 /\ \A k \in Drivers(i) : moves[k].to = goal[i]
    BY DEF StandsWhereSent
  <2>1. i \in 1..Len(entities)
    BY LenProperties DEF IInv, Types
  <2>2. Placed(entities[i], goal[i], moves)
    BY <2>1 DEF ClaimInv
  <2>3. Drivers(i) = {entities[i].name} \cap DOMAIN moves
    BY <2>1, OneDriver
  <2>4. CASE entities[i].name \in DOMAIN moves
    <3>1. Drivers(i) = {entities[i].name}
      BY <2>3, <2>4
    <3>2. Cardinality({entities[i].name}) = 1
      BY FS_Singleton
    <3> QED
      BY <2>2, <2>4, <3>1, <3>2 DEF Placed
  <2>5. CASE entities[i].name \notin DOMAIN moves
    BY <2>2, <2>3, <2>5 DEF Placed
  <2> QED
    BY <2>4, <2>5
<1> QED
  BY <1>1, ClaimInvariance, PTL

\* A division by the factor that was multiplied in.
LEMMA WholeWay ==
  ASSUME NEW a \in Int, NEW d \in Nat \ {0}
  PROVE  (a * d) \div d = a
<1> QED
  OBVIOUS

\* Once its fade is over, an object is as opaque as the script last asked for, and a deleted
\* one is gone (DrUiSetColorA, DeleteObject and their like, SceneRenderer's faded()).
THEOREM OpacityEndsAsAsked == Spec => []OpacityAsAsked
<1>1. IInv /\ ClaimInv => OpacityAsAsked
  <2> SUFFICES ASSUME IInv, ClaimInv, NEW i \in DOMAIN entities, entities[i].started, asked[i] # NoClaim,
                      entities[i].fade.duration > 0 =>
                        clock >= entities[i].fade.start + entities[i].fade.duration
               PROVE  OnScreen(entities[i]) = asked[i]
    BY DEF OpacityAsAsked
  <2> DEFINE e == entities[i]
             fade == e.fade
  <2>1. i \in 1..Len(entities) /\ clock \in Nat
    BY LenProperties DEF IInv, Types
  <2>2. Shown(e, asked[i])
    BY <2>1 DEF ClaimInv
  <2>3. fade \in OpacityFade /\ e.visible \in BOOLEAN /\ e.alpha \in Int
    BY <2>1, EntityAt DEF IInv, EntityRecord
  <2>4. fade.start \in Int /\ fade.duration \in Int /\ fade.from \in Int /\ fade.to \in Int
    BY <2>3 DEF OpacityFade
  <2>5. CASE ~e.visible
    BY <2>2, <2>5 DEF Shown, OnScreen
  <2>6. CASE e.visible /\ fade.duration = 0
    BY <2>2, <2>6 DEF Shown, OnScreen, Faded
  <2>7. CASE e.visible /\ fade.duration # 0
    <3>1. fade.duration \in Nat \ {0} /\ fade.to = asked[i]
      BY <2>2, <2>4, <2>7 DEF Shown
    <3>2. ~(clock < fade.start) /\ ~(clock - fade.start < fade.duration)
      BY <2>1, <2>4, <3>1
    <3>3. Faded(e, clock) = fade.from + ((fade.to - fade.from) * fade.duration) \div fade.duration
      BY <2>7, <3>2 DEF Faded
    <3>4. fade.to - fade.from \in Int
      BY <2>4
    <3>5. ((fade.to - fade.from) * fade.duration) \div fade.duration = fade.to - fade.from
      BY <3>1, <3>4, WholeWay
    <3>6. Faded(e, clock) = fade.to
      BY <2>4, <3>3, <3>5
    <3> QED
      BY <2>7, <3>1, <3>6 DEF OnScreen
  <2> QED
    BY <2>3, <2>5, <2>6, <2>7
<1> QED
  BY <1>1, ClaimInvariance, PTL

=============================================================================
