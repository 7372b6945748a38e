# A formal model of rosalinde's script runtime

rosalinde replays the cutscenes of a game from its original assets: an AngelScript
virtual machine runs the game's bytecode, `scarlett` supplies the native functions
the scripts call, a viewer draws the scene they build.  Everything that happens over
time happens between one script, suspended and resumed by a scheduler, a scene
that moves by itself one frame at a time, and a viewer that follows the scene.  These modules
model that part.

Paths below are relative to the repository.  Run everything inside this directory:

    tlasany Movement.tla                              # parse
    tlc -workers 2 -config Movement.cfg MCMovement    # model-check
    tlapm Movement_proofs.tla                         # check the proofs of a module

## 1. Inventory

**RuntimeSession** (`scarlett/src/host.cpp:784-979`, `include/scarlett/runtime.hpp`).
The scheduler of one script function: a scene clock in frames, a context (the
coroutine), the frame it is to be resumed in (`wake`), flags *started / finished /
limit*, an error text, and the registry with the scene.  `start()` resets the scene, may
run a *prelude* in a context of its own, prepares the context and runs the first
*burst*; `advance()` moves the clock by a frame, advances the scene, and runs a burst
if the wait is over.  A burst ends when a native suspends the script, when the script
returns or throws, or when a line callback aborts it.  Hard: restarts of a session
that ran, starts that fail half way, bounds (the step budget, the frame cap), two
clocks that must agree (the session's and the scene's).  Right when: the script is
resumed in exactly the frame it asked for; an ended session is frozen; a driven
session ends; recorded frames increase.

**Host::run** (`host.cpp:981-1023`).  The offline driver: start once, advance until
finished or capped, return the recorded timeline.

**Registry** (`scarlett/src/registry*.cpp`).  The scene and its natives.  It has no
threads; its difficulty is that natives write *plans* (a tween, a fade, a movement with
an animation to finish, a message with an end) which `Registry::advance()` executes in later
frames, while other natives interrupt, replace, retime or wait for them.  A wait is a
number of frames computed when the native is called, from a copy of the plan's end.

| part | state | operations | right when |
|---|---|---|---|
| overlay | list of fades | ColorFade*, CrossFadeAsync, WaitFadeDone, `fade_at()` | no flash; the past of the list is not rewritten; a wait ends with the fade |
| movement | table of one movement per entity | Move*, DrMove*, DrJump*, SetPosV, MoveWait(All) | entities stay on their path; waits find them arrived |
| animation | per entity: clip, idle, action, motion token | DrAnimation, DrSetIdleAnimation, SetSpriteMoneAnimation, waits | a motion is ended by its own movement only; deferred idles are shown |
| camera | position and zoom tween sharing one time span | DrSetCameraPosV/Zoom, DrCameraStop, DrFollowCamera, DrCameraMoveWait | tweens end; keyframes tell where the camera is |
| texts | list of messages and banners | Msg*, Message, CloseMessage, CloseMsg, MsgFinishWait | the list is a record in time; a message is read to its end |
| objects | entities, the table of their names, movements by id | CreateSprite*, DrCreateChara, Delete*, *ColorA, moves by any name | names lead to one entity; opacity and place are those last asked for; a created character is visible |
| effects, audio | event lists | DrCreateEffect, DrMoveEffect, ... | the viewer replays each event once and in order |
| field, battle, UI, save | fields, maps, callbacks | set, get, add, remove | callbacks replaced and removed exactly |

**Viewer** (`viewer/src`).  One thread: `Engine::run` polls inputs, updates, renders.

- `GameRuntime` and `DramaSession` own a session and forward its calls.
- `ScenePlayback` decides how often `advance()` is called: in real time, up to a frame to hold, or
  from one frame to be captured or probed to the next; `headless.cpp` does so without a window.
  Hard: captures, probes, a frame to hold, a script that ends early, files that cannot be written
  and windows that are not shown all meet in one loop.  Right when no frame asked for is passed or
  lost, and the program ends when it has something to end for.
- `EffectManager` keeps the effects that are on, following the list of effect events with a cursor.
  Hard: several frames caught up at once, effects that die, move, are attached and created over.
  Right when it shows what the list, read as a whole, asks for.
- `SpritePlaybackState` plays the runs of a sprite track: entries of some ticks, jumps, loops with an
  intro, runs played once, end marks.  Hard: pictures that take any number of ticks.  Right when
  what is shown depends on the time alone, and a finished run holds a pose.
- `SceneRenderer` keeps one item per entity id and fades it.  The rest loads and draws.

**Decoders, containers, tools.**  `scarlett/src/asb.cpp` (bytecode container), `src/impl`
(asset formats), `libcriware` (archives, compression), `tools` (dumps, asbrun, extractor, a
line editor), `visiontest`.  Sequential readers.

Interaction: natives -> registry (calls during a burst) -> `pending_wait` and `Suspend()` ->
`burst()` computes `wake` -> `advance()` of the registry in each frame -> resume.
Keyframes are flushed at the end of each burst, by a `flush_keyframe()` that calls
`Registry::advance()` once more in the same frame.

`PROJECT.json` lists every component with its status, and under "hazards" what is hard to test,
line by line, with the properties that look after it.

## 2. Modules

| module | models | proofs |
|---|---|---|
| `ScriptClock` | what a session promises a scene: a clock, an alarm, a phase | |
| `RuntimeSession` | `asb::RuntimeSession`, every call and error path | `RuntimeSession_proofs` |
| `HostRun` | `Host::run()` on top of `RuntimeSession` | (in `RuntimeSession_proofs`) |
| `ScreenFade` | fades, `WaitFadeDone`, `Wait` on top of `ScriptClock` | `Timelines_proofs` |
| `Animation` | `AnimationController`, as functions of one entity's record | (in `Movement_proofs`) |
| `Movement` | movements and animations of entities, on `ScriptClock` and `Animation` | `Movement_proofs` |
| `Camera` | camera tweens and what keyframes record of them, on `ScriptClock` | `Camera_proofs` |
| `Messages` | texts, banners and waits for them, on `ScriptClock` | `Messages_proofs` |
| `SceneObjects` | creation, names, opacity, places and deletion of objects, on `ScriptClock` | `SceneObjects_proofs` |
| `Effects` | the effect natives and the viewer's `EffectManager`, on `ScriptClock` | `Timelines_proofs` |
| `ScenePlayback` | the loops of the viewer and of `run_headless()`, driving `ScriptClock` | `ScenePlayback_proofs` |
| `SpritePlayback` | the playheads of a track and its selection by the script | `SpritePlayback_proofs` |
| `MC*` | the instances TLC checks | |

A definition whose comment begins with "Mutant:" is a plausible bug in the one after it; it
stands there to show that a property would notice, and nothing uses it.

### ScriptClock and RuntimeSession

`RuntimeSession` cuts `start()` and `advance()` where the script runs: `pc` is "idle" between
calls, "prelude" or "burst" while a context executes.  `ScriptLine` is one line of script:
it counts against the budget of `AbortCallback` and may call natives that mark the scene.
`BurstSuspends(n)` is a suspension with `pending_wait = n` (-1 when a native suspended without
setting it); `BurstReturns`, `BurstThrows`, `BurstAborts` and `BurstUnprepared` are the other ends.
`BurstUnprepared` is reached when a session that ran is restarted and its prelude fails: the
session still counts as started, its context was never prepared.  If no context can be
created at all, such an `advance()` dereferences null, which is the state "crashed".

`ScriptClock` is the abstract specification: `Sleep(n)`, `Tick`, `Return`, `Halt`, `Begin`, and
`Abandon` for a failed restart.  `ImplementsClock` is the refinement, with `clock <- frame`,
`alarm <- wake` and the phase computed from the flags.  The scene modules extend
`ScriptClock`, so a native that parks the script is the conjunction of its own effect with
`Sleep(n)`.  They leave out `Abandon`: a scene whose session failed to restart is not
advanced by any caller in the repository (`DramaSession` throws, `Host::run` returns).

### ScreenFade

The overlay is reduced to its alpha in 0..12.  `FadeAt` is `fade_at()`: the last fade in list
order that has begun decides.  The 32-bit argument word of `Wait` is scaled to `Word = 4`.

### Animation and Movement

`Animation` has one operator per method of `AnimationController`, on a record that joins
the entity's fields with the controller's state.  A clip has a length, an intro and
possibly a continuation (`TrackInfo`).  `Movement` composes it with the table `_moves`:
`Walk` begins a motion and a movement under one token, `Frame` is `Registry::advance()` and
finishes the motions of movements that arrive.  Positions are the places a script named,
or `Between`.  `flush_keyframe()`'s second advance is not an action: `OnPath` and `ClipsSettled`
state that it would change nothing, in every state.  Entities are created once; `SceneObjects`
creates them over again.  `deferred` is history: the idle last asked for while an action or a motion was on.
Motions that follow leave it alone; an idle shown at once, a clip selected by its index, and an action that finds
no other on (it takes the clip on show for the idle, a motion's too) end the claim.

### Camera

`camera` is the tween with its two halves; `FlushKeyframe` ends every burst.  The variable
`retimed` records that a zoom was started during a move, since it shifts the shared end
frame but not the one `DrCameraMoveWait` goes by.  `CameraArrived` says what a script that waited finds in either
case: a camera at rest, or, after such a zoom, perhaps one whose move ends later.

### Messages

A text has a kind (message or banner), a first and an end frame, 0 meaning an open banner.  `read` is history: the texts
the script was ever parked by.  `ReadAndOver` relates all of them to every later text and to the running script; it would fail
if `CloseMsg` reached past the newest text, or if `MsgFinishWait` took the end of another one than the newest.

### SceneObjects

An entity has an id, its present further names (`aliases`), opacity with a fade, a place, and the flags
`visible` and `started`.  `byName` is `_by_name`, the table of every name ever given, `moves` the table of
movements by id.  `Ensure`, `CreateSprite` and `CreateChara` follow `ensure()`, `create_sprite()` and
`create_chara()`; `Colored` and `Deleted` the two natives that fade; `OnScreen` is what the renderer makes of
an entity.  `goal` and `asked` are history, written from what the script asks for and not from what the
code stores; where a native makes a new demand pointless (a sprite put somewhere over an entity that moves) they are
`NoClaim`.  `ObjectsAssumption` keeps ids from being given to other objects as further names, as
in the scripts' tables.

### Effects

`events` is `SceneState::effects`; every effect native appends one event and nothing else.  `live` and `cursor` are
`EffectManager::_effects` and `_next`; `Update` is `EffectManager::update()` with `Apply` for `apply()`, `Caught` for
one turn of its loop over the list and `CaughtUp` for the loop.
`Wanted`, `Home` and `Latest` read the list as a whole, without a cursor, and are what the invariants
compare with.  The actor an effect is attached to walks one unit per frame (`stand`).

### ScenePlayback

`plan` is the command line, `pc` the place in the loop: "inputs", "update", "render" for the viewer, "loop" for
the run without a window, "burst" inside a call of `start()` or `advance()`.  `Stepping` joins the loop
conditions of `update()`'s four modes; `Step` is one `step()`.  A picture is written or not, and `Capture` takes either
outcome.  The files of a probe differ: a draw file that cannot be opened ends probing (`Probe`), while a state or summary file
that cannot be opened is logged and its frame counts as written (`WriteProbe`; the history `failed` remembers it).  What
counts as written is in `captured`, `probed` and `taken`.  A throw and a return are one end, as for the code (section 3,
Disagreements).  `Minimized` is the iteration
that renders nothing.

### SpritePlayback

`heads` has one playhead per run of the chosen track; `Ticked` is a tick of `SpritePlaybackState::update()`.
`Advance(elapse)` gives it any of `Elapses`, in parts of a tick.  `played` counts the parts since
`play()`; `EntryAt` and `Ends` say from it, without a playhead, what a run without jumps shows.
`Apply` leaves out the `play()` for a changed `sequence_index` (`sprite_playback.cpp:93-96`): the field is 0 in every
entity, since nothing under `src` assigns it.

## 3. Runs

| run | instance | shows |
|---|---|---|
| `session` | waits up to 3, one line per burst, caps 0 and 4, a start and two restarts, contexts may fail | types, wake frames, agreeing clocks, keyframes; resumed on time; an ended session is frozen; a lost context is reported; a driven one ends; it implements `ScriptClock` |
| `host_run` | the same driven by `Host::run()`, caps 0 and 6, three lines per burst | it comes back; nothing on failure, else a timeline from frame 0 on whose last burst is recorded |
| `screen_fade` | 3 fades, alphas 0, 5, 12, arguments down to 0 and below, 5 frames | no flash, the past is kept, `WaitFadeDone` waits long enough |
| `movement` | one entity, 2 places, looping, chained and one-shot clips, two idles, a track to follow a movement or none, 4 frames, 2 motions | paths, settled clips, the idle after actions and motions, action waits |
| `movement_pair` | two entities, movements of 1 and 2 frames | motions are never confused; waits for one or for all find them arrived |
| `camera` | 2 positions, 2 zooms, moves of 2 frames after a delay of 1, recording, 3 frames | the end of a move is known; waits find the camera arrived, unless a zoom timed the move anew; keyframes tell where it is and how near |
| `messages` | 3 texts of 1 or 2 frames, 4 frames | order in time; messages waited for are over and none was shown with a later one; the past is kept |
| `objects` | a sprite, two objects that share an id, a character of the user interface; two places; fades and delays of 0 and 2, moves of 2 frames; 5 natives in 4 frames | one entity per id; opacity and place are those last asked for |
| `effects` | one name, four assets (one lasting, one with a frame, one without frames, one missing), 4 events, 2 frames | the manager shows what the list asks for, where it asks, without jumps |
| `playback` | 16 command lines over scenes of up to 5 frames: real time, screenshot, hold, captures, probes, both, headless; files may fail, the window may be hidden or closed | no frame to be captured is passed, none to be probed without captures; what is lost is lost in a way the property names; it ends; a held frame is held |
| `sprites` | four tracks with every kind of run, selected at any time, pictures of 0, 1.5, 2 and 4.5 ticks, 6 frames | playheads stay inside; what is shown depends on time only; finished runs hold a pose; the selected track plays |
| `objects_recreated` | as `objects` | violation: a deleted character created again is invisible |

The bounds (`MaxStarts`, `MaxClock`, `LastFrame`, `MaxFades`, `MaxTokens`, `MaxTexts`, `MaxCalls`, `MaxEvents`, `MaxFrame`) let every
plan be interrupted by another one before its end, run to its end, and be followed by a third; the fade
list holds a cross fade (two entries) and one more; the event list holds a creation, two changes
and a deletion, or an effect created over.  Frame caps include 0, which stops a
session before its first frame, and one the clock reaches.  A restart
sets everything back, so that two of them show what survives.  Two entities are the least that
can confuse one another's tokens, and tokens are the only thing they share; effects share only the cursor,
which every event moves.

Deadlock is not checked: a behaviour ends where a bound is reached, in `host_run` when the
function has returned, in `playback` when the program has ended, in `session` also at a null
dereference.

*Fairness.*  `session` assumes weak fairness of `Execute` (a call returns: the step budget sees to it)
and of `advance()` while it can tick (the owner's loop: `Host::run`, `headless.cpp`).  Nothing
is assumed of the script.  `host_run` assumes that the C++ thread runs.  `playback` assumes the same (`WF(Next)`),
that the window is not hidden for ever (`SF(Render)`; while it is minimized `Engine::run` skips the rendering), and that
a file tried again and again is written in the end (`SF(Writes)`; the code retries a picture in each
rendering).  The user need not close the window.

### Disagreements

`objects_recreated` expects a violation: `create_chara()` sets neither `visible` nor the fade of an entity that is
there already, while its comment (`registry.cpp:333`) says that world characters are visible
immediately.

Others met while modelling and not kept as runs; the modules contain the behaviours as the
code has them, or exclude them by the assumption named.

*Session and host.*  After a restart whose prelude fails, the next `advance()` moves the scene's clock by more
than one frame (`host.cpp:863`).  "A keyframe is recorded whenever it changes" (`host.hpp:84`), but only at the
end of a burst (`host.cpp:938`).  `advance()` answers `Finished` for a script that threw, so the branches for
an error in `scene_playback.cpp:57-61` and `headless.cpp:86-90` are never taken and a run without a window exits with 0.

*Natives.*  `Wait` reads its `int` as unsigned; -1 parks the script for 2^32 - 1 frames (`registry.cpp:546`).
`DrCameraStop` changes the camera and does not mark the scene (`registry_camera.cpp:188`); a zoom during a camera
move prolongs it beyond the frame `DrCameraMoveWait` goes by (83).  A banner closed in frame 0 gets the
end frame that means open (`registry_text.cpp:215`); `CloseMsg` closes an open banner (231); `MsgFinishWait`
looks only at the newest text (223).  `MoveWait` compares its argument with ids, so it returns at once for
any other name of a moving object (`registry_movement.cpp:110`).  An action played on the way makes the walk
clip the idle, which loops after arrival (`animation.hpp:69`).  `create_sprite()` over a moving entity puts it
elsewhere while its movement goes on (`registry.cpp:305`).  A colour set during a fade jumps: the target becomes the
colour the next fade starts from at once (`registry_sprite.cpp:242`).  A character of the user interface created again
keeps an older fade.  Two characters with one definition share one entity (`registry.cpp:320`); a deleted one
still exists for `IsExistSprite`.  `find_entity()` (`scene.hpp:350`) asks ids and present aliases,
the natives a table of all names ever given: after a name has changed hands they find different
entities (`ObjectsAssumption`).  `resolve_callback()` forgets a name that occurs twice and finds it at the third
occurrence (`registry.cpp:221`).

*Viewer.*  An effect without a name is numbered by the cursor (`effect_manager.cpp:40`), which `update()` moves once
more (102): an effect created by the next event is never shown.  The instance has names only; with the empty name in
`Names`, TLC finds `ShowsWhatWasAsked` violated in six states.  A place set and a move begun in one frame: the move leaves
from the place last drawn.  An effect attached after a move is over does not follow before its place is
set.  Captures together with probes: the loop steps from capture to capture (`scene_playback.cpp:100`), passing the frames to be
probed in between, and the program quits when the probes are done or the scene is over (`scene.cpp:49`), captured or not.
`NoFramePassed` and `NothingLost` state what holds of such command lines: captures are not passed, a frame both captured and to
be probed has been probed.  A screenshot together with probes: the program quits once the screenshot is written (`scene.cpp:45`),
and probes of later frames are not.  The last probe of a scene is lost if the window is
hidden when the scene ends.  `--probe DIR` "writes" a state and a summary for every probe frame (`docs/TOOLS.md:95`); a file that
cannot be opened is logged, its frame counts as written and the exit status is 0 (`probe.cpp:465-480`), and a draw file that cannot
be opened ends probing, which the program takes for having probed everything (`probe.cpp:445`, `probe.hpp:16`).  A frame asked for beyond the session's cap makes `update()` loop for ever
(`scene_playback.cpp:104`, 116, 122; `PlaybackAssumption`).  An entry of zero ticks would count down from 2^32
(`sprite_playback_state.cpp:155`), and a run whose intro is all of it loops past its end (`sprite.cpp:126`); both are
excluded by the assumption of `SpritePlayback`.  Runs hidden by the debugging filters are shown when
they finish (`sprite_playback_state.cpp:183`; the filters are not modelled).

## 4. Proofs

Each `X_proofs` proves properties of `X` that a run checks (`Timelines_proofs`: of `ScreenFade` and of
`Effects`, two lists recorded by the frame, whose proofs share the lemmas about numbers), for all values of the
constants that satisfy the module's assumption: any number of entities, clips, fades, messages, objects, tracks, frames.  The bounds on clocks
and lists are constants too, so that nothing depends on them.  None of the properties is inductive alone; each module
has an invariant (`IInv`; `FadesInv` and `EffectsInv` where two share a module), a lemma or theorem with one step per
action, and the action properties follow from it.
Where a second group of properties needs more, a second invariant is proved on top of the first (`RunInv`,
`ShowInv`, `ClaimInv`, `LossInv`, `HeadsInv`), assuming it in every step.

| module | proved | what the inductive invariant adds |
|---|---|---|
| `RuntimeSession_proofs` | `TypeOK`, `WakeAhead`, `OneClock`, `KeyframesOrdered`, `ResumedOnTime`, `LossReported`, `EndIsFinal`, the refinement `ImplementsClock`; of `HostRun`: every run is a session (`RunRefinement`), `TimelineWhole` | which combinations of `pc`, context and flags exist; no keyframe before the first burst, none of the frame of a running one; a session without a context has an error, whatever its flags; from `run()`'s loop on there is a recording that begins with frame 0, and nothing of an ended script's last burst is missing in it |
| `Timelines_proofs`, of `ScreenFade` | `NoFlash`, `PastKept`, `FadeIsDone`, and the types: no interpolation leaves 0..opaque | fades end after they start; a script parked by `WaitFadeDone` has the end of the last one for its alarm.  The rest is lemmas about integer interpolation and about `fade_at()` on a list that grows by one or two fades |
| `Timelines_proofs`, of `Effects` | `ShowsWhatWasAsked`, `PlacedAsAsked`, `MoveTakesOff` | the events are of the past and of known shape; `Following`: the effects that are on, and those that are gone, are what the events before the cursor ask for (`OnAsAsked`, `GoneAsAsked`); an effect stands where a move of this frame began; right after a sync the cursor is at the end, nothing that is on is over, and everything stands where `update()` puts it |
| `Movement_proofs` | `MotionOwnership`, `OnPath`, `MovesOver`, `ClipsSettled`, `DeferredIdleShown`, `ActionOver` | tokens carried by movements were given out; the alarm of a parked script is the end of the movement it waits for, or no earlier than any; `ShowInv`: nothing that is on is over; actions and motions keep the idle that was put off, and what comes in its place is a continuation somebody named; a script parked for an action wakes no earlier than its end |
| `Camera_proofs` | `MoveEndKnown`, `CameraArrived`, `RecordedWhere` | tweens in progress end later; the alarm of a parked script is `_camera_move_end`; a clean scene (`~dirty`) is the recorded one |
| `Messages_proofs` | `TextsInTime`, `ReadAndOver`, `OverStaysOver` | types; no message begins in the future; nobody waits for a banner; a sleeping script's alarm is no earlier than the end of anything it was ever parked by |
| `SceneObjects_proofs` | `OneEntityPerId`, `StandsWhereSent`, `OpacityAsAsked` | types; the table leads into the list only; names of entities are ids; `ClaimInv`: movements are kept under ids of entities; an entity with a movement is on its way to its goal, one without stands on it; its fade leads to the alpha asked for |
| `ScenePlayback_proofs` | `NoFramePassed`, `NothingLost` | the driver's copy of the frame is the scene's wherever the driver looks at it; probes of frames passed are written; `LossInv`: captures are only given up when the scene is over before them, a shown frame is probed and a captured one too, and a loop that is to end has a reason that never goes away again |
| `SpritePlayback_proofs` | `SelectionPlays`, `PlayheadInside`, `HeldPose`, `PlaysInTime` | a selection is not in the future; the last `play()` is no older than the one it was for; `HeadsInv`: the remembered entry of a run is one of its own and visible; a playhead stands in its run at as many ticks as have passed, in the first pass or a turn of the loop |

Why `OneClock` mentions the context: a failed restart resets the scene but not the session, so the clocks do
disagree afterwards, but then there is no script to notice.  The refinement maps each action to a
step of `ScriptClock` or a stutter.

`Movement_proofs` first shows for each method of `AnimationController` what it does to the motion (keep it, end
it, replace it); every native is then one of a few kinds of step.  `SceneObjects_proofs` does the same for the
record of an entity.

Numbers: `Timelines_proofs`, `ScenePlayback_proofs` and `SpritePlayback_proofs` need that a set of numbers has a least
(or, bounded, a greatest) element, from the well-foundedness of `<`.  `SpritePlayback_proofs` derives from it
induction over a set of numbers (`Counting`), and with that what the recursive functions `TicksTo` (sums of
ticks) and `Updated` (any number of ticks in one picture) are, the monotony of the sums, and that what holds for a
tick holds for all the ticks of a picture.  `PlaysInTime` is then shown for one tick (`TickedInTime`): either
one more tick of the entry has passed, or the next entry, the loop or the end begins exactly when the sum says so.

`NoFramePassed` and `NothingLost` are not unconditional, and their comments list the conditions: probes beside captures are passed
and may be lost, captures beside probes may be dropped, a screenshot drops the probes of later frames, a failed draw file
or directory drops all, a failed state or summary file the probe it belongs to, and the last probe of a scene is lost behind a hidden
window (section 3, Disagreements).  The instance has all of these command lines and failures.

`CameraArrived` and `DeferredIdleShown` have their exceptions in the formula as well: a move a zoom timed anew, and the continuation
of a clip or the track that follows a movement.

Effects.  The properties compare `EffectManager`, which sees one event at a time, with the list read as a whole.  The
proofs say what the first `k` events ask for (`AsAsked`: the life, the carrier, the place, the move of an
effect), show for each of these what one more event does to it (`LifeStep`, `CarriedStep`, `BaseStep`, `MovedStep`, joined
in `LaterEvent` and `ApplyFollows`), and repeat it by `Counting` over the loop (`CaughtUpFollows`).  The sum of
the offsets since an effect was placed is a function over the events (`Shifts`), shown to be the one `Home` defines
recursively (`ShiftsUnique`).  For `MoveTakesOff` the loop also keeps `Steady`: an effect that was on before the loop has not
been moved on the screen, so every move it takes off on leaves from there.  That events appended later change nothing about
the first `k` is `ListUnwritten`.

The hypothesis of these three theorems is real: the first two hold while every effect was created with a name (`AllNamed`),
the third for scripts without the empty name.  An effect without a name moves the cursor over the next event
(section 3, Disagreements), and from then on the manager does not show what was asked.  The bounds on frames and events are
constants, and a frame may bring any number of events.

Model-checked only:

- liveness (`Terminates`, `ComesBack`, `Quits`, `Holds`), which the prover does not do.

`TypeOK` of `ScreenFade`, `Movement`, `Camera` and `Messages` is proved (`TypeCorrect`) and no property of a run.

## 5. Not modelled

`PROJECT.json` has the list with reasons.  Drawing, windows and parsing are sequential and have
no protocol; libraries (AngelScript, SDL, OpenGL, Dear ImGui, which is most of the source by lines) are external, and
appear as the steps they may take.  Easing curves, colours other than alpha and distances are abstracted:
durations are any duration.  The field, battle, user-interface and save natives mostly set and get
one field each: a property of them would repeat an assignment.  Asset readers and decompression are
functions of a file, without state that outlives a call.

## 6. Plan

1. `Callbacks` (`Registry::add_callback`, `resolve_callback`) and `BattleUnits`; `SaveState`; `LineEditor` of the tools.
2. Operators: the decoder's variable-length integers, `pick_scene_function`, CRILAYLA.
3. What still holds of `Effects` with unnamed effects; `SpritePlayback` with the debugging filters; `Movement` with re-creation.
