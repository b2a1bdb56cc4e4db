# art-junk in TLA+

A model of art-junk, a layered drawing application: a winit/egui front end
that turns mouse, touch and pen input into strokes, an engine that owns the
document and its undo history on a thread of its own, and a GPU renderer that
paints what the engine publishes. The modules model the parts with state and
order in them: the engine and its history, the engine's actor thread, the way
from a device event to a stroke on every platform, the way from a click or key
to a command and back to the screen, and saving and loading.

To check everything here: `tlasany M.tla` parses a module, `tlc -config X.cfg M`
runs one of the configurations below, `tlapm M.tla` checks the proofs.

## 1. The system

Source paths are relative to `src/crates/`. Who talks to whom:

```
 NSEvent monitor, focus observer ---+            commands (mpsc, unbounded)
 winit window events --> route_input +-> StylusAdapter --> on_sample --------+
                            ^ gate        (queue)            |               v
                        egui chrome ------ actions ----------+---------> run_actor
                            ^                                            (apply)
                            +------- AppSnapshot (ArcSwap) <---- publish ----+
                                       |
                                       +--> renderer
```

Everything left of the channel runs on the main thread, one event at a time.
The channel and the `ArcSwap` are the only things shared between threads.

| Component | State | Operations | What is hard | What makes it correct |
|---|---|---|---|---|
| Document and edits (`aj-core/src/lib.rs`, `layer.rs`) | layers with strokes, active layer, stroke in flight and its layer, live brush, page | begin/add/revise/end/cancel stroke, layer setters, `Edit::apply` returning its inverse, snapshot | edits computed against one document and applied to a later one; look-ups by first match; late revisions | ids name one thing, the active layer exists, an inverse undoes exactly, the preview is what is committed |
| Engine and history (`aj-engine/src/lib.rs`, `apply`, `History`) | document, `past`, `future` | one arm per `Command`; undo, redo | stale commands, commands in the middle of a stroke, an entry popped and then refused, an `expect` | undo/redo walk one line of versions; nothing is lost; the thread does not panic |
| Engine handle and actor (`Engine`, `run_actor`) | channel, thread, published snapshot | send, snapshot, drop; receive, drain, publish, exit | batches, a reader in the middle of one, shutdown in the middle of one, join | commands take effect in order, once; a reader never sees half a batch; drop returns with everything applied |
| Application event loop (`aj-app/src/main.rs`) | active pointer and stroke, suppressed pointers, viewport, redraw requests | `window_event`, `route_input`, `on_sample`, keyboard, `render` | the monitor runs before winit; chrome claims pointers late; snapshots are stale when read | app and engine agree on the stroke; a gesture's end is never lost; the last frame shows the document |
| Panels and shortcuts (`aj-app/src/ui*`, `shortcuts.rs`) | picker model, panel visibility | actions computed from a snapshot | read-modify-write over a stale snapshot | no change lost; at most one action per key |
| Viewport, colour (`viewport.rs`, `color.rs`) | pan, zoom | pan, zoom at cursor, fit | floating point | inverse transforms |
| Stylus adapter core (`stylus-junk/src/adapter/mod.rs`, `winit_shim.rs`) | queue, mouse, touches, pens, pending estimates, counters | `on_cursor_moved`, `on_mouse_button`, `on_touch`, `on_focus_lost`, `drain` | the same gesture seen twice, lost ends | every gesture is Down, Moves, one end |
| Adapter platforms (`adapter/{mac,wayland,x11,windows,web,ios,android}.rs`) | per-platform pointer maps, clock anchors | raw sample and proximity handlers | lost Up, replays, late estimates | as above, and revisions before the end |
| Tablet backends (`macos_tablet.rs`, `linux_*_tablet.rs`, `windows_tablet.rs`, `web_pointer.rs`, ...) | event frames, device caches, window subclass, dispatch thread | decode and deliver platform events | events grouped in frames, hot-plug, a `RefCell` borrowed elsewhere, shutdown of a dispatch thread | no frame mixed or lost; a device removed mid-stroke ends it |
| Persistence (`aj-core` serde) | saved projection | save, load v1 and v2 | ids in the file against the process-wide counters | loaded ids are never minted again |
| Renderer (`aj-render`) | per-layer substrates, ping-pong buffers | begin frame, apply stroke, composite | buffers of layers that went away and came back | every stroke once, on its layer, in order |
| Pigment mixing (`aj-core/src/pigment`) | none | spectral mixing | numerics | |
| Stubs (`aj-effects`, `aj-format`, `aj-convert`) | none | | | |

`PROJECT.json` lists the same components with their status, and under `hazards`
each place in the code where one of these difficulties bites, with the
properties that would catch it.

## 2. Modules

| Module | Models | Built on |
|---|---|---|
| `Document` | layers, strokes, samples; the five edits as pure operators: `CanApply` (the `Err` returns of `Edit::apply`), `LayersAfter`, `ActiveLayerAfter`, `InverseOf`; revisions; the published scene | |
| `Engine` | the state the actor thread owns, one action per arm of `apply` | `Document` |
| `UndoTimeline` | abstract: what an undo history promises | |
| `EngineAudit` | `Engine` with history variables that remember what happened, and the properties stated with them | `Engine`, `UndoTimeline` |
| `Persistence` | the saved projection, loading files of both versions, the id counters | `EngineAudit` |
| `Actor` | `Engine::send`, `Engine::drop` and `run_actor`, for any `Apply` and `Snapshot` | |
| `CommandLog` | abstract: what a sender may rely on | |
| `EngineApply` | `apply(cmd, state)` as a function, with the live brush and the page's border, and the snapshot it publishes | `Document` |
| `Compositor` | the renderer's textures from frame to frame | `Document` |
| `Frontend` | the window: clicks, keys, one drawing pointer, frames, resizing, closing; composed with the actor thread | `EngineApply`, instances of `Actor`, `Compositor`, `Engine` |
| `Adapter` | `StylusAdapter` with the winit translation and the macOS pen handlers, as pure operators on a record | |
| `App` | `route_input`, `on_stylus_event`, `on_sample`, the monitor and the focus observer around them | `Adapter` |
| `TabletHandlers` | `StylusAdapter` as the other platforms drive it: pointers per device or contact, proximity, pending estimates | |
| `WaylandTablet`, `X11Tablet`, `WindowsTablet`, `WebPointer` | a backend, the handlers it calls and the environment that feeds it | `TabletHandlers` |
| `IosTouch`, `AndroidMotion` | the handlers and the platform's rules; the backends are stubs | `TabletHandlers` |
| `Tablets` | one of the six platforms, and what all of them owe the app | instances of the six |
| `MCEngine`, `MCActor`, `MCApp`, `MCFrontend`, `MCTablets` | instances for TLC | |
| `DocumentProofs`, `EngineProofs` | theorems about the edits, the engine and its history | `Engine`, TLAPS |
| `TimelineProofs` | the engine implements `UndoTimeline` | `EngineAudit`, `EngineProofs` |
| `CopyProofs` | what undo and redo put back, and what is saved and loaded | `TimelineProofs`, `Persistence` |
| `ActorProofs` | theorems about the actor, and about it as a `CommandLog` | `Actor`, `MCActor`, TLAPS |
| `TabletProofs` | theorems about the adapter and its six platforms | `Tablets`, TLAPS |
| `AppProofs` | theorems about the app, the adapter and the macOS pen | `App`, TLAPS |
| `FrontendProofs` | theorems about the application around the engine, and about it as an `Engine` | `Frontend`, an instance of `EngineProofs` |

### How the models correspond to the code

**Engine.** An action is a whole arm of `apply`: `EndStroke`, for one, takes the
stroke out of the document, applies `AddStroke`, asserts that this worked (the
`expect` is the variable `panicked`), and records the inverse, which clears the
redo branch. A command that finds nothing to do only logs in the code; in the
model it is a stuttering step, and the action's guards say when. Commands may
name any stroke or layer ever minted, removed ones included, because the front
end works from an older snapshot. Undo and redo pop their entry before they
apply it and lose it if it does not apply, as the code does. Vec indices become
positions counted from 1. Left out: the page, the live brush (`EngineApply` has
it), positions and axes. The four layer attributes, which all behave alike and
are not undoable, are one value.

**Actor.** `pc` follows `run_actor`: `recv` blocks for the first command,
`drain` is the `try_recv` loop, `publish` stores the snapshot. `Shutdown` is a
command like any other that only sets a flag, so the rest of the batch is still
applied. `Drop` and `Join` are the two halves of `Engine::drop`. The snapshot
read is not an action: `ArcSwap` makes it atomic, so a reader sees the variable
`snapshot` as it is.

**Adapter and App.** Each event is one step, because the main thread handles one
at a time. A pen event on macOS is seen twice within its step: first by the
`NSEvent` monitor (`HandleMacRaw`), then as the mouse event winit makes of it
(`RouteInput`). Only winit's events drain the adapter's queue, so what the
monitor or the focus observer put there alone (`NativePoint`, `PenLeaves`,
`FocusLost`) waits for the next one. What egui says is an input of the step,
with the one fact that a claimed pointer also counts as over chrome
(`wants_pointer_input` includes `is_using_pointer`). `pressed` is what the user
physically holds; after a focus loss any of it may be released unseen. The
engine appears as the strokes it was asked for. That a step may show the
commands it sends as already carried out is what `Actor` establishes. The
app's mouse, touch and pen are driven together, though the pen's handlers are
those of macOS and winit reports touches elsewhere: the adapter's interface
allows it, and its own tests do it (`focus_loss_cancels_mouse_and_touches`).

**Tablets.** `Init` chooses a platform and it stays. A backend and its handlers
are operators on the adapter's record; an action is one event of the platform,
whole: on Wayland an event of the tablet protocol (the dispatch thread locks
the adapter for each frame), on X11 an event the pump thread takes off the wire
(or one of the two round trips it then makes), on Windows a message of the
window procedure, on the web a DOM event. The queue is never drained here, so
it is the history of what the app is told, and the properties are stated over
it. `hand` is the environment: the compositor's idea of where each tool is, the
X server with the events still on the wire and the devices as they are now, the
pens and fingers, the browser with its captures. Some choices worth knowing:

- iOS and Android have handlers but no backend, so they are driven by the rules
  that `ios_touch.rs` and `android_motion.rs` say their backends will follow.
- On Windows the range events name device 0, whatever pen there is
  (`windows_tablet.rs:188`), and the model has them so. A message has one sample
  or two, which all get their phase from it (`HandlePen`). That winit also sees
  the pen's messages is not modelled. `outlived` is a history field of the pens:
  another pen has left the range since this one came, which cleared the flag.
- On X11 the event mask has no proximity events, so only the synthesised
  proximity exists. Hierarchy events that enable or disable a device do nothing.
  The query of the devices and the selection of their events are two round trips,
  at install as after a hierarchy event: `Init` is between the two of install,
  `PumpLoop` makes the query and leaves the thread `selecting`, `SelectEvents`
  makes the selection, and the server may do anything in between. Either may
  fail (`ReenumerateFails`, `SelectEventsFails`), which the code logs. The server
  changes devices that nobody selected, too, and tells nobody. `missed` is a
  history field: the devices of which a change went by unseen, or whose query
  failed, since the last query that succeeded.
- Devices named cursor on X11, and the mouse and unknown pointer types of the
  web, are left out: they differ from a pen in the tool they report only, and
  no gate is for or against them.
- On Wayland a phase in a frame without a position is skipped, and forgotten
  with its frame, though the comment of `flush` says that the motion of the
  `proximity_in` is enough for a Down. The model does what the code does.
- aj-app installs only the macOS backend at this commit.

**EngineApply and Frontend.** `Frontend` instantiates `Actor` with
`ApplyCommand` for `Apply` and `SnapshotOf` for `Snapshot`. A click is noted by
egui and takes effect in the next frame, against the snapshot that frame reads;
a key and the drawing pointer take effect at once, against the snapshot of the
moment. Either may be behind the commands already sent. Under `ControlFlow::Wait`
a frame is painted only when `redraw` is set; a frame whose surface was lost
paints nothing and is not asked for again. One pointer draws (`App` has the
others). `Zoom` stands for everything that only asks for a redraw. A width is
counted in presses of the width shortcuts, a ratio in fortieths; both are
clamped as in the code. The refinement to `Engine` ties the two translations of
`apply` together: each command the actor applies is an action of `Engine` or
changes nothing.

**Compositor.** A texture is the sequence of what was painted on it. A substrate
is a pair of textures that a deposit reads and overwrites in turn, and outlives
the frame; `Render` is a whole frame. Strokes whose path is empty, which the
code skips, are painted like any other.

**Persistence.** The files are what `Engine` can save and what the loader
accepts besides: no active layer, a dangling one, version 1, and both sides
populated. They are loaded by the process that saved them and by one whose
counters start over. It has no actions: its two properties are invariants of
the engine's run.

## 3. What is checked

| Run | Module, configuration | Question |
|---|---|---|
| `engine_history` | `MCEngine`, `MCEngine_history.cfg` | strokes, layers, activations, undos and redos in every order; save and load after each |
| `engine_revisions` | `MCEngine`, `MCEngine_revisions.cfg` | revisions that arrive late and attributes of layers that are removed and restored, around undo and redo |
| `actor` | `MCActor`, `MCActor.cfg` | the channel, the batches, the shutdown |
| `frontend` | `MCFrontend`, `MCFrontend.cfg` | a user faster than the engine, frames late or lost |
| `app` | `MCApp`, `MCApp.cfg` | mouse, finger and pen, chrome, focus and proximity |
| `tablets` | `MCTablets`, `MCTablets.cfg` | the six other platforms |
| `engine_revise`, `app_lost`, `app_stranded`, `app_estimates`, `tablets_fingers`, `frontend_redraw` | the configurations of these names | statements of the documents that the code does not keep (section 5) |

**Engine.** `ImplementsTimeline` is the refinement: with `Structure(layers)` as
the version shown and `Len(past) + 1` as the cursor, every step of the engine is
a commit, an undo, a redo or a stutter of `UndoTimeline`, where the versions are
those a history variable recorded. So undo returns to exactly the version
before, layer order and strokes of each layer included, whatever happened to
the active layer meanwhile. `HistoryCoversVersions` and `HistoryApplies` say
that no entry is lost on the way. `StrokesStayOnTheirLayer` follows every copy
of a stroke, in the document and in the payloads of the two stacks, back to the
layer that was active when it began; `PreviewIsCommit` relates what is drawn
during a gesture to what is committed after it. `RevisionsSurviveUndo` and
`PropsSurviveUndo` are about what the history does *not* record and must
therefore not take back. `ActiveLayerExists`, `StrokeTargetExists`,
`LayerIdsUnique`, `NoStrokeTwice` and `NeverPanics` are the consistency of the
document.

**Persistence.** `ReloadKeepsDocument`: whatever edits and undos led to the
document, saving and loading it gives its layers and active layer back.
`LoadedIdsAreFresh`: whatever the file and the process, the engine goes on from
a document whose ids are unique and below the counters, with an active layer.

**Actor.** `ImplementsLog` is the refinement to `CommandLog`: commands are a log;
the reader's view is a prefix of it that only grows and eventually is all of it;
once the handle is dropped the view is the whole log. `MCActor` lets the engine
state be the list of commands applied, of which any other engine state is a
function. `PublishedBetweenBatches` is about the reader in the middle of a batch:
with `settled`, a history variable that remembers the state the thread had when
it last was between two batches, it says that at every moment the snapshot is of
that state. It is neither an older one, nor one with a part of a batch in it, as
it would be if the thread published after each command it drains.
`NothingLeftBehind` and `DropReturns` say that of the implementation's own
variables which `ImplementsLog` says of the log.

**Frontend.** `PictureIsScene`: textures that outlive frames, resizes and layers
never show, and what is presented is the scene the frame read. `BrushIsFrozen`
follows a stroke through the channel, the document, the undo stacks and the
screen: its brush is the one of its Down. `StaleOnlyInFlight`: what is computed
from the snapshot is right whenever no command is in flight (the slider sends
what the user dragged it to, and is exempt). `Settles`: when the user pauses,
everything sent is published and no redraw is left, so that the window rests and
painting does not keep itself going. `ImplementsEngine` is the refinement to
`Engine`; with it the invariants of `Engine` hold of the composition.

**Tablets.** `GesturesAreWhole`: per pointer a Down, then Moves, then at most one
end, all of one tool. `HeldIsOpen` and `ActivePenDraws`: a pointer still held has
not been ended, and the pen that silences the mouse is held. The others are each
about one platform: a tool that is away has no stroke left (`AwayIsEnded`,
Wayland); a device taken to be in proximity is known to the adapter, and its
axes are where the server has them once the changes on the wire were handled
(`ProximityIsKnown`, `LayoutIsCurrent`, X11; the latter of every device but the
`missed`, whose changes nobody told the backend of); a live pen, which silences the
fingers, draws (`LivePensDraw`, web); a late estimate finds the pointer of its
sample, once (`RevisionsFindTheirSample`, iOS). `PalmsAreRejected`: no step
tells the app of a finger while the adapter draws with a pen (web), or while a
pen is in range and no other has left since it came (Windows). It relates two
things the code keeps apart: the flag or set that the gate reads, and the
contacts of the adapter or the pens there are. What it excuses on Windows is
what the code cannot tell, and does happen (section 5).

**App.** `EngineDrawsActive` is the agreement of app and engine;
`EndsAreDelivered` says that the end of a gesture can be late but not lost;
`ActiveNotSuppressed` that swallowing one gesture never swallows the next;
`PenIsNotMouse` that the duplicated events never draw twice;
`LiftedStrokesAreFinal` that a stroke the user lifted the pen from has no
estimate left.

### Bounds

The counters that would grow for ever are capped by constants named in the
guards: `MaxStrokes`, `MaxLayers`, `MaxSamples`, `MaxHistory` in `Engine`,
`MaxSends` in `Actor` and `Frontend`, `MaxStrokes` and `MaxPointers` in `App`,
`MaxEvents`, `MaxWire` and `MaxUpdates` in `Tablets`.

- `engine_history` has two strokes, three layers (one may be removed while two
  can be reordered around it) and four undo entries, so an edit can follow
  partly undone ones with entries on both sides. Samples do not matter to it
  and there is one per stroke. About 260,000 states. For all of its properties
  the proofs cover every other instance.
- `engine_revisions` has two strokes of two samples, both of which may wait for
  the same update index, two attribute values, two layers and three undo
  entries: a layer with a revised stroke can be removed, restored and removed
  again. About 710,000 states. The proofs cover every other instance.
- `actor` has two commands and four sends: batches of one and of several, and a
  shutdown before, in and after one. The proofs cover every other instance.
- `frontend` has three sends, three widths, two window sizes, eight widgets and
  three keys: a Down, an end and an undo, or a change between a Down and its
  end, each at any distance from the engine. The widgets left out (`Bottom`,
  `MoveDown`, the menu's undo and redo) and the other brush keys send what those
  that are in do, with another argument. About 356,000 states.
- `app` has one mouse, one finger and one pen, three strokes and three minted
  pointers: a gesture in progress, one that interrupts it and one that follows.
  About 190,000 states. The proofs cover every number of fingers and any queue;
  `EndsAreDelivered` and `LiftedStrokesAreFinal` hold, and are proved, for one pen
  only: with a second in `MCApp.cfg` TLC finds both violated (section 4).
- `tablets` has three devices, one of them the device 0 that Windows names, one
  a tool (an eraser) on Linux; two pens on Windows; two contacts, a pen and a
  finger on the web and Android. The app is told five things on Wayland, the web
  and Android, four on iOS, three on X11 and Windows: a gesture, or its lack,
  and what follows it (three are enough for a Down of two samples and its Up). The X server may be two events ahead. The proofs cover
  every other instance.

`MCTablets` and `MCFrontend` turn deadlock checking off: the queue of the first
is bounded, and the application of the second may be closed and its thread
joined. Elsewhere it is on: `Actor` has a `Done` step for the dropped handle, and
in the others some event is always possible.

### Fairness

Only `Actor` and `Frontend` assume any. In `Actor`, `WF(ActorStep)`: the
operating system runs the thread, and a thread that can take a command does so. `WF(Join)`: the joiner wakes up
when the thread has ended. `Frontend` has the same of the thread (`WF(Engine)`),
and `WF(Frame)`: winit delivers a redraw that was requested. Nobody is assumed to
send, to drop, to click or to lift a pen; `Settles` is about a user who at some
point does nothing (`UserGoesOn` is the other case). The bound on sends hides one
thing: the drain loop publishes only when it finds the channel
empty, so a sender that was always faster than `apply` could starve the readers.
Commands come from a hand, and this is listed as a hazard.

## 4. What is proved

For every value of the constants, by TLAPS:

| Theorem | Says |
|---|---|
| `EngineProofs!TypeCorrect` | `TypeOK` is an invariant of the engine |
| `EngineProofs!ActiveLayerAlwaysExists` | the active layer is a layer of the document, and so there is one |
| `EngineProofs!StrokeTargetAlwaysExists` | the layer a stroke in flight will be committed to is in the document |
| `EngineProofs!EngineNeverPanics` | the `expect` of `EndStroke` never fails |
| `EngineProofs!InductiveInvariant` | the conjunction the four follow from |
| `EngineProofs!PreviewAlwaysCommits` | what is drawn of a stroke in flight is what ending it commits |
| `EngineProofs!LayerIdsStayUnique` | no two layers of one id |
| `EngineProofs!StrokesStayUnique` | no stroke in the document twice |
| `EngineProofs!HistoryAlwaysApplies` | what undo or redo pops applies |
| `EngineProofs!HistoryInvariant` | the invariant the three follow from |
| `TimelineProofs!StacksCoverVersions` | the stacks have one entry for each version before and after the current one (`HistoryCoversVersions`) |
| `TimelineProofs!HistoryIsTimeline` | the engine implements `UndoTimeline` (`ImplementsTimeline`) |
| `TimelineProofs!LineInvariant` | the invariant the two follow from |
| `CopyProofs!StrokesKeepTheirLayer` | every copy of a stroke is on the layer it was drawn on (`StrokesStayOnTheirLayer`) |
| `CopyProofs!RevisionsAreNeverLost` | every copy of a stroke has every finalised sample (`RevisionsSurviveUndo`) |
| `CopyProofs!PropsAreNeverLost` | every copy of a layer has the attributes last set (`PropsSurviveUndo`) |
| `CopyProofs!ReloadGivesTheDocument` | what is saved is what loading gives back (`ReloadKeepsDocument`) |
| `CopyProofs!LoadedIdsStayFresh` | loading gives unique ids below the counters and an active layer (`LoadedIdsAreFresh`) |
| `CopyProofs!CopiesInvariant` | the invariant the five follow from |
| `ActorProofs!NoPartialBatch` | at every moment a reader sees the document as the last whole batch left it (`PublishedBetweenBatches`) |
| `ActorProofs!ExitsClean` | the thread exits with an empty channel and everything published |
| `ActorProofs!ActorInvariant` | the conjunction the two follow from |
| `ActorProofs!HandleIsLog` | handle and thread implement the safety part of `CommandLog` |
| `TabletProofs!TabletTypes` | `TypeOK` is an invariant of every platform |
| `TabletProofs!GesturesStayWhole` | every pointer has one Down, then Moves of its tool, then at most one end (`GesturesAreWhole`) |
| `TabletProofs!SilencingPenDraws` | what silences the mouse is a pen that draws (`ActivePenDraws`) |
| `TabletProofs!HeldGesturesAreOpen` | no device or contact holds a pointer whose gesture ended (`HeldIsOpen`) |
| `TabletProofs!AwayToolsAreEnded` | Wayland: `AwayIsEnded` |
| `TabletProofs!NearDevicesAreKnown`, `CachedLayoutsAreCurrent` | X11: `ProximityIsKnown`, `LayoutIsCurrent` (of the devices that are not `missed`) |
| `TabletProofs!LivePensAreKnown` | the web: `LivePensDraw` |
| `TabletProofs!RevisionsAreOfSamples` | iOS: `RevisionsFindTheirSample` |
| `TabletProofs!PalmsStayRejected` | the web and Windows: the action property `PalmsAreRejected`, with its exception for a pen that another has left |
| `TabletProofs!TabletInvariant` | the invariants, one for each platform, the nine follow from |
| `AppProofs!AppTypes` | `TypeOK` is an invariant of the app |
| `AppProofs!AppDrawsActive` | app and engine agree on the stroke in flight (`EngineDrawsActive`) |
| `AppProofs!ActiveStaysUnsuppressed` | what draws is not swallowed (`ActiveNotSuppressed`) |
| `AppProofs!PenIsNeverMouse` | the action property `PenIsNotMouse` |
| `AppProofs!MouseEndsDelivered` | the end of a mouse gesture is never lost, with any number of pens |
| `AppProofs!EndsDelivered` | nor is that of any other gesture (`EndsAreDelivered`), with one pen |
| `AppProofs!LiftedAreFinal` | a stroke ended by a lift has no estimate left (`LiftedStrokesAreFinal`), with one pen |
| `AppProofs!FocusLossEndsOnePen` | losing the focus ends every gesture, with one pen |
| `AppProofs!AppInvariant` | the invariant the eight follow from |
| `FrontendProofs!FrontendImplementsEngine` | the application's engine implements `Engine` (`ImplementsEngine`) |
| `FrontendProofs!ApplicationKeepsHistory` | what is proved of the engine's history holds inside the application |
| `FrontendProofs!SnapshotStaleOnlyInFlight` | the action property `StaleOnlyInFlight` |
| `FrontendProofs!StrokesKeepTheirBrush` | a stroke has the brush it was begun with, wherever it is (`BrushIsFrozen`) |
| `FrontendProofs!FrameIsTheScene` | a frame presents exactly its scene (`PictureIsScene`) |
| `FrontendProofs!FrontendInvariant` | the invariant the five follow from |

**Engine.** The inductive invariant `IInv` is `TypeOK`, `ActiveLayerExists`,
`StrokeTargetExists` and `NeverPanics` together. No one of them is inductive by
itself: that `EndStroke` does not panic needs the target to exist, that the
target exists needs the layer captured by `BeginStroke`, the active one, to
exist, and that the active layer exists after an edit needs the types of the
entries on the stacks. It needs nothing about *which* entries the stacks hold:
`RemoveLayer` refuses to empty the stack and picks a sibling when it takes the
active layer, so every edit that applies leaves an active layer, and the
commands that can take a layer away (`RemoveLayer`, and `Undo` and `Redo` of
what they may hold) are refused while a stroke is in flight.
`DocumentProofs` has the lemmas about the edits: `CanApply` is enough for each
result to have its type, for the active layer to exist after it, and for the
inverse to be an edit. The proof of each action is a lemma of its own; the
theorems only collect them.

**History.** That an entry applies, and that it does not put a stroke or a layer
into the document a second time, depends on the document it is popped in, which
is not the one it was computed against. `HInv` says what of that document
matters. `Contents(layers)` is the set of what is where: a pair of the layer's
id and 0 for each layer, and of the layer's id and the stroke's for each stroke.
Order and attributes are left out, which is why `MoveLayer` and the setters do
not disturb it. `Links(e, S, T)` says that the edit `e` turns contents `S` into
`T` and is sure to apply on `S`; `Chain` says that the entries of a stack, from
its top, link the contents of the document to another set, that to the next, and
so on. `HInv` is `IInv`, unique ids in the document (`Distinct`), a chain for
`past` and one for `future`, with every set in them made of ids already minted,
and that a stroke in flight has a minted id that is not in the document. Each
part is needed for the others: a popped entry applies because the chain's first
link is from the document's contents; its inverse links back, so the other stack
is a chain again; a commit adds a stroke or a layer that the document does not
have, since a layer gets an id not minted before and the stroke in flight is
known not to be there; and a commit clears `future`, whose chain would no longer
start at the document. (Nothing need be known of a stroke id in the other
versions: no undo runs while a stroke is in flight.)

**The undo line.** `HistoryIsTimeline` is about what undo and redo *give*, and
contents are too little for that: a version is the layers in their order, each
with its strokes in theirs (`Structure`). `LineInv` is `HInv` and `Line`, which
lays the two stacks along the versions: as many entries below the current
version as there are versions before it, as many above as after it, and each
entry `Moves` the version on its one side to the version on its other. That is
what has to survive when an entry is popped, applied, and its inverse pushed on
the other stack: an edit and its inverse lead along the same pair of versions in
opposite directions. For `MoveLayer` and the two pairs of inverse edits this is
a matter of positions in sequences (`RemoveThenInsert`, `InsertThenRemove`): a
layer goes back to the index it had, a stroke is the last of its layer, which is
why a stroke can be taken away without naming its place. Revisions and
attributes leave the structure as it is (`StaysPut`). `StacksCoverVersions` is
the count in `Line`; the refinement is each action mapped to one of
`UndoTimeline` or to a stutter.

**Copies.** What the history does not record is in the payloads of its entries:
a removed layer carries its strokes, with the samples and attributes they have.
`CopyInv` says of every copy, in the document, in an undo payload or in flight,
what the history variables say of its stroke or layer (`Kept`). It is inductive
because edits conserve copies: an edit moves what it takes away into its inverse
and makes nothing twice (`Conserves`). A revision or an attribute, though, is
changed in one place, so that place has to be the only one: there must be no
other copy of a stroke that is in the document. That follows from the undo line
(`VersionsInv`): along it a stroke or a layer is in consecutive versions and no
others (`Contiguous`), since a new one is minted for the last version only and
no version contains what was not minted; and an entry that holds a copy lies
between a version that has it and one, nearer to the document, that does not. If
the document had it too, its versions would not be consecutive.
`ReloadGivesTheDocument` is then a matter of the active layer existing.
`LoadedIdsStayFresh` rests on the copies being of minted ids and on unique ids.
The version 1 file is all strokes in one list, which the library makes with a
recursive function: that it has exactly the strokes of the layers is proved by a
least counterexample over the length and not by induction (`ConcatTo`).

Assumptions: the bounds are natural numbers, `UpdateIndexes` has no 0, and
`DefaultProps` is one of `LayerProps`. TLC evaluates them in the runs.

**Actor.** `ActorInv` adds to the types that `Shutdown` is nowhere in the channel
but at its end, at most once, that nothing is sent after it, and that it is
either still there or `stop` is set. From that follows that the batch in which
the thread took it is the last, so that the channel is empty when it exits.
`Apply` and `Snapshot` are arbitrary operators. Assumption: `Shutdown` is not
one of the other commands. For `NoPartialBatch`, `SettledInv` adds that the
snapshot is of `settled`, and that `settled` is the state whenever the thread is
between two batches: within a batch neither `settled` nor the snapshot changes,
and publishing sets both to the state. The refinement takes the engine state to be the list of
commands applied (`StateIsLog`, which is what `MCActor` gives TLC; any other
state is a function of it) and adds to the invariant that what a reader sees is
a prefix of the state (`SeenIsPrefix`). Taking a command then moves it from the
channel to the state and leaves the log as it was; publishing extends what is
seen; and the join finds the channel empty and the state published.

**Tablets.** The proof has three floors. At the bottom are slots: a device and a
contact are both a place that holds a pen, and `SlotInv` relates the slots to
the queue. A pointer below the next one to be minted has a gesture, and a whole
one; a slot that draws holds an open gesture of its own tool; no two slots hold
one pointer; the pointer that silences the mouse is held by a slot that is no
finger. Four things can happen: a slot goes down under a new pointer, is moved,
is ended, or something is told of no gesture (`SlotDown`, `SlotMove`, `SlotEnd`,
`SlotAside`). The parts need each other: a Move keeps its gesture whole only if
the gesture is open, it stays open for the others only if they hold other
pointers, and a Down opens a gesture only if its pointer has none, which is what
the bound on all pointers in the queue says. On the next floor each handler of
`TabletHandlers` is shown to do one of the four, to the slot it names and no
other (`PenRawKeeps`, `PenProximityKeeps`, `StartContactKeeps`,
`ContinueContactKeeps`, `ContactLeavesKeeps`, `HoverKeeps`), and to tell of a
finger only if it is given one (`Follows`, from which, with the flags being up
when they should, `PalmsStayRejected`). A
Down that does not silence the mouse needs care: it takes the slot from whatever
drew there, which must then not have been the silencing pen. It is a finger's,
and the invariants of the platforms say that its slot never held anything else.

On top, one invariant for each platform says how the backend and what drives it
agree with the adapter:

- Wayland (`WaylandTool`): a tool that is away draws nothing, or its leave is
  among the pending axes, with no Down that would open a stroke after it; a
  tool that was not described yet draws nothing.
- X11: a device that is cached and near has its entry; each device's cache is
  the server's, or an event that will make it so is on the wire, or the device is
  among the `missed`.
- Windows: the device of the range messages never draws; contacts are fingers;
  the flag is up while a pen is near that none has left (`WindowsFlag`).
- The web (`WebInv`): a live pen is down, what is down is captured, the pens that
  are live are those that have a contact; a contact's tool is a finger's just if
  it is one.
- iOS (`IosTold`): an awaited update is of a sample that was told and not
  revised; each revision is of one; indexes are below the next.
- Android: a contact's tool is the one its kind has.

One message of Windows and one event of the web carry one or two samples, which
the library folds with a recursive function; the proofs evaluate it on the two
domains there are (`WebDrains`, `WindowsDrains`). Assumptions: devices, tools,
erasers and pens are subsets of each other as the code has them, the bounds
`MaxEvents` and `MaxUpdates` are natural numbers. TLC evaluates them in the run.

**App.** What becomes of a gesture is decided when its events are handled, which
may be long after they were queued. So the invariant is not about the app as it
is, but about the app after the first `k` events of the queue (`After`): between
two events of the user `k` is 0, and the loop of `route_input` takes it to the
length of the queue (`EventFollows`, `QueueIsHandled`). A pointer the app draws
with or swallows is `InProgress`: it goes down again only behind its end
(`Reopens`), and its end is among the events ahead or it is still tracked
(`Ending`). An estimate of the active stroke is `Revised`: it is pending or its
revision is ahead, and before any Up. The same is said of each Down in the
queue, at its place, because it will be the active one. `Slots` says of the
adapter that no two slots hold one pointer and that each holds a minted one, and
`InHand` that what draws in the adapter is held down by the user, except for what
the adapter was not told of. Each handler adds events that fit what it does to
the slots (`FitsGesture`, `FitsEstimates`): an end for what is no longer
tracked, a Down only of what was not. `AfterGrows` is the lemma that such events
may be added at the end of any queue. The folds over the queue and over the
touches of a lost focus are recursive functions; that they do one step at a time
is proved from a least counterexample and not by induction (`FoldSteps`).

Three of these theorems assume `OnePen`. `on_focus_lost` cancels the active pen
and no other (`adapter/mod.rs:315`), but forgets the estimates of all of them.
TLC shows with two pens that each of the three is then violated: the pen that was
not cancelled keeps its gesture without its estimates, and may go down again
without having ended. Other assumptions:
the bounds are natural numbers, and mouse, fingers and pens are different things.
TLC evaluates them in the runs.

**Frontend.** `Implemented` is `Engine` with the state of the actor thread, the
brush projected away (`PlainLayer`, `PlainEdit`). The lemmas about the edits have to
be carried over that projection: that an edit applies, what it gives and what undoes
it are the same with and without the brush (`PlainCanApply`, `PlainAfter`,
`PlainInverse`), because the projection keeps ids and places. Each arm of `apply`
is then an action of `Engine` or a stutter (`ApplyIs` names what it changes). Two
things of `Engine` are not local to the arm. `BeginStroke` there mints the next id,
while here the id comes through the channel: `Numbered` says that the strokes in
the channel have, in order, the ids after those begun. And the bounds of `Engine`
are here a bound on sends: `Budget` counts every command either as spent, on a
stroke, a layer, a sample or an entry of the history, or as pending. `FInv` is the
types, these two, and the engine's `HInv`, taken from `EngineProofs` by the
instance `Proved` of the same substitution: its lemmas hold of every step that
is one of `Engine`. `HInv` is not only inherited but needed: a snapshot is well
typed only if the layer of the stroke in flight exists. What the theorems of
`EngineProofs` say of any commands then holds inside the application too
(`ApplicationKeepsHistory`).

`BrushIsFrozen` follows from ids below the counter (`Frozen`) and from what an
arm can do to the strokes held in the document, the payloads and in flight:
none but `BeginStroke` brings in a pair of id and brush that was not there
(`HeldChanges`), and that one has the next id. `StaleOnlyInFlight` needs
that, when the channel is empty and the thread waits, the snapshot is the state's.

`PictureIsScene` compares four nested folds, over the strokes of a layer, the
layers to paint and the layers to blend, with a fold over the layers. A fold of
the library is a recursive function on subsets; `FoldExists` and `FoldValues` turn it into
a function on the length of the prefix, and statements about that are proved by
`SetInduction`: a set with 0 and the successor of each member has all natural
numbers, by the well-foundedness of < on them. So for every prefix of the strokes
the substrate of their layer has these strokes and no other substrate changed
(`LayerPainted`, `OnlyOn`), for every prefix of the layers the substrates behind
it are still blank and those in it painted (`LayersPainted`), and for every prefix
the composite is the picture of that prefix (`LayersBlended`). What a substrate
held before the frame does not come in, because clearing leaves both fronts blank
whichever side is the front. `Painting` adds that layers of a snapshot have
distinct ids, which is the engine's: two layers of one id would share a substrate.

Assumptions: keys are the six that are bound, `MaxSends` is a natural number, and
attributes have a visibility that may be set by itself. TLC evaluates them in the
runs of `Frontend`.

**Only model-checked**: what has to come eventually, that is, the catching-up in
`ImplementsLog`, `DropReturns` and `Settles`. Liveness under fairness is beyond
the prover. Every invariant and action property of the passing runs, and each
refinement but for that part of it, is a theorem. The statements of section 5
are violated, and so are not theorems.

## 5. Where the documents and the code differ

- `revise_sample` (`aj-core/src/lib.rs:314`) looks at the last stroke of each
  layer only; its doc says it scans every layer's strokes. A revision that
  arrives after the next stroke on the same layer is dropped. (`engine_revise`)
- A Down overwrites the active stroke whatever pointer drives it, in the app and
  in the engine, so a second finger discards what the first one is drawing; the
  documents promise that a stroke begun on the canvas runs to completion.
  (`app_lost`)
- The monitor clears `active_pen_pointer` before winit's button release reaches
  the chrome gate of `route_input`. Over chrome the gate then closes and the
  pen's Up stays queued, so its stroke stays in flight until some later event
  off chrome. `EndsAreDelivered` shows that it is then ended. (`app_stranded`)
- A stroke ended by a Cancel is committed like any other, but its pending
  revision was discarded, so that history holds an estimate. (`app_estimates`)
- On the web the gate that rejects palms drops every event of a finger while a
  pen is live, its pointerup included, so a finger lifted then goes on drawing;
  the module says that pointermove and pointerdown are dropped.
  (`tablets_fingers`)
- The window asks for a redraw when a command is sent, and after a menu or panel
  command not at all; the frame may be painted before the actor publishes, and
  then the screen keeps the document without its last command until something
  else happens. The architecture notes have the redraw after the snapshot.
  (`frontend_redraw`)

Met while modelling and not run as checks of their own: `on_focus_lost` cancels
one pen, the one that drew last, where its comment and `dataflow.md:74-75` have
every active pointer cancelled (a second pen in `MCApp.cfg` shows it); shortcuts are resolved
against the published snapshot, which is not the live brush (`ui.rs:63-67`) while
commands are in flight (`StaleOnlyInFlight` says when it is); the X11 backend
counts on proximity events it does not select; it queries the devices and selects
their events in two round trips, so that a device that changes in between, or at
install, announces nothing and keeps its old axes in the cache, where the comment
at `linux_x11_tablet.rs:487-488` has the indices stay accurate (`missed` in
`X11Tablet`); its cache drops devices that are disabled, but the hierarchy events
that tell of enabling and disabling are not acted on; on Windows the range events
reach no pen, and the one flag of palm rejection is cleared when any pen leaves,
though another is still near (`outlived` in `WindowsTablet`); the mouse messages
that old drivers make of a pen's, which `windows_tablet.rs:22-24` says are
swallowed too, are passed on; a Down message with history begins a pointer for
each sample, of which the last alone is ended; predicted samples, which `web_pointer.rs:19-22` says the engine discards,
would be committed; and the Wayland Down without motion of section 2.

## 6. Not modelled, and why

- Floating-point code: viewport, colour conversion and the picker, pigment
  mixing, ribbon tessellation, shaders and pipelines, the page's border. It has
  neither interleavings nor finite states worth enumerating.
- The page's size and clipping, and the brush's colour, type and minimum width:
  setters that overwrite fields nothing else in the engine reads.
- Widget layout, the key table and the resolver that maps a key to an action,
  logging, start-up failures, GPU errors other than a lost surface.
- Installation and teardown of the tablet backends, and the decoding of axis
  values into pressure, tilt and position.
- The serde encoding, which is derived, and the empty crates (`aj-effects`,
  `aj-format`, `aj-convert`).
- In the adapter: a barrel button, which is listed as a hazard without a
  property.

## 7. Plan

What is done: the engine, its history, actor and persistence; input on every
platform; the application around the engine; and proofs of every safety property
the passing runs check. What could follow:

1. The barrel button in `Adapter` and `App`, and a focus loss that cancels every
   pen, should the code be changed to do so.
