------------------------------- MODULE Frontend -------------------------------
(***************************************************************************)
(* The application around the engine (aj-app: App, ui.rs, shortcuts.rs and *)
(* the panels): the main thread turns the user's input into commands and   *)
(* paints the snapshot the actor thread published last.                    *)
(*                                                                         *)
(* The window is in ControlFlow::Wait: the main thread paints only when a  *)
(* redraw was requested. A click is noticed by egui, which asks for a      *)
(* redraw, and takes effect in that frame, against the snapshot the frame  *)
(* reads. A key, and a pointer on the canvas, take effect at once, against *)
(* the snapshot of that moment. App.tla has which pointer draws; here one  *)
(* does. The view (zoom, pan) only asks for a redraw.                      *)
(***************************************************************************)
EXTENDS EngineApply

CONSTANTS
    Widgets,    \* what the user clicks
    Keys,       \* the bound keys the user presses
    Sizes,      \* the sizes the window takes
    MaxSends    \* bound on the commands sent

ASSUME KeysAssumption == Keys \subseteq {"Undo", "Redo", "[", "]", "Alt[", "Alt]"}
ASSUME SendsAssumption == MaxSends \in Nat

VARIABLES
    channel, sends, handle, pc, stop, state, snapshot,  \* as in Actor.tla
    redraw,         \* a RedrawRequested event is due
    click,          \* the click egui holds for the next frame
    drawing,        \* the stroke of the pointer that draws (App::active)
    nextStrokeId,   \* the counter behind StrokeId::next
    panel,          \* App::brush_panel_visible: the right panel is drawn
    size,           \* of the window
    shown,          \* the snapshot on the screen
    textures        \* the StrokeCompositor

Thread == INSTANCE Actor WITH
    Commands <- {}, Shutdown <- Do("Shutdown"), InitialState <- NewEngine,
    Apply <- ApplyCommand, Snapshot <- SnapshotOf

Painter == INSTANCE Compositor

NoClick  == "none"
NoActive == 0

engineVars == <<channel, sends, handle, pc, stop, state, snapshot>>
frameVars  == <<shown, textures>>
inputVars  == <<redraw, click, drawing, nextStrokeId, panel, size>>
vars       == <<engineVars, frameVars, inputVars>>

Init ==
    /\ Thread!Init
    /\ redraw = TRUE
    /\ click = NoClick
    /\ drawing = NoActive
    /\ nextStrokeId = 1
    /\ panel = TRUE
    /\ size \in Sizes
    /\ shown = DefaultSnapshot
    /\ textures = Painter!NewCompositor(size)

\* A click is sure of its command.
MaySend == sends < MaxSends - (IF click = NoClick THEN 0 ELSE 1)

Send(cmd) == MaySend /\ Thread!Send(cmd)

(***************************************************************************)
(* Clicks. A widget shows, and acts on, the snapshot of the frame; one     *)
(* that is disabled or gone in this frame does nothing.                    *)
(***************************************************************************)
ViewWidgets == {"ZoomIn", "PageBounds", "BrushPanel"}

\* draw_menu_bar. The view widgets that send nothing only change the view.
MenuCommands(widget, snap) ==
    CASE widget = "Undo"       -> IF snap.canUndo THEN {Do("Undo")} ELSE {}
      [] widget = "Redo"       -> IF snap.canRedo THEN {Do("Redo")} ELSE {}
      [] widget = "PageBounds" -> {Set("SetShowBounds", ~snap.showBounds)}
      [] OTHER                 -> {}

\* The width slider of the brush section: any width but the one it shows.
BrushCommands(widget, snap) ==
    {Set("SetBrushMaxWidth", w) :
        w \in IF widget = "MaxWidth" THEN (0..MaxWidth) \ {snap.brush.width} ELSE {}}

\* The layers section: its toolbar, about the active layer, and the names of
\* the bottom and top rows and the eye of the active one.
LayerCommands(widget, snap) ==
    LET layers == snap.scene.layers
        active == snap.activeLayer
        at     == Position(layers, active)
        choose == [Bottom |-> 1, Top |-> Len(layers)]
    IN  CASE widget = "AddLayer" -> {Do("AddLayer")}
          [] widget = "Remove"   /\ Len(layers) > 1          -> {On("RemoveLayer", active)}
          [] widget = "MoveUp"   /\ at \in 1..Len(layers) - 1 -> {SetOn("MoveLayer", active, at + 1)}
          [] widget = "MoveDown" /\ at > 1                   -> {SetOn("MoveLayer", active, at - 1)}
          [] widget = "Eye"      /\ at > 0                   ->
                {SetOn("SetLayerVisible", active, ~layers[at].props.visible)}
          [] widget \in DOMAIN choose /\ layers # << >> /\ at # choose[widget] ->
                {On("SetActiveLayer", layers[choose[widget]].id)}
          [] OTHER               -> {}

\* The commands a click may send: one of them, or none.
ClickCommands(widget, snap) ==
    MenuCommands(widget, snap)
        \cup (IF panel THEN BrushCommands(widget, snap) \cup LayerCommands(widget, snap) ELSE {})

Click(widget) ==
    /\ handle = "open" /\ click = NoClick
    /\ MaySend
    /\ click' = widget
    /\ redraw' = TRUE
    /\ UNCHANGED <<engineVars, frameVars, drawing, nextStrokeId, panel, size>>

(***************************************************************************)
(* App::render. The snapshot is read once. Menu and panel commands do not  *)
(* request a redraw; view actions do. When the surface was lost the frame  *)
(* is given up, and nothing asks for another.                              *)
(***************************************************************************)
Render(lost) ==
    /\ handle = "open" /\ redraw
    /\ LET commands == ClickCommands(click, snapshot)
       IN  IF commands = {} THEN UNCHANGED engineVars
           ELSE \E cmd \in commands : Thread!Send(cmd)
    /\ click' = NoClick
    /\ redraw' = (click \in ViewWidgets)
    /\ panel' = (panel # (click = "BrushPanel"))
    /\ IF lost THEN UNCHANGED frameVars
       ELSE /\ shown' = snapshot
            /\ textures' = Painter!Render(textures, snapshot.scene, size)
    /\ UNCHANGED <<drawing, nextStrokeId, size>>

(***************************************************************************)
(* Keys.                                                                   *)
(***************************************************************************)
\* BrushAction::dispatch of the relative actions, against the brush `live'.
WidthKey(delta, live) == Set("SetBrushMaxWidth", live.width + delta)
RatioKey(delta, live) == Set("SetBrushMinRatio", live.ratio + delta)

\* on_keyboard: the commands a key sends, against the snapshot `snap'.
KeyCommands(key, snap) ==
    CASE key = "Undo" -> IF snap.canUndo THEN {Do("Undo")} ELSE {}
      [] key = "Redo" -> IF snap.canRedo THEN {Do("Redo")} ELSE {}
      [] key = "["    -> {WidthKey(-1, snap.brush)}
      [] key = "]"    -> {WidthKey(1, snap.brush)}
      [] key = "Alt[" -> {RatioKey(-RatioStep, snap.brush)}
      [] key = "Alt]" -> {RatioKey(RatioStep, snap.brush)}

\* Mutant of Key: relative to the brush on the screen.
KeyOnScreen(key) ==
    /\ handle = "open"
    /\ \E cmd \in KeyCommands(key, shown) : Send(cmd)
    /\ redraw' = TRUE
    /\ UNCHANGED <<frameVars, click, drawing, nextStrokeId, panel, size>>

\* A key whose action is disabled does nothing.
Key(key) ==
    /\ handle = "open"
    /\ \E cmd \in KeyCommands(key, snapshot) : Send(cmd)
    /\ redraw' = TRUE
    /\ UNCHANGED <<frameVars, click, drawing, nextStrokeId, panel, size>>

\* A zoom key, the wheel, a pinch, a new scale factor.
Zoom ==
    /\ handle = "open"
    /\ redraw' = TRUE
    /\ UNCHANGED <<engineVars, frameVars, click, drawing, nextStrokeId, panel, size>>

(***************************************************************************)
(* The pointer that draws (on_sample).                                     *)
(***************************************************************************)
\* Down on the canvas: the stroke is stamped with the published brush.
Down ==
    /\ handle = "open" /\ drawing = NoActive
    /\ Send(Begin(nextStrokeId, snapshot.brush))
    /\ drawing' = nextStrokeId
    /\ nextStrokeId' = nextStrokeId + 1
    /\ redraw' = TRUE
    /\ UNCHANGED <<frameVars, click, panel, size>>

Move ==
    /\ handle = "open" /\ drawing # NoActive
    /\ Send(On("AddSample", drawing))
    /\ redraw' = TRUE
    /\ UNCHANGED <<frameVars, click, drawing, nextStrokeId, panel, size>>

\* Up, Cancel, or a Move after egui claimed the pointer.
Finish(op) ==
    /\ handle = "open" /\ drawing # NoActive
    /\ Send(On(op, drawing))
    /\ drawing' = NoActive
    /\ redraw' = TRUE
    /\ UNCHANGED <<frameVars, click, nextStrokeId, panel, size>>

(***************************************************************************)
(* The window.                                                             *)
(***************************************************************************)
Resized(new) ==
    /\ handle = "open" /\ new # size
    /\ size' = new
    /\ redraw' = TRUE
    /\ UNCHANGED <<engineVars, frameVars, click, drawing, nextStrokeId, panel>>

\* CloseRequested: the event loop exits and the App is dropped, and with it
\* the engine's handle.
Close == Thread!Drop /\ UNCHANGED <<frameVars, inputVars>>

Input ==
    \/ \E widget \in Widgets : Click(widget)
    \/ \E key \in Keys : Key(key)
    \/ Zoom
    \/ Down \/ Move \/ Finish("EndStroke") \/ Finish("CancelStroke")
    \/ \E new \in Sizes : Resized(new)
    \/ Close

Frame == \E lost \in BOOLEAN : Render(lost)

Engine == (Thread!ActorStep \/ Thread!Join) /\ UNCHANGED <<frameVars, inputVars>>

Next == Input \/ Frame \/ Engine

\* The operating system runs both threads, and winit delivers the redraw that
\* was requested. The user owes nothing.
Fairness == WF_vars(Frame) /\ WF_vars(Engine)

Spec == Init /\ [][Next]_vars /\ Fairness

(***************************************************************************)
(* Properties.                                                             *)
(***************************************************************************)

\* What a frame of the scene should show: the layers that are visible or
\* drawn on, bottom first, each with all its strokes in order.
Picture(scene) ==
    FoldLeft(LAMBDA below, l :
                 IF l.props.visible \/ l.id = scene.activeStrokeLayer
                 THEN Append(below, [paint |-> l.strokes, props |-> l.props])
                 ELSE below,
             << >>, scene.layers)

\* The textures that outlive frames, resizes and layers, and the swapping of
\* their sides, never show: what is presented is the scene the frame read.
PictureIsScene == Painter!Canvas(textures) = Picture(shown.scene)

StrokesOf(layers) == UNION {{layers[p].strokes[i] : i \in DOMAIN layers[p].strokes} : p \in DOMAIN layers}

StrokesIn(e) ==
    CASE e.op = "AddStroke" -> {e.stroke}
      [] e.op = "AddLayer"  -> StrokesOf(<<e.layer>>)
      [] OTHER              -> {}

Stamps ==
    LET strokes == ({state.active} \ {NoStroke})
                       \cup StrokesOf(state.layers)
                       \cup (UNION {StrokesIn(state.past[i]) : i \in DOMAIN state.past})
                       \cup (UNION {StrokesIn(state.future[i]) : i \in DOMAIN state.future})
                       \cup StrokesOf(snapshot.scene.layers) \cup StrokesOf(shown.scene.layers)
        begins  == {channel[i] : i \in {j \in DOMAIN channel : channel[j].op = "BeginStroke"}}
    IN  {<<s.id, s.brush>> : s \in strokes} \cup {<<c.id, c.value>> : c \in begins}

\* "Freeze the current live brush into this stroke" (main.rs, on_sample):
\* wherever a stroke is, in the channel, the document, the undo history or on
\* the screen, and whatever became of the brush, its brush is the one of Down.
BrushIsFrozen == \A a, b \in Stamps : a[1] = b[1] => a = b

\* The brush of the snapshot may lag behind the commands in flight. When none
\* is, what is computed from it is right: a stroke is stamped with the live
\* brush and a width key (not the slider) steps from the live width.
StaleOnlyInFlight ==
    [][channel = << >> /\ pc = "recv" /\ channel' # << >> =>
          LET cmd == Last(channel')
          IN  /\ cmd.op = "BeginStroke" => cmd.value = state.brush
              /\ cmd.op = "SetBrushMaxWidth" /\ UNCHANGED click =>
                    cmd.value \in {state.brush.width - 1, state.brush.width + 1}]_vars

UserGoesOn == []<><<Input>>_vars

\* When the user pauses the application comes to rest, and not before all
\* that was sent is published: painting does not keep asking for a redraw.
Settles ==
    UserGoesOn \/ <>[](/\ channel = << >>
                       /\ handle = "open" => ~redraw
                       /\ sends > 0 => snapshot = SnapshotOf(state))

(***************************************************************************)
(* The application implements the engine of Engine.tla: each command the   *)
(* actor applies is a step of it, or changes nothing.                      *)
(***************************************************************************)
Plain(stroke) == [id |-> stroke.id, samples |-> stroke.samples]

PlainLayer(layer) == [layer EXCEPT !.strokes = [i \in DOMAIN @ |-> Plain(@[i])]]

PlainEdit(e) ==
    CASE e.op = "AddStroke" -> [e EXCEPT !.stroke = Plain(@)]
      [] e.op = "AddLayer"  -> [e EXCEPT !.layer = PlainLayer(@)]
      [] OTHER              -> e

Each(op(_), seq) == [i \in DOMAIN seq |-> op(seq[i])]

\* Strokes count as begun once the actor took the command.
Begun == nextStrokeId - Cardinality({i \in DOMAIN channel : channel[i].op = "BeginStroke"})

Implemented == INSTANCE Engine WITH
    MaxStrokes <- MaxSends, MaxLayers <- MaxSends + 1,
    MaxSamples <- MaxSends, MaxHistory <- MaxSends,
    layers <- Each(PlainLayer, state.layers), activeLayer <- state.activeLayer,
    active <- Plain(state.active), activeStrokeLayer <- state.activeStrokeLayer,
    past <- Each(PlainEdit, state.past), future <- Each(PlainEdit, state.future),
    nextStrokeId <- Begun, nextLayerId <- state.nextLayerId, panicked <- FALSE

ImplementsEngine == Implemented!Spec

(***************************************************************************)
(* What the documents say and the code does not do.                        *)
(***************************************************************************)

\* architecture/dataflow.md: the engine stores the snapshot, then the window
\* is asked to redraw, then it is rendered. When the user pauses, the screen
\* comes to show the document.
LastFrameIsCurrent == UserGoesOn \/ <>[](handle = "open" => shown = snapshot)

=============================================================================
