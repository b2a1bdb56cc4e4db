----------------------------- MODULE EngineApply -----------------------------
(***************************************************************************)
(* apply(cmd, state) of aj-engine as a function, for the commands aj-app   *)
(* sends: what the actor thread of Actor.tla does with a command, over the *)
(* edits of Document.tla, and the AppSnapshot it publishes. Engine.tla has *)
(* the same arms as actions; Frontend.tla checks that the two agree.       *)
(*                                                                         *)
(* A stroke carries the brush it was begun with. A brush is its maximum    *)
(* width, counted in presses of the width shortcuts, and the ratio of its  *)
(* minimum width to it, which every change of the width preserves.         *)
(***************************************************************************)
EXTENDS Document

CONSTANTS
    MaxWidth,       \* the widest brush; the narrowest is 0
    DefaultWidth    \* BrushParams::default()

ASSUME WidthAssumption == MaxWidth \in Nat /\ DefaultWidth \in 0..MaxWidth

\* Layer.visible is one of the attributes, and may be set by itself.
ASSUME VisibleAssumption ==
    \A p \in LayerProps : /\ p.visible \in BOOLEAN
                         /\ \A v \in BOOLEAN : [p EXCEPT !.visible = v] \in LayerProps

\* Ratios count in fortieths: the default is an eighth, a shortcut a tenth.
FullRatio == 40
RatioStep == 4

DefaultBrush == [width |-> DefaultWidth, ratio |-> 5]

Clamp(n, low, high) == IF n < low THEN low ELSE IF n > high THEN high ELSE n

\* EngineState::new().
NewEngine ==
    [layers |-> <<NewLayer(1)>>, activeLayer |-> 1,
     active |-> NoStroke, activeStrokeLayer |-> NoLayer,
     past |-> << >>, future |-> << >>,
     brush |-> DefaultBrush, showBounds |-> TRUE,
     nextLayerId |-> 2]

(***************************************************************************)
(* Commands.                                                               *)
(***************************************************************************)
Do(op)                == [op |-> op]
On(op, id)            == [op |-> op, id |-> id]
Set(op, value)        == [op |-> op, value |-> value]
SetOn(op, id, value)  == [op |-> op, id |-> id, value |-> value]
Begin(id, brush)      == SetOn("BeginStroke", id, brush)

Drawn(s, id) == s.active # NoStroke /\ s.active.id = id

\* Edit::apply, and History::record of its inverse.
Recorded(s, e) ==
    [s EXCEPT !.layers = LayersAfter(e, @),
              !.activeLayer = ActiveLayerAfter(e, s.layers, @),
              !.past = Append(@, InverseOf(e, s.layers, s.activeLayer)),
              !.future = << >>]

Released(s) == [s EXCEPT !.active = NoStroke, !.activeStrokeLayer = NoLayer]

\* Mutant of EndStroke: the stroke is committed with the brush as it is now.
EndStrokeRestamped(s, id) ==
    LET now == [id |-> id, samples |-> s.active.samples, brush |-> s.brush]
    IN  IF Drawn(s, id) THEN Recorded(Released(s), AddStroke(now, s.activeStrokeLayer)) ELSE s

EndStroke(s, id) ==
    IF Drawn(s, id) THEN Recorded(Released(s), AddStroke(s.active, s.activeStrokeLayer)) ELSE s

\* Mutant of DropLayer: not refused while a stroke is in flight.
DropLayerMidStroke(s, id) ==
    IF CanApply(RemoveLayer(id), s.layers) THEN Recorded(s, RemoveLayer(id)) ELSE s

DropLayer(s, id) ==
    IF s.active = NoStroke /\ CanApply(RemoveLayer(id), s.layers)
    THEN Recorded(s, RemoveLayer(id))
    ELSE s

Reorder(s, id, index) ==
    IF CanApply(MoveLayer(id, index), s.layers) THEN Recorded(s, MoveLayer(id, index)) ELSE s

\* The arms of Undo and Redo: the newest entry of one stack is popped and
\* applied, and its inverse goes to the other; one that fails is lost.
Popped(s, from, to) ==
    LET e      == Last(s[from])
        popped == [s EXCEPT ![from] = Front(@)]
    IN  IF s.active # NoStroke \/ s[from] = << >> THEN s
        ELSE IF ~CanApply(e, s.layers) THEN popped
        ELSE [popped EXCEPT !.layers = LayersAfter(e, @),
                            !.activeLayer = ActiveLayerAfter(e, s.layers, @),
                            ![to] = Append(@, InverseOf(e, s.layers, s.activeLayer))]

ApplyCommand(cmd, s) ==
    CASE cmd.op = "BeginStroke" ->
            [s EXCEPT !.active = [id |-> cmd.id, samples |-> <<FreshSample(0)>>, brush |-> cmd.value],
                      !.activeStrokeLayer = s.activeLayer]
      [] cmd.op = "AddSample" ->
            IF Drawn(s, cmd.id) THEN [s EXCEPT !.active.samples = Append(@, FreshSample(0))] ELSE s
      [] cmd.op = "EndStroke"        -> EndStroke(s, cmd.id)
      [] cmd.op = "CancelStroke"     -> IF Drawn(s, cmd.id) THEN Released(s) ELSE s
      [] cmd.op = "SetShowBounds"    -> [s EXCEPT !.showBounds = cmd.value]
      [] cmd.op = "SetBrushMaxWidth" -> [s EXCEPT !.brush.width = Clamp(cmd.value, 0, MaxWidth)]
      [] cmd.op = "SetBrushMinRatio" -> [s EXCEPT !.brush.ratio = Clamp(cmd.value, 0, FullRatio)]
      [] cmd.op = "AddLayer" ->
            [Recorded(s, AddLayer(NewLayer(s.nextLayerId), Len(s.layers) + 1, FALSE))
                EXCEPT !.nextLayerId = @ + 1]
      [] cmd.op = "RemoveLayer"      -> DropLayer(s, cmd.id)
      [] cmd.op = "MoveLayer"        -> Reorder(s, cmd.id, cmd.value)
      [] cmd.op = "SetActiveLayer"   ->
            IF cmd.id \in Ids(s.layers) THEN [s EXCEPT !.activeLayer = cmd.id] ELSE s
      [] cmd.op = "SetLayerVisible"  ->
            IF cmd.id \in Ids(s.layers)
            THEN [s EXCEPT !.layers[Position(s.layers, cmd.id)].props.visible = cmd.value]
            ELSE s
      [] cmd.op = "Undo"             -> Popped(s, "past", "future")
      [] cmd.op = "Redo"             -> Popped(s, "future", "past")

(***************************************************************************)
(* EngineState::snapshot, and AppSnapshot::default(): no layer at all.     *)
(***************************************************************************)
SnapshotOf(s) ==
    [scene |-> Scene(s.layers, s.activeLayer, s.active, s.activeStrokeLayer),
     activeLayer |-> s.activeLayer, brush |-> s.brush, showBounds |-> s.showBounds,
     canUndo |-> s.past # << >>, canRedo |-> s.future # << >>]

DefaultSnapshot ==
    [scene |-> [layers |-> << >>, activeStrokeLayer |-> NoLayer],
     activeLayer |-> NoLayer, brush |-> DefaultBrush, showBounds |-> TRUE,
     canUndo |-> FALSE, canRedo |-> FALSE]

=============================================================================
