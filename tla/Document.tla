------------------------------ MODULE Document ------------------------------
(***************************************************************************)
(* The layered document of aj-core and its reversible edits: the pure part *)
(* of the engine, used by Engine.tla for every command that reaches the    *)
(* undo history.                                                           *)
(*                                                                         *)
(* Data is abstracted to what the properties tell apart.                   *)
(*   - A sample keeps its class (est = 0: Committed or Predicted; est > 0: *)
(*     Estimated with that update_index) and whether its field values were *)
(*     finalised by a revision.                                            *)
(*   - A stroke keeps its id and its samples.                              *)
(*   - A layer keeps its id, its strokes, and one value for the four       *)
(*     attributes name, visible, opacity and blend_mode together.          *)
(* Vec indices count from 0 in the source and positions from 1 here, so    *)
(* len() - 1 in the source is Len here and len() is Len + 1.               *)
(***************************************************************************)
EXTENDS Integers, Sequences, FiniteSets, SequencesExt

CONSTANTS
    UpdateIndexes,  \* update_index values an Estimated sample may carry
    LayerProps,     \* attribute values a layer may have
    DefaultProps    \* the attributes of a layer as Layer::new makes it

ASSUME UpdateIndexesAssumption == UpdateIndexes \subseteq Nat \ {0}
ASSUME DefaultPropsAssumption == DefaultProps \in LayerProps

LayerId  == Nat \ {0}   \* 0 is never minted
StrokeId == Nat \ {0}

Sample == [est : UpdateIndexes \cup {0}, revised : BOOLEAN]
Stroke == [id : StrokeId, samples : Seq(Sample)]
Layer  == [id : LayerId, strokes : Seq(Stroke), props : LayerProps]

\* Option::None for the active stroke (id 0 is never minted).
NoStroke == [id |-> 0, samples |-> << >>]
NoLayer  == 0

NewLayer(id) == [id |-> id, strokes |-> << >>, props |-> DefaultProps]

\* A sample as the adapter delivers it, its values not revised.
FreshSample(est) == [est |-> est, revised |-> FALSE]

(***************************************************************************)
(* Look-ups by id. Position is iter().position(|x| x.id == id): the first  *)
(* match, 0 when there is none.                                            *)
(***************************************************************************)
Ids(seq) == {seq[i].id : i \in DOMAIN seq}
Position(seq, id) == SelectInSeq(seq, LAMBDA x : x.id = id)

AtMost(n, bound) == IF n <= bound THEN n ELSE bound

(***************************************************************************)
(* Edits.                                                                  *)
(***************************************************************************)
Edit ==
    [op : {"AddStroke"}, stroke : Stroke, layer : LayerId]
        \cup [op : {"RemoveStroke"}, id : StrokeId, layer : LayerId]
        \cup [op : {"AddLayer"}, layer : Layer, index : Nat \ {0}, wasActive : BOOLEAN]
        \cup [op : {"RemoveLayer"}, id : LayerId]
        \cup [op : {"MoveLayer"}, id : LayerId, index : Nat \ {0}]

AddStroke(stroke, layer)   == [op |-> "AddStroke", stroke |-> stroke, layer |-> layer]
RemoveStroke(id, layer)    == [op |-> "RemoveStroke", id |-> id, layer |-> layer]
AddLayer(layer, index, wasActive) ==
    [op |-> "AddLayer", layer |-> layer, index |-> index, wasActive |-> wasActive]
RemoveLayer(id)            == [op |-> "RemoveLayer", id |-> id]
MoveLayer(id, index)       == [op |-> "MoveLayer", id |-> id, index |-> index]

(***************************************************************************)
(* Edit::apply returns Err, and changes nothing, unless CanApply holds:    *)
(* MissingLayer, MissingStroke and LastLayer are its three errors.         *)
(***************************************************************************)
CanApply(e, layers) ==
    CASE e.op = "AddStroke"    -> e.layer \in Ids(layers)
      [] e.op = "RemoveStroke" -> /\ e.layer \in Ids(layers)
                                  /\ e.id \in Ids(layers[Position(layers, e.layer)].strokes)
      [] e.op = "AddLayer"     -> TRUE
      [] e.op = "RemoveLayer"  -> Len(layers) > 1 /\ e.id \in Ids(layers)
      [] e.op = "MoveLayer"    -> e.id \in Ids(layers)

\* `layers' once e is applied. Moving a layer to where it already is takes
\* the early return of the source, which is what removing and re-inserting
\* it at the same position amounts to.
LayersAfter(e, layers) ==
    CASE e.op = "AddStroke" ->
            [layers EXCEPT ![Position(layers, e.layer)].strokes = Append(@, e.stroke)]
      [] e.op = "RemoveStroke" ->
            [layers EXCEPT ![Position(layers, e.layer)].strokes = RemoveAt(@, Position(@, e.id))]
      [] e.op = "AddLayer" ->
            InsertAt(layers, AtMost(e.index, Len(layers) + 1), e.layer)
      [] e.op = "RemoveLayer" ->
            RemoveAt(layers, Position(layers, e.id))
      [] e.op = "MoveLayer" ->
            LET at == Position(layers, e.id)
            IN  InsertAt(RemoveAt(layers, at), AtMost(e.index, Len(layers)), layers[at])

\* Mutants of ActiveLayerAfter: a removed active layer stays selected, or
\* nothing is selected after it.
ActiveLayerKept(e, layers, activeLayer) ==
    IF e.op = "AddLayer" /\ e.wasActive THEN e.layer.id ELSE activeLayer
ActiveLayerUnset(e, layers, activeLayer) ==
    IF e.op = "RemoveLayer" /\ e.id = activeLayer THEN NoLayer ELSE activeLayer

\* `active_layer' once e is applied: an AddLayer that restores the layer that
\* was active re-selects it, and removing the active layer selects the layer
\* that took its place, or the new top when it was the top.
ActiveLayerAfter(e, layers, activeLayer) ==
    CASE e.op = "AddLayer" /\ e.wasActive -> e.layer.id
      [] e.op = "RemoveLayer" /\ e.id = activeLayer ->
            LET rest == RemoveAt(layers, Position(layers, e.id))
            IN  rest[AtMost(Position(layers, e.id), Len(rest))].id
      [] OTHER -> activeLayer

\* The inverse edit that apply returns, with the payload it captured.
InverseOf(e, layers, activeLayer) ==
    CASE e.op = "AddStroke" -> RemoveStroke(e.stroke.id, e.layer)
      [] e.op = "RemoveStroke" ->
            LET strokes == layers[Position(layers, e.layer)].strokes
            IN  AddStroke(strokes[Position(strokes, e.id)], e.layer)
      [] e.op = "AddLayer" -> RemoveLayer(e.layer.id)
      [] e.op = "RemoveLayer" ->
            LET at == Position(layers, e.id)
            IN  AddLayer(layers[at], at, e.id = activeLayer)
      [] e.op = "MoveLayer" -> MoveLayer(e.id, Position(layers, e.id))

(***************************************************************************)
(* Revisions: the newest Estimated sample with this update_index takes the *)
(* final values and becomes Committed, so a second revision finds nothing. *)
(***************************************************************************)
Revisable(stroke, u) == {i \in DOMAIN stroke.samples : stroke.samples[i].est = u}

Revise(stroke, u) ==
    [stroke EXCEPT !.samples[Max(Revisable(stroke, u))] = [est |-> 0, revised |-> TRUE]]

\* Mutant of RevisableLayers: any last stroke with the update_index will do.
RevisableLayersOfAny(layers, id, u) ==
    {p \in DOMAIN layers : layers[p].strokes # << >> /\ Revisable(Last(layers[p].strokes), u) # {}}

\* The layers whose newest stroke revise_sample finds for this revision; the
\* scan runs from the top of the stack and stops at the first.
RevisableLayers(layers, id, u) ==
    {p \in DOMAIN layers : /\ layers[p].strokes # << >>
                           /\ Last(layers[p].strokes).id = id
                           /\ Revisable(Last(layers[p].strokes), u) # {}}

ReviseLayers(layers, id, u) ==
    LET p == Max(RevisableLayers(layers, id, u))
    IN  [layers EXCEPT ![p].strokes[Len(layers[p].strokes)] = Revise(@, u)]

(***************************************************************************)
(* DocumentState::snapshot: the committed layers with the stroke in flight *)
(* folded into the layer it targets, and that layer's id. When the target  *)
(* is gone it falls back to the active layer, and to nothing.              *)
(***************************************************************************)
Scene(layers, activeLayer, active, activeStrokeLayer) ==
    LET wanted == IF activeStrokeLayer = NoLayer THEN activeLayer ELSE activeStrokeLayer
        shown  == IF active = NoStroke        THEN NoLayer
                  ELSE IF wanted \in Ids(layers)   THEN wanted
                  ELSE IF activeLayer \in Ids(layers) THEN activeLayer
                  ELSE NoLayer
    IN  [layers |-> IF shown = NoLayer THEN layers
                    ELSE LayersAfter(AddStroke(active, shown), layers),
         activeStrokeLayer |-> shown]

(***************************************************************************)
(* What undo and redo are about: the order of the layers and the order of  *)
(* the strokes on each, by id.                                             *)
(***************************************************************************)
Structure(layers) ==
    [i \in DOMAIN layers |->
        [id |-> layers[i].id,
         strokes |-> [j \in DOMAIN layers[i].strokes |-> layers[i].strokes[j].id]]]

=============================================================================
