------------------------------- MODULE Engine -------------------------------
(***************************************************************************)
(* The engine of aj-engine: the state the actor thread owns, and one       *)
(* action per arm of apply(cmd, state) that concerns strokes, layers and   *)
(* the undo history. Each action is a whole arm.                           *)
(*                                                                         *)
(* A command whose arm finds nothing to do (a stale stroke or layer id, an *)
(* Undo with an empty past, a refused RemoveLayer) only logs: it is a      *)
(* stuttering step, and the guards below say when that is.                 *)
(***************************************************************************)
EXTENDS Document

CONSTANTS
    MaxStrokes,     \* bound on the strokes begun
    MaxLayers,      \* bound on the layers minted, the first one included
    MaxSamples,     \* bound on the samples of a stroke
    MaxHistory      \* bound on the undo entries

ASSUME BoundsAssumption ==
    /\ MaxStrokes \in Nat
    /\ MaxLayers \in Nat
    /\ MaxSamples \in Nat
    /\ MaxHistory \in Nat

VARIABLES
    layers,             \* DocumentState.layers, bottom first
    activeLayer,        \* DocumentState.active_layer
    active,             \* DocumentState.active, NoStroke for None
    activeStrokeLayer,  \* DocumentState.active_stroke_layer, NoLayer for None
    past,               \* History.past
    future,             \* History.future
    nextStrokeId,       \* the counter behind StrokeId::next
    nextLayerId,        \* the counter behind LayerId::next
    panicked            \* the actor thread died in an expect

strokeVars == <<active, activeStrokeLayer>>
docVars    == <<layers, activeLayer>>
history    == <<past, future>>
ids        == <<nextStrokeId, nextLayerId>>
vars       == <<layers, activeLayer, active, activeStrokeLayer, past, future,
                nextStrokeId, nextLayerId, panicked>>

TypeOK ==
    /\ layers \in Seq(Layer)
    /\ activeLayer \in LayerId
    /\ active \in Stroke \cup {NoStroke}
    /\ activeStrokeLayer \in LayerId \cup {NoLayer}
    /\ past \in Seq(Edit)
    /\ future \in Seq(Edit)
    /\ nextStrokeId \in StrokeId
    /\ nextLayerId \in LayerId
    /\ panicked \in BOOLEAN

(***************************************************************************)
(* EngineState::default(): one layer, which is active, and no history.     *)
(***************************************************************************)
Init ==
    /\ layers = <<NewLayer(1)>>
    /\ activeLayer = 1
    /\ active = NoStroke
    /\ activeStrokeLayer = NoLayer
    /\ past = << >>
    /\ future = << >>
    /\ nextStrokeId = 1
    /\ nextLayerId = 2
    /\ panicked = FALSE

HasActiveStroke == active # NoStroke

\* What a sender may name: any stroke begun or layer minted so far, whether
\* or not it is still there (the UI works from an older snapshot).
KnownStrokes == 1..(nextStrokeId - 1)
KnownLayers  == 1..(nextLayerId - 1)

NewSamples == {FreshSample(est) : est \in UpdateIndexes \cup {0}}

(***************************************************************************)
(* Strokes.                                                                *)
(***************************************************************************)

\* A stroke still in flight is overwritten: begin_stroke does not look.
BeginStroke(sample) ==
    /\ nextStrokeId <= MaxStrokes
    /\ active' = [id |-> nextStrokeId, samples |-> <<sample>>]
    /\ activeStrokeLayer' = activeLayer
    /\ nextStrokeId' = nextStrokeId + 1
    /\ UNCHANGED <<docVars, history, nextLayerId, panicked>>

AddSample(id, sample) ==
    /\ HasActiveStroke /\ active.id = id
    /\ Len(active.samples) < MaxSamples
    /\ active' = [active EXCEPT !.samples = Append(@, sample)]
    /\ UNCHANGED <<docVars, activeStrokeLayer, history, ids, panicked>>

RevisesActive(id, u) == HasActiveStroke /\ active.id = id /\ Revisable(active, u) # {}

\* revise_sample: the stroke in flight first, then, newest layer first, the
\* last stroke of each layer (the stroke may have been committed meanwhile).
ReviseSample(id, u) ==
    /\ \/ /\ RevisesActive(id, u)
          /\ active' = Revise(active, u)
          /\ UNCHANGED layers
       \/ /\ ~RevisesActive(id, u)
          /\ RevisableLayers(layers, id, u) # {}
          /\ layers' = ReviseLayers(layers, id, u)
          /\ UNCHANGED active
    /\ UNCHANGED <<activeLayer, activeStrokeLayer, history, ids, panicked>>

\* Mutants of Commit: the redo branch is kept; a removed layer is captured by
\* its id only.
CommitKeepingFuture(e) ==
    /\ layers' = LayersAfter(e, layers)
    /\ activeLayer' = ActiveLayerAfter(e, layers, activeLayer)
    /\ past' = Append(past, InverseOf(e, layers, activeLayer))
    /\ UNCHANGED future
CommitIdOnly(e) ==
    /\ layers' = LayersAfter(e, layers)
    /\ activeLayer' = ActiveLayerAfter(e, layers, activeLayer)
    /\ past' = Append(past, IF e.op = "RemoveLayer"
                            THEN AddLayer(NewLayer(e.id), Position(layers, e.id), e.id = activeLayer)
                            ELSE InverseOf(e, layers, activeLayer))
    /\ future' = << >>

\* History::record of the inverse of e, once e is applied to the document.
Commit(e) ==
    /\ layers' = LayersAfter(e, layers)
    /\ activeLayer' = ActiveLayerAfter(e, layers, activeLayer)
    /\ past' = Append(past, InverseOf(e, layers, activeLayer))
    /\ future' = << >>

\* Mutant of StrokeTarget: the layer active when the stroke ends.
StrokeTargetNow == activeLayer

StrokeTarget == IF activeStrokeLayer = NoLayer THEN activeLayer ELSE activeStrokeLayer

\* Mutant of EndStroke: the stroke is copied out of the document, not taken.
EndStrokeByCopy(id) ==
    LET e == AddStroke(active, StrokeTarget)
    IN  /\ HasActiveStroke /\ active.id = id
        /\ Len(past) < MaxHistory
        /\ IF CanApply(e, layers) THEN Commit(e) ELSE UNCHANGED <<docVars, history>>
        /\ UNCHANGED <<strokeVars, ids, panicked>>

\* end_stroke takes the stroke out of the document, then the engine commits
\* it as an edit that is expected never to fail.
EndStroke(id) ==
    LET e == AddStroke(active, StrokeTarget)
    IN  /\ HasActiveStroke /\ active.id = id
        /\ Len(past) < MaxHistory
        /\ active' = NoStroke
        /\ activeStrokeLayer' = NoLayer
        /\ panicked' = ~CanApply(e, layers)
        /\ IF CanApply(e, layers) THEN Commit(e) ELSE UNCHANGED <<docVars, history>>
        /\ UNCHANGED ids

CancelStroke(id) ==
    /\ HasActiveStroke /\ active.id = id
    /\ active' = NoStroke
    /\ activeStrokeLayer' = NoLayer
    /\ UNCHANGED <<docVars, history, ids, panicked>>

(***************************************************************************)
(* Layers.                                                                 *)
(***************************************************************************)

\* Mutant of NewTopLayer: the id is the number of layers.
NewTopLayerByCount ==
    /\ nextLayerId <= MaxLayers
    /\ Len(past) < MaxHistory
    /\ nextLayerId' = nextLayerId + 1
    /\ Commit(AddLayer(NewLayer(Len(layers) + 1), Len(layers) + 1, FALSE))
    /\ UNCHANGED <<strokeVars, nextStrokeId, panicked>>

\* The engine mints the layer and puts it on top; it does not activate it.
NewTopLayer ==
    /\ nextLayerId <= MaxLayers
    /\ Len(past) < MaxHistory
    /\ nextLayerId' = nextLayerId + 1
    /\ Commit(AddLayer(NewLayer(nextLayerId), Len(layers) + 1, FALSE))
    /\ UNCHANGED <<strokeVars, nextStrokeId, panicked>>

\* Mutant of DropLayer: not refused while a stroke is in flight.
DropLayerMidStroke(id) ==
    /\ Len(past) < MaxHistory
    /\ CanApply(RemoveLayer(id), layers)
    /\ Commit(RemoveLayer(id))
    /\ UNCHANGED <<strokeVars, ids, panicked>>

\* Refused while a stroke is in flight: it may target this layer.
DropLayer(id) ==
    /\ ~HasActiveStroke
    /\ Len(past) < MaxHistory
    /\ CanApply(RemoveLayer(id), layers)
    /\ Commit(RemoveLayer(id))
    /\ UNCHANGED <<strokeVars, ids, panicked>>

\* Not refused while a stroke is in flight; recorded even when nothing moves.
ReorderLayer(id, index) ==
    /\ Len(past) < MaxHistory
    /\ CanApply(MoveLayer(id, index), layers)
    /\ Commit(MoveLayer(id, index))
    /\ UNCHANGED <<strokeVars, ids, panicked>>

\* Not recorded in the history, and allowed while a stroke is in flight.
SetActiveLayer(id) ==
    /\ id \in Ids(layers)
    /\ activeLayer' = id
    /\ UNCHANGED <<layers, strokeVars, history, ids, panicked>>

\* SetLayerName, SetLayerVisible, SetLayerOpacity and SetLayerBlendMode: the
\* first layer with this id takes the value; not recorded in the history.
SetLayerProps(id, props) ==
    /\ id \in Ids(layers)
    /\ layers' = [layers EXCEPT ![Position(layers, id)].props = props]
    /\ UNCHANGED <<activeLayer, strokeVars, history, ids, panicked>>

(***************************************************************************)
(* Undo and redo. Both are refused while a stroke is in flight. The entry  *)
(* is popped before it is applied, so one that failed would be lost.       *)
(***************************************************************************)
\* Mutants of Undo: the oldest entry first; no redo entry.
UndoOldest ==
    LET e == Head(past)
    IN  /\ ~HasActiveStroke
        /\ past # << >>
        /\ past' = Tail(past)
        /\ IF CanApply(e, layers)
           THEN /\ layers' = LayersAfter(e, layers)
                /\ activeLayer' = ActiveLayerAfter(e, layers, activeLayer)
                /\ future' = Append(future, InverseOf(e, layers, activeLayer))
           ELSE UNCHANGED <<docVars, future>>
        /\ UNCHANGED <<strokeVars, ids, panicked>>
UndoForgetful ==
    /\ ~HasActiveStroke
    /\ past # << >>
    /\ CanApply(Last(past), layers)
    /\ past' = Front(past)
    /\ layers' = LayersAfter(Last(past), layers)
    /\ activeLayer' = ActiveLayerAfter(Last(past), layers, activeLayer)
    /\ UNCHANGED <<future, strokeVars, ids, panicked>>

Undo ==
    LET e == Last(past)
    IN  /\ ~HasActiveStroke
        /\ past # << >>
        /\ past' = Front(past)
        /\ IF CanApply(e, layers)
           THEN /\ layers' = LayersAfter(e, layers)
                /\ activeLayer' = ActiveLayerAfter(e, layers, activeLayer)
                /\ future' = Append(future, InverseOf(e, layers, activeLayer))
           ELSE UNCHANGED <<docVars, future>>
        /\ UNCHANGED <<strokeVars, ids, panicked>>

Redo ==
    LET e == Last(future)
    IN  /\ ~HasActiveStroke
        /\ future # << >>
        /\ future' = Front(future)
        /\ IF CanApply(e, layers)
           THEN /\ layers' = LayersAfter(e, layers)
                /\ activeLayer' = ActiveLayerAfter(e, layers, activeLayer)
                /\ past' = Append(past, InverseOf(e, layers, activeLayer))
           ELSE UNCHANGED <<docVars, past>>
        /\ UNCHANGED <<strokeVars, ids, panicked>>

(***************************************************************************)
(* The commands that record an undo entry, and the others.                 *)
(***************************************************************************)
Record ==
    \/ \E id \in KnownStrokes : EndStroke(id)
    \/ NewTopLayer
    \/ \E id \in KnownLayers : DropLayer(id)
    \/ \E id \in KnownLayers : \E index \in 1..Len(layers) + 1 : ReorderLayer(id, index)

DrawOrSet ==
    \/ \E sample \in NewSamples : BeginStroke(sample)
    \/ \E id \in KnownStrokes : \E sample \in NewSamples : AddSample(id, sample)
    \/ \E id \in KnownStrokes : \E u \in UpdateIndexes : ReviseSample(id, u)
    \/ \E id \in KnownStrokes : CancelStroke(id)
    \/ \E id \in KnownLayers : SetActiveLayer(id)
    \/ \E id \in KnownLayers : \E props \in LayerProps : SetLayerProps(id, props)

Next == ~panicked /\ (Record \/ DrawOrSet \/ Undo \/ Redo)

Spec == Init /\ [][Next]_vars

(***************************************************************************)
(* Invariants.                                                             *)
(***************************************************************************)
NoDuplicates(seq) == \A i, j \in DOMAIN seq : seq[i].id = seq[j].id => i = j

\* Layer ids name one layer each, so every command that names a layer means
\* one, whatever was removed and restored before (Vec<Layer> does not enforce
\* it; lib.rs looks layers up by first match).
LayerIdsUnique == NoDuplicates(layers)

\* "Always points to a layer in `layers`" (DocumentState.active_layer): no
\* order of removals, undos and redos leaves the active layer dangling, nor
\* the stack empty.
ActiveLayerExists == activeLayer \in Ids(layers)

\* A committed stroke is in one layer once: undoing and redoing around it
\* never commits it twice.
NoStrokeTwice ==
    /\ \A p \in DOMAIN layers : NoDuplicates(layers[p].strokes)
    /\ \A p, q \in DOMAIN layers :
          p # q => Ids(layers[p].strokes) \cap Ids(layers[q].strokes) = {}

\* The layer a stroke in flight targets stays in the document until the
\* stroke ends, whatever other commands run meanwhile.
StrokeTargetExists == HasActiveStroke => activeStrokeLayer \in Ids(layers)

\* "AddStroke into existing layer is infallible" (the expect in EndStroke):
\* the actor thread never dies in it.
NeverPanics == ~panicked

\* The entries Undo and Redo would pop apply to the document as it is, so
\* neither is ever lost to the "undo failed" and "redo failed" branches.
HistoryApplies ==
    /\ past # << >> => CanApply(Last(past), layers)
    /\ future # << >> => CanApply(Last(future), layers)

\* What is drawn during a gesture is what the document holds when it ends:
\* the snapshot shows the stroke in flight on the layer, and at the place in
\* the layer, where EndStroke will commit it.
PreviewIsCommit ==
    HasActiveStroke =>
        LET scene == Scene(layers, activeLayer, active, activeStrokeLayer)
        IN  /\ scene.activeStrokeLayer = StrokeTarget
            /\ scene.layers = LayersAfter(AddStroke(active, StrokeTarget), layers)

\* revise_sample "falls back to scanning every layer's strokes" (its doc): a
\* revision reaches its sample in whatever committed stroke holds it.
RevisionsReachCommittedStrokes ==
    \A u \in UpdateIndexes : \A p \in DOMAIN layers : \A i \in DOMAIN layers[p].strokes :
        LET s == layers[p].strokes[i]
        IN  Revisable(s, u) # {} => RevisableLayers(layers, s.id, u) # {}

=============================================================================
