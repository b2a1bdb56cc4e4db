---------------------------- MODULE EngineProofs ----------------------------
(***************************************************************************)
(* Type correctness of Engine, and the proof that the active layer and the *)
(* layer a stroke in flight targets always exist, so that committing a     *)
(* stroke never panics. Then its undo history (second half).               *)
(***************************************************************************)
EXTENDS Engine, DocumentProofs

\* Seen from one step, a layer leaves the document only when no stroke is in
\* flight; hence the target a stroke captured when it began is still there
\* when it ends. ActiveLayerExists is needed because that target is the layer
\* active at the time, and TypeOK because it makes the edits applicable.
IInv ==
    /\ TypeOK
    /\ ActiveLayerExists
    /\ StrokeTargetExists
    /\ NeverPanics

LEMMA InitIInv == Init => IInv
<1> SUFFICES ASSUME Init PROVE IInv
  OBVIOUS
<1> USE DEF Init
<1>1. NewLayer(1) \in Layer /\ NewLayer(1).id = 1
  BY DefaultPropsAssumption DEF NewLayer, Layer, LayerId
<1>2. layers \in Seq(Layer) /\ Ids(layers) = {1}
  BY <1>1 DEF Ids
<1>3. << >> \in Seq(Edit)
  BY EmptySeq
<1>4. TypeOK
  <2>1. activeLayer \in LayerId /\ nextStrokeId \in StrokeId /\ nextLayerId \in LayerId
    BY DEF LayerId, StrokeId
  <2>2. active \in Stroke \cup {NoStroke} /\ activeStrokeLayer \in LayerId \cup {NoLayer}
    BY Zenon
  <2>3. past \in Seq(Edit) /\ future \in Seq(Edit) /\ panicked \in BOOLEAN
    BY <1>3, Zenon
  <2>. QED
    BY <1>2, <2>1, <2>2, <2>3, Zenon DEF TypeOK
<1>5. ActiveLayerExists /\ StrokeTargetExists /\ NeverPanics
  BY <1>2 DEF ActiveLayerExists, StrokeTargetExists, NeverPanics, HasActiveStroke
<1>. QED
  BY <1>4, <1>5 DEF IInv

\* A stroke is not NoStroke, whose id is never minted.
LEMMA StrokeIsSome == NoStroke \notin Stroke
BY DEF NoStroke, Stroke, StrokeId

LEMMA NewSamplesTyped == NewSamples \subseteq Sample
<1>1. ASSUME NEW est \in UpdateIndexes \cup {0} PROVE FreshSample(est) \in Sample
  BY DEF FreshSample, Sample
<1>. QED
  BY <1>1, Zenon DEF NewSamples

LEMMA ActiveTyped ==
    ASSUME TypeOK, HasActiveStroke
    PROVE  active \in Stroke
BY DEF TypeOK, HasActiveStroke

\* What the commit of an applicable edit does to the invariant.
LEMMA CommitIInv ==
    ASSUME IInv, NEW e \in Edit, CanApply(e, layers), Commit(e)
    PROVE  /\ layers' \in Seq(Layer)
           /\ activeLayer' \in LayerId
           /\ past' \in Seq(Edit)
           /\ future' \in Seq(Edit)
           /\ ActiveLayerExists'
<1>1. layers \in Seq(Layer) /\ activeLayer \in LayerId /\ past \in Seq(Edit)
      /\ activeLayer \in Ids(layers)
  BY DEF IInv, TypeOK, ActiveLayerExists
<1>2. layers' \in Seq(Layer) /\ InverseOf(e, layers, activeLayer) \in Edit
  BY <1>1, EditTyped DEF Commit
<1>3. activeLayer' \in LayerId /\ activeLayer' \in Ids(layers')
  BY <1>1, EditKeepsActiveLayer DEF Commit
<1>4. past' \in Seq(Edit) /\ future' \in Seq(Edit)
  BY <1>1, <1>2, AppendProperties, EmptySeq DEF Commit
<1>. QED
  BY <1>2, <1>3, <1>4 DEF ActiveLayerExists

LEMMA StrokeTargetIsCaptured ==
    ASSUME IInv, HasActiveStroke
    PROVE  StrokeTarget = activeStrokeLayer /\ activeStrokeLayer \in LayerId
           /\ activeStrokeLayer \in Ids(layers)
<1>1. activeStrokeLayer \in Ids(layers) /\ layers \in Seq(Layer)
  BY DEF IInv, TypeOK, StrokeTargetExists
<1>2. activeStrokeLayer \in LayerId
  <2>1. PICK i \in DOMAIN layers : layers[i].id = activeStrokeLayer
    BY <1>1 DEF Ids
  <2>. QED
    BY <1>1, <2>1, LenProperties, LayerAt
<1>. QED
  BY <1>1, <1>2 DEF StrokeTarget, NoLayer, LayerId

(***************************************************************************)
(* One lemma per action.                                                   *)
(***************************************************************************)
LEMMA BeginStrokeIInv ==
    ASSUME IInv, NEW sample \in NewSamples, BeginStroke(sample)
    PROVE  IInv'
<1>1. sample \in Sample
  BY NewSamplesTyped
<1>2. <<sample>> \in Seq(Sample)
  BY <1>1
<1>3. active' \in Stroke /\ nextStrokeId' \in StrokeId
  BY <1>2 DEF BeginStroke, IInv, TypeOK, Stroke, StrokeId
<1>4. TypeOK'
  BY <1>3 DEF BeginStroke, IInv, TypeOK, docVars, history
<1>5. ActiveLayerExists' /\ StrokeTargetExists' /\ NeverPanics'
  BY DEF BeginStroke, IInv, ActiveLayerExists, StrokeTargetExists, NeverPanics, docVars
<1>. QED
  BY <1>4, <1>5 DEF IInv

LEMMA AddSampleIInv ==
    ASSUME IInv, NEW id, NEW sample \in NewSamples, AddSample(id, sample)
    PROVE  IInv'
<1>1. sample \in Sample
  BY NewSamplesTyped
<1>2. active \in Stroke
  BY ActiveTyped DEF AddSample, IInv
<1>3. Append(active.samples, sample) \in Seq(Sample)
  BY <1>1, <1>2, AppendProperties DEF Stroke
<1>4. active' \in Stroke
  BY <1>2, <1>3 DEF AddSample, Stroke
<1>5. TypeOK'
  BY <1>4 DEF AddSample, IInv, TypeOK, docVars, history, ids
<1>6. ActiveLayerExists' /\ StrokeTargetExists' /\ NeverPanics'
  BY DEF AddSample, IInv, ActiveLayerExists, StrokeTargetExists, NeverPanics, docVars, HasActiveStroke
<1>. QED
  BY <1>5, <1>6 DEF IInv

LEMMA ReviseSampleIInv ==
    ASSUME IInv, NEW id, NEW u, ReviseSample(id, u)
    PROVE  IInv'
<1> USE DEF ReviseSample, IInv
<1>1. CASE /\ RevisesActive(id, u)
           /\ active' = Revise(active, u)
           /\ UNCHANGED layers
  <2>1. active \in Stroke /\ HasActiveStroke
    BY <1>1, ActiveTyped DEF RevisesActive
  <2>2. active' \in Stroke
    BY <1>1, <2>1, ReviseTyped DEF RevisesActive
  <2>3. TypeOK'
    BY <1>1, <2>2 DEF TypeOK, history, ids
  <2>4. ActiveLayerExists' /\ StrokeTargetExists' /\ NeverPanics'
    BY <1>1, <2>1 DEF ActiveLayerExists, StrokeTargetExists, NeverPanics
  <2>. QED
    BY <2>3, <2>4
<1>2. CASE /\ RevisableLayers(layers, id, u) # {}
           /\ layers' = ReviseLayers(layers, id, u)
           /\ UNCHANGED active
  <2>1. layers' \in Seq(Layer) /\ Ids(layers') = Ids(layers)
    BY <1>2, ReviseLayersTyped DEF TypeOK
  <2>2. TypeOK'
    BY <1>2, <2>1 DEF TypeOK, history, ids
  <2>3. ActiveLayerExists' /\ StrokeTargetExists' /\ NeverPanics'
    BY <1>2, <2>1 DEF ActiveLayerExists, StrokeTargetExists, NeverPanics, HasActiveStroke
  <2>. QED
    BY <2>2, <2>3
<1>. QED
  BY <1>1, <1>2

LEMMA EndStrokeIInv ==
    ASSUME IInv, NEW id, EndStroke(id)
    PROVE  IInv'
<1> DEFINE e == AddStroke(active, StrokeTarget)
<1>1. HasActiveStroke /\ active \in Stroke
  BY ActiveTyped DEF EndStroke, IInv
<1>2. StrokeTarget \in LayerId /\ StrokeTarget \in Ids(layers)
  BY <1>1, StrokeTargetIsCaptured
<1>3. e \in Edit /\ CanApply(e, layers)
  BY <1>1, <1>2 DEF AddStroke, Edit, CanApply
<1>4. Commit(e) /\ panicked' = FALSE
  BY <1>3, Zenon DEF EndStroke
<1> HIDE DEF e
<1>5. /\ layers' \in Seq(Layer)
      /\ activeLayer' \in LayerId
      /\ past' \in Seq(Edit)
      /\ future' \in Seq(Edit)
      /\ ActiveLayerExists'
  BY <1>3, <1>4, CommitIInv
<1>6. active' = NoStroke /\ activeStrokeLayer' = NoLayer /\ UNCHANGED ids
  BY DEF EndStroke
<1>7. TypeOK'
  BY <1>4, <1>5, <1>6 DEF IInv, TypeOK, ids
<1>8. StrokeTargetExists' /\ NeverPanics'
  BY <1>4, <1>6 DEF StrokeTargetExists, NeverPanics, HasActiveStroke
<1>. QED
  BY <1>5, <1>7, <1>8 DEF IInv

LEMMA CancelStrokeIInv ==
    ASSUME IInv, NEW id, CancelStroke(id)
    PROVE  IInv'
<1>1. TypeOK'
  BY DEF CancelStroke, IInv, TypeOK, docVars, history, ids
<1>2. ActiveLayerExists' /\ StrokeTargetExists' /\ NeverPanics'
  BY DEF CancelStroke, IInv, ActiveLayerExists, StrokeTargetExists, NeverPanics, docVars, HasActiveStroke
<1>. QED
  BY <1>1, <1>2 DEF IInv

LEMMA NewTopLayerIInv ==
    ASSUME IInv, NewTopLayer
    PROVE  IInv'
<1> DEFINE e == AddLayer(NewLayer(nextLayerId), Len(layers) + 1, FALSE)
<1>1. NewLayer(nextLayerId) \in Layer
  BY DefaultPropsAssumption DEF IInv, TypeOK, NewLayer, Layer
<1>2. Len(layers) + 1 \in Nat \ {0} /\ layers \in Seq(Layer)
  BY LenProperties DEF IInv, TypeOK
<1>3. e \in Edit /\ e.op = "AddLayer"
  BY <1>1, <1>2 DEF AddLayer, Edit
<1>4. CanApply(e, layers)
  BY <1>3 DEF CanApply
<1>5. Commit(e) /\ nextLayerId' = nextLayerId + 1 /\ UNCHANGED <<strokeVars, nextStrokeId, panicked>>
  BY DEF NewTopLayer
<1> HIDE DEF e
<1>6. /\ layers' \in Seq(Layer)
      /\ activeLayer' \in LayerId
      /\ past' \in Seq(Edit)
      /\ future' \in Seq(Edit)
      /\ ActiveLayerExists'
  BY <1>3, <1>4, <1>5, CommitIInv
<1>7. TypeOK'
  BY <1>5, <1>6 DEF IInv, TypeOK, strokeVars, LayerId
<1>8. StrokeTargetExists'
  BY <1>2, <1>3, <1>5, AddLayerAfter
     DEF IInv, StrokeTargetExists, HasActiveStroke, strokeVars, Commit
<1>9. NeverPanics'
  BY <1>5 DEF IInv, NeverPanics
<1>. QED
  BY <1>6, <1>7, <1>8, <1>9 DEF IInv

LEMMA DropLayerIInv ==
    ASSUME IInv, NEW id \in KnownLayers, DropLayer(id)
    PROVE  IInv'
<1> DEFINE e == RemoveLayer(id)
<1>1. id \in LayerId
  BY DEF KnownLayers, LayerId, IInv, TypeOK
<1>2. e \in Edit /\ CanApply(e, layers)
  BY <1>1 DEF RemoveLayer, Edit, DropLayer
<1>3. Commit(e) /\ ~HasActiveStroke /\ UNCHANGED <<strokeVars, ids, panicked>>
  BY DEF DropLayer
<1> HIDE DEF e
<1>4. /\ layers' \in Seq(Layer)
      /\ activeLayer' \in LayerId
      /\ past' \in Seq(Edit)
      /\ future' \in Seq(Edit)
      /\ ActiveLayerExists'
  BY <1>2, <1>3, CommitIInv
<1>5. TypeOK'
  BY <1>3, <1>4 DEF IInv, TypeOK, strokeVars, ids
<1>6. StrokeTargetExists' /\ NeverPanics'
  BY <1>3 DEF IInv, StrokeTargetExists, NeverPanics, HasActiveStroke, strokeVars
<1>. QED
  BY <1>4, <1>5, <1>6 DEF IInv

LEMMA ReorderLayerIInv ==
    ASSUME IInv, NEW id \in KnownLayers, NEW index \in 1..Len(layers) + 1, ReorderLayer(id, index)
    PROVE  IInv'
<1> DEFINE e == MoveLayer(id, index)
<1>1. id \in LayerId /\ layers \in Seq(Layer)
  BY DEF KnownLayers, LayerId, IInv, TypeOK
<1>2. e \in Edit /\ CanApply(e, layers) /\ e.op = "MoveLayer"
  BY <1>1, LenProperties DEF MoveLayer, Edit, ReorderLayer
<1>3. Commit(e) /\ UNCHANGED <<strokeVars, ids, panicked>>
  BY DEF ReorderLayer
<1> HIDE DEF e
<1>4. /\ layers' \in Seq(Layer)
      /\ activeLayer' \in LayerId
      /\ past' \in Seq(Edit)
      /\ future' \in Seq(Edit)
      /\ ActiveLayerExists'
  BY <1>2, <1>3, CommitIInv
<1>5. TypeOK'
  BY <1>3, <1>4 DEF IInv, TypeOK, strokeVars, ids
<1>6. StrokeTargetExists'
  BY <1>1, <1>2, <1>3, MoveLayerAfter
     DEF IInv, StrokeTargetExists, HasActiveStroke, strokeVars, Commit
<1>7. NeverPanics'
  BY <1>3 DEF IInv, NeverPanics
<1>. QED
  BY <1>4, <1>5, <1>6, <1>7 DEF IInv

LEMMA SetActiveLayerIInv ==
    ASSUME IInv, NEW id \in KnownLayers, SetActiveLayer(id)
    PROVE  IInv'
<1>1. id \in LayerId
  BY DEF KnownLayers, LayerId, IInv, TypeOK
<1>2. TypeOK'
  BY <1>1 DEF SetActiveLayer, IInv, TypeOK, strokeVars, history, ids
<1>3. ActiveLayerExists' /\ StrokeTargetExists' /\ NeverPanics'
  BY DEF SetActiveLayer, IInv, ActiveLayerExists, StrokeTargetExists, NeverPanics,
         HasActiveStroke, strokeVars
<1>. QED
  BY <1>2, <1>3 DEF IInv

LEMMA SetLayerPropsIInv ==
    ASSUME IInv, NEW id \in KnownLayers, NEW props \in LayerProps, SetLayerProps(id, props)
    PROVE  IInv'
<1> DEFINE p == Position(layers, id)
           l == [layers[p] EXCEPT !.props = props]
<1>1. layers \in Seq(Layer) /\ id \in Ids(layers)
  BY DEF SetLayerProps, IInv, TypeOK
<1>2. p \in 1..Len(layers)
  BY <1>1, PositionFound
<1>3. l \in Layer /\ l.id = layers[p].id
  BY <1>1, <1>2, LayerAt DEF Layer
<1>4. layers' = [layers EXCEPT ![p] = l]
  BY DEF SetLayerProps
<1> HIDE DEF p, l
<1>5. /\ layers' \in Seq(Layer)
      /\ Len(layers') = Len(layers)
      /\ \A i \in 1..Len(layers) : layers'[i] = IF i = p THEN l ELSE layers[i]
  BY <1>1, <1>2, <1>3, <1>4, ExceptSeq
<1>6. Ids(layers') = Ids(layers)
  BY <1>1, <1>3, <1>5, SameIds
<1>7. TypeOK'
  BY <1>5 DEF SetLayerProps, IInv, TypeOK, strokeVars, history, ids
<1>8. ActiveLayerExists' /\ StrokeTargetExists' /\ NeverPanics'
  BY <1>6 DEF SetLayerProps, IInv, ActiveLayerExists, StrokeTargetExists, NeverPanics,
              HasActiveStroke, strokeVars
<1>. QED
  BY <1>7, <1>8 DEF IInv

\* The last entry of an undo stack and the stack without it.
LEMMA LastAndFront ==
    ASSUME NEW S, NEW seq \in Seq(S), seq # << >>
    PROVE  Last(seq) \in S /\ Front(seq) \in Seq(S)
<1>1. Len(seq) \in Nat \ {0}
  BY EmptySeq
<1>2. Last(seq) \in S
  BY <1>1, ElementOfSeq DEF Last
<1>3. Front(seq) \in Seq(S)
  BY <1>1, SubSeqProperties, ElementOfSeq DEF Front
<1>. QED
  BY <1>2, <1>3

LEMMA UndoIInv ==
    ASSUME IInv, Undo
    PROVE  IInv'
<1> DEFINE e == Last(past)
<1>1. /\ layers \in Seq(Layer) /\ activeLayer \in LayerId /\ activeLayer \in Ids(layers)
      /\ past \in Seq(Edit) /\ future \in Seq(Edit) /\ past # << >>
  BY DEF Undo, IInv, TypeOK, ActiveLayerExists
<1>2. e \in Edit /\ past' \in Seq(Edit)
  BY <1>1, LastAndFront DEF Undo
<1>3. ~HasActiveStroke /\ UNCHANGED <<strokeVars, ids, panicked>>
  BY DEF Undo
<1>4. CASE CanApply(e, layers)
  <2>1. /\ layers' = LayersAfter(e, layers)
        /\ activeLayer' = ActiveLayerAfter(e, layers, activeLayer)
        /\ future' = Append(future, InverseOf(e, layers, activeLayer))
    BY <1>4 DEF Undo
  <2> HIDE DEF e
  <2>2. layers' \in Seq(Layer) /\ InverseOf(e, layers, activeLayer) \in Edit
    BY <1>1, <1>2, <1>4, <2>1, EditTyped
  <2>3. activeLayer' \in LayerId /\ activeLayer' \in Ids(layers')
    BY <1>1, <1>2, <1>4, <2>1, EditKeepsActiveLayer
  <2>4. future' \in Seq(Edit)
    BY <1>1, <2>1, <2>2, AppendProperties
  <2>5. TypeOK'
    BY <1>2, <1>3, <2>2, <2>3, <2>4 DEF IInv, TypeOK, strokeVars, ids
  <2>6. ActiveLayerExists' /\ StrokeTargetExists' /\ NeverPanics'
    BY <1>3, <2>3 DEF IInv, ActiveLayerExists, StrokeTargetExists, NeverPanics, HasActiveStroke, strokeVars
  <2>. QED
    BY <2>5, <2>6 DEF IInv
<1>5. CASE ~CanApply(e, layers)
  <2>1. UNCHANGED <<docVars, future>>
    BY <1>5 DEF Undo
  <2>2. TypeOK'
    BY <1>2, <1>3, <2>1 DEF IInv, TypeOK, strokeVars, docVars, ids
  <2>3. ActiveLayerExists' /\ StrokeTargetExists' /\ NeverPanics'
    BY <1>3, <2>1 DEF IInv, ActiveLayerExists, StrokeTargetExists, NeverPanics, HasActiveStroke, strokeVars, docVars
  <2>. QED
    BY <2>2, <2>3 DEF IInv
<1>. QED
  BY <1>4, <1>5

LEMMA RedoIInv ==
    ASSUME IInv, Redo
    PROVE  IInv'
<1> DEFINE e == Last(future)
<1>1. /\ layers \in Seq(Layer) /\ activeLayer \in LayerId /\ activeLayer \in Ids(layers)
      /\ past \in Seq(Edit) /\ future \in Seq(Edit) /\ future # << >>
  BY DEF Redo, IInv, TypeOK, ActiveLayerExists
<1>2. e \in Edit /\ future' \in Seq(Edit)
  BY <1>1, LastAndFront DEF Redo
<1>3. ~HasActiveStroke /\ UNCHANGED <<strokeVars, ids, panicked>>
  BY DEF Redo
<1>4. CASE CanApply(e, layers)
  <2>1. /\ layers' = LayersAfter(e, layers)
        /\ activeLayer' = ActiveLayerAfter(e, layers, activeLayer)
        /\ past' = Append(past, InverseOf(e, layers, activeLayer))
    BY <1>4 DEF Redo
  <2> HIDE DEF e
  <2>2. layers' \in Seq(Layer) /\ InverseOf(e, layers, activeLayer) \in Edit
    BY <1>1, <1>2, <1>4, <2>1, EditTyped
  <2>3. activeLayer' \in LayerId /\ activeLayer' \in Ids(layers')
    BY <1>1, <1>2, <1>4, <2>1, EditKeepsActiveLayer
  <2>4. past' \in Seq(Edit)
    BY <1>1, <2>1, <2>2, AppendProperties
  <2>5. TypeOK'
    BY <1>2, <1>3, <2>2, <2>3, <2>4 DEF IInv, TypeOK, strokeVars, ids
  <2>6. ActiveLayerExists' /\ StrokeTargetExists' /\ NeverPanics'
    BY <1>3, <2>3 DEF IInv, ActiveLayerExists, StrokeTargetExists, NeverPanics, HasActiveStroke, strokeVars
  <2>. QED
    BY <2>5, <2>6 DEF IInv
<1>5. CASE ~CanApply(e, layers)
  <2>1. UNCHANGED <<docVars, past>>
    BY <1>5 DEF Redo
  <2>2. TypeOK'
    BY <1>2, <1>3, <2>1 DEF IInv, TypeOK, strokeVars, docVars, ids
  <2>3. ActiveLayerExists' /\ StrokeTargetExists' /\ NeverPanics'
    BY <1>3, <2>1 DEF IInv, ActiveLayerExists, StrokeTargetExists, NeverPanics, HasActiveStroke, strokeVars, docVars
  <2>. QED
    BY <2>2, <2>3 DEF IInv
<1>. QED
  BY <1>4, <1>5

(***************************************************************************)
(* The invariant, and the properties it contains.                          *)
(***************************************************************************)
LEMMA NextIInv == IInv /\ [Next]_vars => IInv'
<1> SUFFICES ASSUME IInv, [Next]_vars PROVE IInv'
  OBVIOUS
<1>1. CASE Record
  BY <1>1, EndStrokeIInv, NewTopLayerIInv, DropLayerIInv, ReorderLayerIInv DEF Record
<1>2. CASE DrawOrSet
  BY <1>2, BeginStrokeIInv, AddSampleIInv, ReviseSampleIInv, CancelStrokeIInv,
     SetActiveLayerIInv, SetLayerPropsIInv DEF DrawOrSet
<1>3. CASE Undo
  BY <1>3, UndoIInv
<1>4. CASE Redo
  BY <1>4, RedoIInv
<1>5. CASE UNCHANGED vars
  BY <1>5 DEF vars, IInv, TypeOK, ActiveLayerExists, StrokeTargetExists, NeverPanics, HasActiveStroke
<1>. QED
  BY <1>1, <1>2, <1>3, <1>4, <1>5 DEF Next

\* The strengthened invariant holds in every reachable state.
THEOREM InductiveInvariant == Spec => []IInv
BY InitIInv, NextIInv, PTL DEF Spec

\* Every engine state is well typed, undo payloads included.
THEOREM TypeCorrect == Spec => []TypeOK
<1>1. IInv => TypeOK
  BY DEF IInv
<1>. QED
  BY <1>1, InductiveInvariant, PTL

\* The active layer is always a layer of the document, for any number of
\* layers, strokes and history entries ("Always points to a layer in
\* `layers`").
THEOREM ActiveLayerAlwaysExists == Spec => []ActiveLayerExists
<1>1. IInv => ActiveLayerExists
  BY DEF IInv
<1>. QED
  BY <1>1, InductiveInvariant, PTL

\* The layer that a stroke in flight targets is in the document until the
\* stroke ends.
THEOREM StrokeTargetAlwaysExists == Spec => []StrokeTargetExists
<1>1. IInv => StrokeTargetExists
  BY DEF IInv
<1>. QED
  BY <1>1, InductiveInvariant, PTL

\* The expect in EndStroke ("AddStroke into existing layer is infallible")
\* never fires.
THEOREM EngineNeverPanics == Spec => []NeverPanics
<1>1. IInv => NeverPanics
  BY DEF IInv
<1>. QED
  BY <1>1, InductiveInvariant, PTL

\* While a stroke is in flight the snapshot shows it where EndStroke will
\* commit it: the fallbacks of Scene are never taken.
THEOREM PreviewAlwaysCommits == Spec => []PreviewIsCommit
<1>1. ASSUME IInv, HasActiveStroke
      PROVE  Scene(layers, activeLayer, active, activeStrokeLayer)
               = [layers            |-> LayersAfter(AddStroke(active, StrokeTarget), layers),
                  activeStrokeLayer |-> StrokeTarget]
  <2>1. /\ StrokeTarget = activeStrokeLayer
        /\ activeStrokeLayer \in Ids(layers)
        /\ activeStrokeLayer # NoLayer
    BY <1>1, StrokeTargetIsCaptured DEF LayerId, NoLayer
  <2>2. active # NoStroke
    BY <1>1 DEF HasActiveStroke
  <2>. QED
    BY <2>1, <2>2, Zenon DEF Scene
<1>2. IInv => PreviewIsCommit
  BY <1>1 DEF PreviewIsCommit
<1>. QED
  BY <1>2, InductiveInvariant, PTL

(***************************************************************************)
(* The undo history: ids stay unique and what is popped applies.           *)
(*                                                                         *)
(* The edits on a stack are computed against different documents. What     *)
(* they need of one is which layers and strokes it has, so the invariant   *)
(* follows the contents of the document as a set: from the top of either   *)
(* stack, each entry leads from one set of contents to the next.           *)
(***************************************************************************)

(***************************************************************************)
(* Sequences of things with ids as sets.                                   *)
(***************************************************************************)
LEMMA SetMember ==
    ASSUME NEW S, NEW seq \in Seq(S)
    PROVE  /\ ToSet(seq) \subseteq S
           /\ \A i \in 1..Len(seq) : seq[i] \in ToSet(seq)
           /\ \A x \in ToSet(seq) : \E i \in 1..Len(seq) : seq[i] = x
           /\ Ids(seq) = {x.id : x \in ToSet(seq)}
<1>1. DOMAIN seq = 1..Len(seq) /\ \A i \in 1..Len(seq) : seq[i] \in S
  BY LenProperties, ElementOfSeq
<1>2. ToSet(seq) = {seq[i] : i \in 1..Len(seq)}
  BY <1>1, Zenon DEF ToSet
<1>3. Ids(seq) = {seq[i].id : i \in 1..Len(seq)}
  BY <1>1, Zenon DEF Ids
<1>4. Ids(seq) = {x.id : x \in ToSet(seq)}
  BY <1>2, <1>3
<1>. QED
  BY <1>1, <1>2, <1>4

LEMMA SameIdSame ==
    ASSUME NEW S, NEW seq \in Seq(S), NoDuplicates(seq),
           NEW x \in ToSet(seq), NEW y \in ToSet(seq), x.id = y.id
    PROVE  x = y
<1>1. DOMAIN seq = 1..Len(seq)
  BY LenProperties
<1>2. PICK i \in 1..Len(seq), j \in 1..Len(seq) : seq[i] = x /\ seq[j] = y
  BY SetMember
<1>3. i = j
  BY <1>1, <1>2, Zenon DEF NoDuplicates
<1>. QED
  BY <1>2, <1>3

LEMMA InsertSet ==
    ASSUME NEW S, NEW seq \in Seq(S), NEW e \in S, NEW i \in 1..Len(seq) + 1
    PROVE  /\ ToSet(InsertAt(seq, i, e)) = ToSet(seq) \cup {e}
           /\ NoDuplicates(seq) /\ e.id \notin Ids(seq) => NoDuplicates(InsertAt(seq, i, e))
<1> DEFINE new == InsertAt(seq, i, e)
           n == Len(seq)
<1>1. /\ new \in Seq(S) /\ Len(new) = n + 1 /\ n \in Nat
      /\ \A k \in 1..n + 1 :
           new[k] = IF k < i THEN seq[k] ELSE IF k = i THEN e ELSE seq[k - 1]
  BY InsertAtProperties, LenProperties
<1>2. /\ DOMAIN seq = 1..n /\ DOMAIN new = 1..n + 1
  BY <1>1, LenProperties
<1>a. ToSet(seq) = {seq[k] : k \in 1..n} /\ ToSet(new) = {new[k] : k \in 1..n + 1}
  BY <1>2, Zenon DEF ToSet
<1>b. Ids(seq) = {seq[k].id : k \in 1..n}
  BY <1>2, Zenon DEF Ids
<1> HIDE DEF new, n
<1>c. i \in 1..n + 1
  BY DEF n
<1>3. ToSet(new) \subseteq ToSet(seq) \cup {e}
  <2>1. ASSUME NEW k \in 1..n + 1 PROVE new[k] \in ToSet(seq) \cup {e}
    <3>1. CASE k < i
      BY <1>1, <1>a, <1>c, <3>1
    <3>2. CASE k = i
      BY <1>1, <3>2
    <3>3. CASE k > i
      <4>1. k - 1 \in 1..n /\ new[k] = seq[k - 1]
        BY <1>1, <1>c, <3>3
      <4>. QED
        BY <1>a, <4>1
    <3>. QED
      BY <1>1, <1>c, <3>1, <3>2, <3>3
  <2>. QED
    BY <1>a, <2>1
<1>4. e \in ToSet(new)
  BY <1>1, <1>a, <1>c
<1>5. ASSUME NEW k \in 1..n PROVE seq[k] \in ToSet(new)
  <2>1. CASE k < i
    BY <1>1, <1>a, <2>1
  <2>2. CASE k >= i
    <3>1. k + 1 \in 1..n + 1 /\ new[k + 1] = seq[k]
      BY <1>1, <1>c, <2>2
    <3>. QED
      BY <1>a, <3>1
  <2>. QED
    BY <1>1, <1>c, <2>1, <2>2
<1>6. ToSet(new) = ToSet(seq) \cup {e}
  BY <1>3, <1>4, <1>5, <1>a
<1>7. ASSUME NoDuplicates(seq), e.id \notin Ids(seq) PROVE NoDuplicates(new)
  <2> DEFINE old(k) == IF k < i THEN k ELSE k - 1
  <2>1. \A j, k \in 1..n : seq[j].id = seq[k].id => j = k
    BY <1>2, <1>7, Zenon DEF NoDuplicates
  <2>2. \A k \in 1..n : seq[k].id # e.id
    BY <1>b, <1>7
  <2>3. ASSUME NEW j \in 1..n + 1, NEW k \in 1..n + 1, new[j].id = new[k].id PROVE j = k
    <3>1. CASE j # i /\ k # i
      <4>1. /\ old(j) \in 1..n /\ old(k) \in 1..n
            /\ new[j] = seq[old(j)] /\ new[k] = seq[old(k)]
        BY <1>1, <1>c, <3>1
      <4>2. old(j) = old(k)
        BY <2>1, <2>3, <4>1
      <4>. QED
        BY <1>1, <1>c, <3>1, <4>2
    <3>2. CASE j = i /\ k # i
      <4>1. old(k) \in 1..n /\ new[k] = seq[old(k)] /\ new[j] = e
        BY <1>1, <1>c, <3>2
      <4>. QED
        BY <2>2, <2>3, <4>1
    <3>3. CASE j # i /\ k = i
      <4>1. old(j) \in 1..n /\ new[j] = seq[old(j)] /\ new[k] = e
        BY <1>1, <1>c, <3>3
      <4>. QED
        BY <2>2, <2>3, <4>1
    <3>. QED
      BY <3>1, <3>2, <3>3
  <2>. QED
    BY <1>2, <2>3, Zenon DEF NoDuplicates
<1>. QED
  BY <1>6, <1>7 DEF new

LEMMA RemoveSet ==
    ASSUME NEW S, NEW seq \in Seq(S), NoDuplicates(seq), NEW i \in 1..Len(seq)
    PROVE  /\ ToSet(RemoveAt(seq, i)) = ToSet(seq) \ {seq[i]}
           /\ NoDuplicates(RemoveAt(seq, i))
<1> DEFINE new == RemoveAt(seq, i)
           n == Len(seq)
<1>1. /\ new \in Seq(S) /\ Len(new) = n - 1 /\ n \in Nat
      /\ \A k \in 1..n - 1 : new[k] = IF k < i THEN seq[k] ELSE seq[k + 1]
  BY RemoveAtProperties, LenProperties
<1>2. /\ DOMAIN seq = 1..n /\ DOMAIN new = 1..n - 1
  BY <1>1, LenProperties
<1>a. ToSet(seq) = {seq[k] : k \in 1..n} /\ ToSet(new) = {new[k] : k \in 1..n - 1}
  BY <1>2, Zenon DEF ToSet
<1>b. \A j, k \in 1..n : seq[j].id = seq[k].id => j = k
  BY <1>2, Zenon DEF NoDuplicates
<1> HIDE DEF new, n
<1>c. i \in 1..n
  BY DEF n
<1> DEFINE old(k) == IF k < i THEN k ELSE k + 1
<1>d. \A k \in 1..n - 1 : old(k) \in 1..n /\ old(k) # i /\ new[k] = seq[old(k)]
  BY <1>1, <1>c
<1>3. ToSet(new) \subseteq ToSet(seq) \ {seq[i]}
  <2>1. ASSUME NEW k \in 1..n - 1 PROVE new[k] \in ToSet(seq) \ {seq[i]}
    BY <1>a, <1>b, <1>c, <1>d
  <2>. QED
    BY <1>a, <2>1
<1>4. ASSUME NEW k \in 1..n, k # i PROVE seq[k] \in ToSet(new)
  <2>1. CASE k < i
    BY <1>1, <1>a, <1>c, <2>1
  <2>2. CASE k > i
    <3>1. k - 1 \in 1..n - 1 /\ new[k - 1] = seq[k]
      BY <1>1, <1>c, <2>2
    <3>. QED
      BY <1>a, <3>1
  <2>. QED
    BY <1>1, <1>c, <1>4, <2>1, <2>2
<1>5. ToSet(new) = ToSet(seq) \ {seq[i]}
  BY <1>3, <1>4, <1>a
<1>6. NoDuplicates(new)
  <2>1. ASSUME NEW j \in 1..n - 1, NEW k \in 1..n - 1, new[j].id = new[k].id PROVE j = k
    <3>1. old(j) = old(k)
      BY <1>b, <1>d, <2>1
    <3>. QED
      BY <1>1, <1>c, <3>1
  <2>. QED
    BY <1>2, <2>1, Zenon DEF NoDuplicates
<1>. QED
  BY <1>5, <1>6 DEF new

\* Putting another thing with the same id in the place of one.
LEMMA ReplaceSet ==
    ASSUME NEW S, NEW seq \in Seq(S), NoDuplicates(seq), NEW i \in 1..Len(seq),
           NEW e \in S, e.id = seq[i].id,
           NEW new \in Seq(S), Len(new) = Len(seq),
           \A k \in 1..Len(seq) : new[k] = IF k = i THEN e ELSE seq[k]
    PROVE  /\ ToSet(new) = (ToSet(seq) \ {seq[i]}) \cup {e}
           /\ NoDuplicates(new)
<1> DEFINE n == Len(seq)
<1>2. DOMAIN seq = 1..n /\ DOMAIN new = 1..n
  BY LenProperties
<1>a. ToSet(seq) = {seq[k] : k \in 1..n} /\ ToSet(new) = {new[k] : k \in 1..n}
  BY <1>2, Zenon DEF ToSet
<1>b. \A j, k \in 1..n : seq[j].id = seq[k].id => j = k
  BY <1>2, Zenon DEF NoDuplicates
<1> HIDE DEF n
<1>c. i \in 1..n /\ \A k \in 1..n : new[k] = IF k = i THEN e ELSE seq[k]
  BY DEF n
<1>3. ASSUME NEW k \in 1..n PROVE new[k] \in (ToSet(seq) \ {seq[i]}) \cup {e}
  BY <1>a, <1>b, <1>c
<1>4. ASSUME NEW k \in 1..n, k # i PROVE seq[k] \in ToSet(new)
  BY <1>a, <1>c, <1>4
<1>5. e \in ToSet(new)
  BY <1>a, <1>c
<1>6. ToSet(new) = (ToSet(seq) \ {seq[i]}) \cup {e}
  BY <1>3, <1>4, <1>5, <1>a
<1>7. ASSUME NEW j \in 1..n, NEW k \in 1..n, new[j].id = new[k].id PROVE j = k
  <2>1. new[j].id = seq[j].id /\ new[k].id = seq[k].id
    BY <1>c
  <2>. QED
    BY <1>7, <1>b, <2>1
<1>. QED
  BY <1>2, <1>6, <1>7, Zenon DEF NoDuplicates

(***************************************************************************)
(* The contents of a document: a layer k is <<k, 0>> and a stroke s on it  *)
(* is <<k, s>>. The order of both, and what else they hold, is left out.   *)
(***************************************************************************)
Of(layer) == {<<layer.id, s>> : s \in {0} \cup Ids(layer.strokes)}

Contents(ls) == UNION {Of(layer) : layer \in ToSet(ls)}

Without(S, k) == {x \in S : x[1] # k}

\* A stroke is on one layer.
Separate(S) == \A x, y \in S : x[2] # 0 /\ x[2] = y[2] => x[1] = y[1]

\* No id is that of two layers, nor of two strokes of a layer.
Distinct(ls) ==
    /\ NoDuplicates(ls)
    /\ \A layer \in ToSet(ls) : NoDuplicates(layer.strokes)

\* e leads from the contents S to the contents T, and is sure to apply there.
Links(e, S, T) ==
    CASE e.op = "AddStroke" ->
            /\ <<e.layer, 0>> \in S
            /\ <<e.layer, e.stroke.id>> \notin S
            /\ T = S \cup {<<e.layer, e.stroke.id>>}
      [] e.op = "RemoveStroke" ->
            /\ <<e.layer, e.id>> \in S
            /\ T = S \ {<<e.layer, e.id>>}
      [] e.op = "AddLayer" ->
            /\ Without(S, e.layer.id) = S
            /\ NoDuplicates(e.layer.strokes)
            /\ T = S \cup Of(e.layer)
      [] e.op = "RemoveLayer" ->
            /\ <<e.id, 0>> \in S
            /\ T = Without(S, e.id)
            /\ T # {}
      [] OTHER -> <<e.id, 0>> \in S /\ T = S

LEMMA StrokeIdsTyped ==
    ASSUME NEW layer \in Layer
    PROVE  Ids(layer.strokes) \subseteq StrokeId /\ layer.strokes \in Seq(Stroke) /\ layer.id \in LayerId
<1>1. layer.strokes \in Seq(Stroke) /\ layer.id \in LayerId
  BY DEF Layer
<1>2. ToSet(layer.strokes) \subseteq Stroke
  BY <1>1, SetMember
<1>3. \A x \in Stroke : x.id \in StrokeId
  BY DEF Stroke
<1>4. Ids(layer.strokes) = {x.id : x \in ToSet(layer.strokes)}
  BY <1>1, SetMember
<1>. QED
  BY <1>1, <1>2, <1>3, <1>4

LEMMA OfMember ==
    ASSUME NEW layer, NEW x
    PROVE  x \in Of(layer) <=> /\ x = <<x[1], x[2]>>
                               /\ x[1] = layer.id
                               /\ x[2] = 0 \/ x[2] \in Ids(layer.strokes)
BY DEF Of

LEMMA ContentsMember ==
    ASSUME NEW ls, NEW x
    PROVE  x \in Contents(ls) <=> \E layer \in ToSet(ls) : x \in Of(layer)
BY DEF Contents

\* The part of the contents that is one layer's.
LEMMA ContentsOfLayer ==
    ASSUME NEW ls \in Seq(Layer), NoDuplicates(ls), NEW layer \in ToSet(ls)
    PROVE  /\ <<layer.id, 0>> \in Contents(ls)
           /\ \A x \in Contents(ls) : x[1] = layer.id => x \in Of(layer)
           /\ Of(layer) \subseteq Contents(ls)
<1>1. <<layer.id, 0>> \in Of(layer)
  BY DEF Of
<1>2. ASSUME NEW x \in Contents(ls), x[1] = layer.id PROVE x \in Of(layer)
  <2>1. PICK other \in ToSet(ls) : x \in Of(other)
    BY <1>2, ContentsMember
  <2>2. other.id = layer.id
    BY <1>2, <2>1, OfMember
  <2>3. other = layer
    BY <2>2, SameIdSame
  <2>. QED
    BY <2>1, <2>3
<1>. QED
  BY <1>1, <1>2, ContentsMember

\* A layer of the document by its id.
LEMMA LayerOf ==
    ASSUME NEW ls \in Seq(Layer), NEW k
    PROVE  /\ k \in Ids(ls) <=> <<k, 0>> \in Contents(ls)
           /\ k \in Ids(ls) => /\ Position(ls, k) \in 1..Len(ls)
                               /\ ls[Position(ls, k)] \in ToSet(ls)
                               /\ ls[Position(ls, k)].id = k
<1>1. k \in Ids(ls) <=> \E layer \in ToSet(ls) : layer.id = k
  BY SetMember
<1>2. \A layer : <<k, 0>> \in Of(layer) <=> layer.id = k
  BY DEF Of
<1>3. k \in Ids(ls) <=> <<k, 0>> \in Contents(ls)
  BY <1>1, <1>2, ContentsMember
<1>4. k \in Ids(ls) => /\ Position(ls, k) \in 1..Len(ls)
                       /\ ls[Position(ls, k)].id = k
  BY PositionFound
<1>. QED
  BY <1>3, <1>4, SetMember

\* A stroke of a layer by their ids.
LEMMA StrokeOf ==
    ASSUME NEW ls \in Seq(Layer), NoDuplicates(ls), NEW layer \in ToSet(ls), NEW s, s # 0
    PROVE  s \in Ids(layer.strokes) <=> <<layer.id, s>> \in Contents(ls)
<1> DEFINE x == <<layer.id, s>>
<1>1. x \in Of(layer) <=> s \in Ids(layer.strokes)
  BY OfMember
<1>2. x \in Contents(ls) => x \in Of(layer)
  BY ContentsOfLayer
<1>3. x \in Of(layer) => x \in Contents(ls)
  BY ContentsMember
<1>. QED
  BY <1>1, <1>2, <1>3

(***************************************************************************)
(* The contents after a layer was inserted, removed or replaced.           *)
(***************************************************************************)
LEMMA InsertContents ==
    ASSUME NEW ls, NEW new, NEW layer, ToSet(new) = ToSet(ls) \cup {layer}
    PROVE  Contents(new) = Contents(ls) \cup Of(layer)
BY DEF Contents

LEMMA RemoveContents ==
    ASSUME NEW ls \in Seq(Layer), NoDuplicates(ls), NEW layer \in ToSet(ls),
           NEW new, ToSet(new) = ToSet(ls) \ {layer}
    PROVE  Contents(new) = Without(Contents(ls), layer.id)
<1>1. ASSUME NEW x \in Contents(new) PROVE x \in Contents(ls) /\ x[1] # layer.id
  <2>1. PICK other \in ToSet(ls) \ {layer} : x \in Of(other)
    BY ContentsMember
  <2>2. other.id # layer.id
    BY <2>1, SameIdSame
  <2>. QED
    BY <2>1, <2>2, ContentsMember, OfMember
<1>2. ASSUME NEW x \in Contents(ls), x[1] # layer.id PROVE x \in Contents(new)
  <2>1. PICK other \in ToSet(ls) : x \in Of(other)
    BY ContentsMember
  <2>2. other # layer
    BY <1>2, <2>1, OfMember
  <2>. QED
    BY <2>1, <2>2, ContentsMember
<1>. QED
  BY <1>1, <1>2 DEF Without

LEMMA ReplaceContents ==
    ASSUME NEW ls \in Seq(Layer), NoDuplicates(ls), NEW layer \in ToSet(ls),
           NEW other, NEW new, ToSet(new) = (ToSet(ls) \ {layer}) \cup {other}
    PROVE  Contents(new) = Without(Contents(ls), layer.id) \cup Of(other)
<1> DEFINE rest == {Of(l) : l \in ToSet(ls) \ {layer}}
<1>1. Contents(new) = (UNION rest) \cup Of(other)
  BY DEF Contents
<1>2. (UNION rest) = Without(Contents(ls), layer.id)
  <2>1. ASSUME NEW x \in UNION rest PROVE x \in Contents(ls) /\ x[1] # layer.id
    <3>1. PICK l \in ToSet(ls) \ {layer} : x \in Of(l)
      OBVIOUS
    <3>2. l.id # layer.id
      BY <3>1, SameIdSame
    <3>. QED
      BY <3>1, <3>2, ContentsMember, OfMember
  <2>2. ASSUME NEW x \in Contents(ls), x[1] # layer.id PROVE x \in UNION rest
    <3>1. PICK l \in ToSet(ls) : x \in Of(l)
      BY ContentsMember
    <3>2. l # layer
      BY <2>2, <3>1, OfMember
    <3>. QED
      BY <3>1, <3>2
  <2>. QED
    BY <2>1, <2>2 DEF Without
<1>. QED
  BY <1>1, <1>2

\* The contents, and those of one layer.
LEMMA SplitContents ==
    ASSUME NEW ls \in Seq(Layer), NoDuplicates(ls), NEW layer \in ToSet(ls)
    PROVE  Contents(ls) = Without(Contents(ls), layer.id) \cup Of(layer)
<1>1. \A x \in Contents(ls) : x[1] = layer.id => x \in Of(layer)
  BY ContentsOfLayer
<1>2. Of(layer) \subseteq Contents(ls)
  BY ContentsOfLayer
<1>. QED
  BY <1>1, <1>2 DEF Without

LEMMA InsertDistinct ==
    ASSUME NEW ls \in Seq(Layer), Distinct(ls), NEW i \in 1..Len(ls) + 1,
           NEW layer \in Layer, layer.id \notin Ids(ls), NoDuplicates(layer.strokes)
    PROVE  /\ InsertAt(ls, i, layer) \in Seq(Layer)
           /\ Distinct(InsertAt(ls, i, layer))
           /\ Contents(InsertAt(ls, i, layer)) = Contents(ls) \cup Of(layer)
<1>1. InsertAt(ls, i, layer) \in Seq(Layer)
  BY InsertAtProperties
<1>2. /\ ToSet(InsertAt(ls, i, layer)) = ToSet(ls) \cup {layer}
      /\ NoDuplicates(InsertAt(ls, i, layer))
  BY InsertSet DEF Distinct
<1>3. Contents(InsertAt(ls, i, layer)) = Contents(ls) \cup Of(layer)
  BY <1>2, InsertContents
<1>. QED
  BY <1>1, <1>2, <1>3 DEF Distinct

LEMMA RemoveDistinct ==
    ASSUME NEW ls \in Seq(Layer), Distinct(ls), NEW i \in 1..Len(ls)
    PROVE  /\ RemoveAt(ls, i) \in Seq(Layer)
           /\ Len(RemoveAt(ls, i)) = Len(ls) - 1
           /\ Distinct(RemoveAt(ls, i))
           /\ Contents(RemoveAt(ls, i)) = Without(Contents(ls), ls[i].id)
           /\ ls[i].id \notin Ids(RemoveAt(ls, i))
<1>1. RemoveAt(ls, i) \in Seq(Layer) /\ Len(RemoveAt(ls, i)) = Len(ls) - 1
  BY RemoveAtProperties
<1>2. /\ ToSet(RemoveAt(ls, i)) = ToSet(ls) \ {ls[i]}
      /\ NoDuplicates(RemoveAt(ls, i))
      /\ ls[i] \in ToSet(ls)
  BY RemoveSet, SetMember DEF Distinct
<1>3. Contents(RemoveAt(ls, i)) = Without(Contents(ls), ls[i].id)
  BY <1>2, RemoveContents DEF Distinct
<1>4. ls[i].id \notin Ids(RemoveAt(ls, i))
  <2>1. <<ls[i].id, 0>> \notin Contents(RemoveAt(ls, i))
    BY <1>3 DEF Without
  <2>. QED
    BY <1>1, <2>1, LayerOf
<1>. QED
  BY <1>1, <1>2, <1>3, <1>4 DEF Distinct

LEMMA StrokesReplacedDistinct ==
    ASSUME NEW ls \in Seq(Layer), Distinct(ls), NEW p \in 1..Len(ls),
           NEW strokes \in Seq(Stroke), NoDuplicates(strokes)
    PROVE  /\ Distinct(WithStrokes(ls, p, strokes))
           /\ Contents(WithStrokes(ls, p, strokes)) =
                Without(Contents(ls), ls[p].id)
                  \cup {<<ls[p].id, s>> : s \in {0} \cup Ids(strokes)}
<1> DEFINE l == [ls[p] EXCEPT !.strokes = strokes]
           after == WithStrokes(ls, p, strokes)
<1>1. ls[p] \in Layer
  BY ElementOfSeq
<1>2. l \in Layer /\ l.id = ls[p].id /\ l.strokes = strokes
  BY <1>1 DEF Layer
<1>3. after = [ls EXCEPT ![p] = l]
  BY DEF WithStrokes
<1> HIDE DEF l, after
<1>4. /\ after \in Seq(Layer)
      /\ Len(after) = Len(ls)
      /\ \A i \in 1..Len(ls) : after[i] = IF i = p THEN l ELSE ls[i]
  BY <1>2, <1>3, ExceptSeq
<1>5. NoDuplicates(ls) /\ ls[p] \in ToSet(ls)
  BY SetMember DEF Distinct
<1>6. /\ ToSet(after) = (ToSet(ls) \ {ls[p]}) \cup {l}
      /\ NoDuplicates(after)
  BY <1>2, <1>4, <1>5, ReplaceSet
<1>7. Distinct(after)
  BY <1>2, <1>6 DEF Distinct
<1>8. Contents(after) = Without(Contents(ls), ls[p].id) \cup Of(l)
  BY <1>5, <1>6, ReplaceContents
<1>9. Of(l) = {<<ls[p].id, s>> : s \in {0} \cup Ids(strokes)}
  BY <1>2, Zenon DEF Of
<1>. QED
  BY <1>7, <1>8, <1>9, Zenon DEF after

LEMMA AppendDistinct ==
    ASSUME NEW S, NEW seq \in Seq(S), NoDuplicates(seq), NEW x \in S, x.id \notin Ids(seq)
    PROVE  NoDuplicates(Append(seq, x)) /\ Ids(Append(seq, x)) = Ids(seq) \cup {x.id}
<1> DEFINE n == Len(seq)
           new == Append(seq, x)
<1>1. /\ n \in Nat /\ DOMAIN seq = 1..n
      /\ new \in Seq(S) /\ Len(new) = n + 1 /\ DOMAIN new = 1..n + 1
      /\ \A i \in 1..n : new[i] = seq[i]
      /\ new[n + 1] = x
  BY AppendProperties, LenProperties
<1>2. \A i \in 1..n : seq[i].id # x.id
  BY <1>1 DEF Ids
<1>3. \A i, j \in 1..n : seq[i].id = seq[j].id => i = j
  BY <1>1, Zenon DEF NoDuplicates
<1>a. Ids(seq) = {seq[i].id : i \in 1..n} /\ Ids(new) = {new[i].id : i \in 1..n + 1}
  BY <1>1, Zenon DEF Ids
<1> HIDE DEF n, new
<1>4. ASSUME NEW i \in 1..n + 1, NEW j \in 1..n + 1, new[i].id = new[j].id PROVE i = j
  <2>1. CASE i \in 1..n /\ j \in 1..n
    BY <1>1, <1>3, <1>4, <2>1
  <2>2. CASE i = n + 1 \/ j = n + 1
    <3>1. \A k \in 1..n + 1 : k # n + 1 => k \in 1..n
      BY <1>1
    <3>. QED
      BY <1>1, <1>2, <1>4, <2>2, <3>1
  <2>. QED
    BY <1>1, <2>1, <2>2
<1>5. NoDuplicates(new)
  BY <1>1, <1>4, Zenon DEF NoDuplicates
<1>6. Ids(new) = Ids(seq) \cup {x.id}
  <2>1. \A k \in 1..n + 1 : k = n + 1 \/ k \in 1..n
    BY <1>1
  <2>2. n + 1 \in 1..n + 1 /\ \A k \in 1..n : k \in 1..n + 1
    BY <1>1
  <2>. QED
    BY <1>1, <1>a, <2>1, <2>2
<1>. QED
  BY <1>5, <1>6 DEF new

\* Removing by id.
LEMMA RemoveAtIds ==
    ASSUME NEW S, NEW seq \in Seq(S), NoDuplicates(seq), NEW i \in 1..Len(seq)
    PROVE  Ids(RemoveAt(seq, i)) = Ids(seq) \ {seq[i].id}
<1>1. /\ RemoveAt(seq, i) \in Seq(S) /\ seq[i] \in ToSet(seq)
      /\ ToSet(RemoveAt(seq, i)) = ToSet(seq) \ {seq[i]}
  BY RemoveAtProperties, SetMember, RemoveSet
<1>2. /\ Ids(seq) = {x.id : x \in ToSet(seq)}
      /\ Ids(RemoveAt(seq, i)) = {x.id : x \in ToSet(RemoveAt(seq, i))}
  BY <1>1, SetMember
<1>3. \A x \in ToSet(seq) : x.id = seq[i].id => x = seq[i]
  BY <1>1, SameIdSame
<1>. QED
  BY <1>1, <1>2, <1>3

(***************************************************************************)
(* An edit that leads from the contents of the document to T applies, does *)
(* lead there, keeps ids distinct, and its inverse leads back.             *)
(***************************************************************************)
Leads(e, ls, activeId, T) ==
    /\ CanApply(e, ls)
    /\ Distinct(LayersAfter(e, ls))
    /\ Contents(LayersAfter(e, ls)) = T
    /\ Links(InverseOf(e, ls, activeId), T, Contents(ls))

LEMMA AddStrokeLeads ==
    ASSUME NEW ls \in Seq(Layer), Distinct(ls), NEW activeId, NEW T,
           NEW e \in Edit, e.op = "AddStroke", Links(e, Contents(ls), T)
    PROVE  Leads(e, ls, activeId, T)
<1> DEFINE p == Position(ls, e.layer)
           drawn == ls[p].strokes
           more == Append(drawn, e.stroke)
           S == Contents(ls)
<1>1. /\ <<e.layer, 0>> \in S
      /\ <<e.layer, e.stroke.id>> \notin S
      /\ T = S \cup {<<e.layer, e.stroke.id>>}
  BY DEF Links
<1>2. e.layer \in Ids(ls) /\ NoDuplicates(ls)
  BY <1>1, LayerOf DEF Distinct
<1>3. p \in 1..Len(ls) /\ ls[p] \in ToSet(ls) /\ ls[p].id = e.layer
  BY <1>2, LayerOf
<1>4. drawn \in Seq(Stroke) /\ NoDuplicates(drawn)
  BY <1>3, LayerAt DEF Distinct
<1>5. e.stroke \in Stroke /\ e.stroke.id # 0
  <2>1. e.stroke \in Stroke
    BY EditVariants
  <2>. QED
    BY <2>1 DEF Stroke, StrokeId
<1>6. e.stroke.id \notin Ids(drawn)
  BY <1>1, <1>2, <1>3, <1>5, StrokeOf
<1>7. more \in Seq(Stroke) /\ NoDuplicates(more) /\ Ids(more) = Ids(drawn) \cup {e.stroke.id}
  BY <1>4, <1>5, <1>6, AppendDistinct, AppendProperties
<1>8. LayersAfter(e, ls) = WithStrokes(ls, p, more)
  BY DEF LayersAfter, WithStrokes
<1>9. S = Without(S, e.layer) \cup {<<e.layer, s>> : s \in {0} \cup Ids(drawn)}
  BY <1>2, <1>3, SplitContents DEF Of
<1>10. InverseOf(e, ls, activeId) = RemoveStroke(e.stroke.id, e.layer)
  BY DEF InverseOf
<1> HIDE DEF p, drawn, more, S
<1>11. /\ Distinct(WithStrokes(ls, p, more))
       /\ Contents(WithStrokes(ls, p, more)) =
            Without(S, ls[p].id) \cup {<<ls[p].id, s>> : s \in {0} \cup Ids(more)}
  BY <1>3, <1>7, StrokesReplacedDistinct DEF S
<1>12. Contents(WithStrokes(ls, p, more)) = T
  BY <1>1, <1>3, <1>7, <1>9, <1>11
<1>13. Links(RemoveStroke(e.stroke.id, e.layer), T, S)
  BY <1>1 DEF Links, RemoveStroke
<1>. QED
  BY <1>2, <1>8, <1>10, <1>11, <1>12, <1>13 DEF Leads, CanApply, S

LEMMA RemoveStrokeLeads ==
    ASSUME NEW ls \in Seq(Layer), Distinct(ls), NEW activeId, NEW T,
           NEW e \in Edit, e.op = "RemoveStroke", Links(e, Contents(ls), T)
    PROVE  Leads(e, ls, activeId, T)
<1> DEFINE p == Position(ls, e.layer)
           drawn == ls[p].strokes
           at == Position(drawn, e.id)
           rest == RemoveAt(drawn, at)
           S == Contents(ls)
<1>1. <<e.layer, e.id>> \in S /\ T = S \ {<<e.layer, e.id>>}
  BY DEF Links
<1>2. e.id # 0
  BY EditVariants DEF StrokeId
<1>3. e.layer \in Ids(ls) /\ NoDuplicates(ls)
  <2>1. PICK layer \in ToSet(ls) : <<e.layer, e.id>> \in Of(layer)
    BY <1>1, ContentsMember
  <2>2. layer.id = e.layer
    BY <2>1 DEF Of
  <2>. QED
    BY <2>2, SetMember DEF Distinct
<1>4. p \in 1..Len(ls) /\ ls[p] \in ToSet(ls) /\ ls[p].id = e.layer
  BY <1>3, LayerOf
<1>5. drawn \in Seq(Stroke) /\ NoDuplicates(drawn)
  BY <1>4, LayerAt DEF Distinct
<1>6. e.id \in Ids(drawn)
  BY <1>1, <1>2, <1>3, <1>4, StrokeOf
<1>7. at \in 1..Len(drawn) /\ drawn[at].id = e.id
  BY <1>5, <1>6, PositionFound
<1>8. rest \in Seq(Stroke) /\ NoDuplicates(rest) /\ Ids(rest) = Ids(drawn) \ {e.id}
  BY <1>5, <1>7, RemoveAtProperties, RemoveSet, RemoveAtIds
<1>9. LayersAfter(e, ls) = WithStrokes(ls, p, rest)
  BY DEF LayersAfter, WithStrokes
<1>10. S = Without(S, e.layer) \cup {<<e.layer, s>> : s \in {0} \cup Ids(drawn)}
  BY <1>3, <1>4, SplitContents DEF Of
<1>11. InverseOf(e, ls, activeId) = AddStroke(drawn[at], e.layer)
  BY DEF InverseOf
<1>12. CanApply(e, ls)
  BY <1>3, <1>6 DEF CanApply
<1> HIDE DEF p, drawn, at, rest, S
<1>13. /\ Distinct(WithStrokes(ls, p, rest))
       /\ Contents(WithStrokes(ls, p, rest)) =
            Without(S, ls[p].id) \cup {<<ls[p].id, s>> : s \in {0} \cup Ids(rest)}
  BY <1>4, <1>8, StrokesReplacedDistinct DEF S
<1>14. Contents(WithStrokes(ls, p, rest)) = T
  <2>1. <<e.layer, e.id>> \notin Without(S, e.layer)
    BY DEF Without
  <2>. QED
    BY <1>1, <1>2, <1>4, <1>8, <1>10, <1>13, <2>1
<1>15. <<e.layer, 0>> \in S
  BY <1>3, LayerOf DEF S
<1>16. Links(AddStroke(drawn[at], e.layer), T, S)
  BY <1>1, <1>2, <1>7, <1>15 DEF Links, AddStroke
<1>. QED
  BY <1>9, <1>11, <1>12, <1>13, <1>14, <1>16 DEF Leads, S

LEMMA AddLayerLeads ==
    ASSUME NEW ls \in Seq(Layer), Distinct(ls), NEW activeId, NEW T, Contents(ls) # {},
           NEW e \in Edit, e.op = "AddLayer", Links(e, Contents(ls), T)
    PROVE  Leads(e, ls, activeId, T)
<1> DEFINE S == Contents(ls)
           i == AtMost(e.index, Len(ls) + 1)
           k == e.layer.id
<1>1. Without(S, k) = S /\ NoDuplicates(e.layer.strokes) /\ T = S \cup Of(e.layer)
  BY DEF Links
<1>2. e.layer \in Layer /\ i \in 1..Len(ls) + 1
  BY EditVariants, LenProperties DEF AtMost
<1>3. k \notin Ids(ls)
  <2>1. <<k, 0>> \notin Without(S, k)
    BY DEF Without
  <2>. QED
    BY <1>1, <2>1, LayerOf
<1>4. LayersAfter(e, ls) = InsertAt(ls, i, e.layer)
  BY DEF LayersAfter
<1>5. InverseOf(e, ls, activeId) = RemoveLayer(k)
  BY DEF InverseOf
<1>6. CanApply(e, ls)
  BY DEF CanApply
<1>a. S # {}
  OBVIOUS
<1> HIDE DEF S, i
<1>7. /\ Distinct(InsertAt(ls, i, e.layer))
      /\ Contents(InsertAt(ls, i, e.layer)) = T
  BY <1>1, <1>2, <1>3, InsertDistinct DEF S
<1>8. <<k, 0>> \in T /\ Without(T, k) = S
  BY <1>1 DEF Of, Without
<1>9. Links(RemoveLayer(k), T, S)
  BY <1>8, <1>a DEF Links, RemoveLayer
<1>. QED
  BY <1>4, <1>5, <1>6, <1>7, <1>9 DEF Leads, S

LEMMA RemoveLayerLeads ==
    ASSUME NEW ls \in Seq(Layer), Distinct(ls), NEW activeId, NEW T,
           NEW e \in Edit, e.op = "RemoveLayer", Links(e, Contents(ls), T)
    PROVE  Leads(e, ls, activeId, T)
<1> DEFINE S == Contents(ls)
           p == Position(ls, e.id)
           l == ls[p]
           restores == AddLayer(l, p, e.id = activeId)
<1>1. <<e.id, 0>> \in S /\ T = Without(S, e.id) /\ T # {}
  BY DEF Links
<1>2. e.id \in Ids(ls) /\ NoDuplicates(ls)
  BY <1>1, LayerOf DEF Distinct
<1>3. p \in 1..Len(ls) /\ l \in ToSet(ls) /\ l.id = e.id
  BY <1>2, LayerOf
<1>4. LayersAfter(e, ls) = RemoveAt(ls, p)
  BY DEF LayersAfter
<1>5. InverseOf(e, ls, activeId) = restores
  BY DEF InverseOf
<1>6. Len(ls) > 1
  <2>1. PICK x \in T : TRUE
    BY <1>1
  <2>2. PICK other \in ToSet(ls) : x \in Of(other)
    BY <1>1, <2>1, ContentsMember DEF Without
  <2>3. other # l
    BY <1>1, <1>3, <2>1, <2>2, OfMember DEF Without
  <2>4. PICK q \in 1..Len(ls) : ls[q] = other
    BY SetMember
  <2>5. q # p
    BY <2>3, <2>4
  <2>. QED
    BY <1>3, <2>4, <2>5, LenProperties
<1>7. CanApply(e, ls)
  BY <1>2, <1>6 DEF CanApply
<1>8. NoDuplicates(l.strokes)
  BY <1>3 DEF Distinct
<1>9. S = Without(S, e.id) \cup Of(l)
  BY <1>2, <1>3, SplitContents
<1>10. Distinct(RemoveAt(ls, p)) /\ Contents(RemoveAt(ls, p)) = T
  BY <1>1, <1>3, RemoveDistinct
<1> HIDE DEF S, p, l
<1>11. Without(T, e.id) = T /\ S = T \cup Of(l)
  BY <1>1, <1>9 DEF Without
<1>12. restores.op = "AddLayer" /\ restores.layer = l
  BY DEF AddLayer
<1> HIDE DEF restores
<1>13. Links(restores, T, S)
  BY <1>3, <1>8, <1>11, <1>12 DEF Links
<1>. QED
  BY <1>4, <1>5, <1>7, <1>10, <1>13 DEF Leads, S

LEMMA MoveLayerLeads ==
    ASSUME NEW ls \in Seq(Layer), Distinct(ls), NEW activeId, NEW T,
           NEW e \in Edit, e.op = "MoveLayer", Links(e, Contents(ls), T)
    PROVE  Leads(e, ls, activeId, T)
<1> DEFINE S == Contents(ls)
           p == Position(ls, e.id)
           l == ls[p]
           i == AtMost(e.index, Len(ls))
           rest == RemoveAt(ls, p)
           back == MoveLayer(e.id, p)
<1>1. <<e.id, 0>> \in S /\ T = S
  BY DEF Links
<1>2. e.id \in Ids(ls) /\ NoDuplicates(ls)
  BY <1>1, LayerOf DEF Distinct
<1>3. p \in 1..Len(ls) /\ l \in ToSet(ls) /\ l.id = e.id /\ l \in Layer
  BY <1>2, LayerOf, LayerAt
<1>4. LayersAfter(e, ls) = InsertAt(rest, i, l)
  BY DEF LayersAfter
<1>5. InverseOf(e, ls, activeId) = back
  BY DEF InverseOf
<1>6. CanApply(e, ls)
  BY <1>2 DEF CanApply
<1>7. NoDuplicates(l.strokes)
  BY <1>3 DEF Distinct
<1>8. S = Without(S, e.id) \cup Of(l)
  BY <1>2, <1>3, SplitContents
<1>9. /\ rest \in Seq(Layer) /\ Len(rest) = Len(ls) - 1
      /\ Distinct(rest)
      /\ Contents(rest) = Without(S, e.id)
      /\ e.id \notin Ids(rest)
  BY <1>3, RemoveDistinct
<1>10. i \in 1..Len(rest) + 1
  BY <1>3, <1>9, EditVariants, LenProperties DEF AtMost
<1>11. back.op = "MoveLayer" /\ back.id = e.id
  BY DEF MoveLayer
<1> HIDE DEF S, p, l, i, rest, back
<1>12. Distinct(InsertAt(rest, i, l)) /\ Contents(InsertAt(rest, i, l)) = S
  BY <1>3, <1>7, <1>8, <1>9, <1>10, InsertDistinct
<1>13. Links(back, T, S)
  BY <1>1, <1>11 DEF Links
<1>. QED
  BY <1>1, <1>4, <1>5, <1>6, <1>12, <1>13 DEF Leads, S

LEMMA EditLeads ==
    ASSUME NEW ls \in Seq(Layer), Distinct(ls), NEW activeId, NEW T, Contents(ls) # {},
           NEW e \in Edit, Links(e, Contents(ls), T)
    PROVE  Leads(e, ls, activeId, T)
BY EditVariants, AddStrokeLeads, RemoveStrokeLeads, AddLayerLeads, RemoveLayerLeads, MoveLayerLeads

(***************************************************************************)
(* A stack of edits: applied from its top they lead from S through         *)
(* contents in V, each of which the next edit is sure to apply to.         *)
(***************************************************************************)
Chain(V, stack, S) ==
    \E v \in [1..Len(stack) + 1 -> V] :
        /\ v[Len(stack) + 1] = S
        /\ \A i \in 1..Len(stack) : Links(stack[i], v[i + 1], v[i])

LEMMA ChainEmpty ==
    ASSUME NEW V, NEW S \in V
    PROVE  Chain(V, << >>, S)
<1> DEFINE v == [i \in 1..1 |-> S]
<1>1. Len(<< >>) = 0
  BY EmptySeq
<1>2. v \in [1..0 + 1 -> V] /\ v[0 + 1] = S
  OBVIOUS
<1>3. \A i \in 1..0 : Links(<< >>[i], v[i + 1], v[i])
  OBVIOUS
<1> HIDE DEF v
<1>. QED
  BY <1>1, <1>2, <1>3, Zenon DEF Chain

LEMMA ChainWithin ==
    ASSUME NEW V, NEW stack, NEW S, Chain(V, stack, S), NEW W, V \subseteq W,
           stack \in Seq(Edit)
    PROVE  S \in V /\ Chain(W, stack, S)
<1>1. PICK v \in [1..Len(stack) + 1 -> V] :
        /\ v[Len(stack) + 1] = S
        /\ \A i \in 1..Len(stack) : Links(stack[i], v[i + 1], v[i])
  BY Zenon DEF Chain
<1>2. v \in [1..Len(stack) + 1 -> W] /\ S \in V
  BY <1>1, LenProperties
<1>. QED
  BY <1>1, <1>2, Zenon DEF Chain

LEMMA ChainPush ==
    ASSUME NEW V, NEW stack \in Seq(Edit), NEW T, Chain(V, stack, T),
           NEW S \in V, NEW e \in Edit, Links(e, S, T)
    PROVE  Chain(V, Append(stack, e), S)
<1> DEFINE n == Len(stack)
           new == Append(stack, e)
<1>1. PICK v \in [1..n + 1 -> V] :
        /\ v[n + 1] = T
        /\ \A i \in 1..n : Links(stack[i], v[i + 1], v[i])
  BY Zenon DEF Chain
<1>2. /\ n \in Nat /\ Len(new) = n + 1
      /\ \A i \in 1..n : new[i] = stack[i]
      /\ new[n + 1] = e
  BY AppendProperties, LenProperties
<1> HIDE DEF n, new
<1> DEFINE w == [i \in 1..n + 2 |-> IF i = n + 2 THEN S ELSE v[i]]
<1>3. /\ w \in [1..Len(new) + 1 -> V]
      /\ w[Len(new) + 1] = S
      /\ w[n + 1] = T
      /\ \A i \in 1..n + 1 : w[i] = v[i]
  BY <1>1, <1>2
<1>4. ASSUME NEW i \in 1..Len(new) PROVE Links(new[i], w[i + 1], w[i])
  <2>1. CASE i \in 1..n
    <3>1. w[i] = v[i] /\ w[i + 1] = v[i + 1] /\ new[i] = stack[i]
      BY <1>2, <1>3, <2>1
    <3>. QED
      BY <1>1, <2>1, <3>1, Zenon
  <2>2. CASE i = n + 1
    <3>1. w[i] = T /\ w[i + 1] = S /\ new[i] = e
      BY <1>2, <1>3, <2>2
    <3>. QED
      BY <3>1, Zenon
  <2>. QED
    BY <1>2, <2>1, <2>2
<1> HIDE DEF w
<1>5. Chain(V, new, S)
  BY <1>3, <1>4, Zenon DEF Chain
<1>. QED
  BY <1>5 DEF new

LEMMA ChainPop ==
    ASSUME NEW V, NEW stack \in Seq(Edit), stack # << >>, NEW S, Chain(V, stack, S)
    PROVE  \E T \in V : Links(Last(stack), S, T) /\ Chain(V, Front(stack), T)
<1> DEFINE n == Len(stack)
           rest == Front(stack)
<1>1. PICK v \in [1..n + 1 -> V] :
        /\ v[n + 1] = S
        /\ \A i \in 1..n : Links(stack[i], v[i + 1], v[i])
  BY Zenon DEF Chain
<1>2. n \in Nat \ {0}
  BY EmptySeq, LenProperties
<1>3. /\ Len(rest) = n - 1
      /\ \A i \in 1..n - 1 : rest[i] = stack[i]
  <2>1. \A i \in 1..n - 1 : stack[i] \in Edit
    BY <1>2, ElementOfSeq
  <2> DEFINE m == n - 1
  <2>2. m \in Nat /\ 1 \in Int /\ m \in Int
    BY <1>2
  <2> HIDE DEF m
  <2>3. /\ Len(SubSeq(stack, 1, m)) = IF 1 <= m THEN m - 1 + 1 ELSE 0
        /\ \A i \in 1..m - 1 + 1 : SubSeq(stack, 1, m)[i] = stack[1 + i - 1]
    BY <2>1, <2>2, SubSeqProperties DEF m
  <2>4. /\ Len(SubSeq(stack, 1, m)) = m
        /\ \A i \in 1..m : SubSeq(stack, 1, m)[i] = stack[i]
    BY <2>2, <2>3
  <2>. QED
    BY <2>4 DEF Front, m
<1>4. Last(stack) = stack[n]
  BY DEF Last
<1> HIDE DEF n, rest
<1> DEFINE w == [i \in 1..n |-> v[i]]
<1>5. w \in [1..Len(rest) + 1 -> V] /\ w[Len(rest) + 1] = v[n] /\ v[n] \in V
  BY <1>2, <1>3
<1>6. ASSUME NEW i \in 1..Len(rest) PROVE Links(rest[i], w[i + 1], w[i])
  <2>1. /\ w[i] = v[i] /\ w[i + 1] = v[i + 1] /\ rest[i] = stack[i]
        /\ i \in 1..n
    BY <1>2, <1>3
  <2>. QED
    BY <1>1, <2>1, Zenon
<1> HIDE DEF w
<1>7. Chain(V, rest, v[n])
  BY <1>5, <1>6, Zenon DEF Chain
<1>8. Links(stack[n], S, v[n])
  BY <1>1, <1>2
<1>. QED
  BY <1>4, <1>5, <1>7, <1>8 DEF rest

(***************************************************************************)
(* The inductive invariant.                                                *)
(***************************************************************************)

\* Contents made of ids that were minted, a stroke on one layer.
Versions ==
    {S \in SUBSET (KnownLayers \X ({0} \cup KnownStrokes)) : Separate(S)}

\* Ids are distinct and both stacks lead on from the document. That a stroke
\* in flight is not in it yet, and that nothing holds an id that is still to
\* be minted, is what keeps a commit from being the second of its id.
HInv ==
    /\ IInv
    /\ Distinct(layers)
    /\ Chain(Versions, past, Contents(layers))
    /\ Chain(Versions, future, Contents(layers))
    /\ HasActiveStroke => /\ active.id \in KnownStrokes
                          /\ \A x \in Contents(layers) : x[2] # active.id

LEMMA InitHInv == Init => HInv
<1> SUFFICES ASSUME Init PROVE HInv
  OBVIOUS
<1>1. IInv
  BY InitIInv
<1> USE DEF Init
<1>2. layers \in Seq(Layer) /\ NoDuplicates(layers)
  <2>1. layers \in Seq(Layer)
    BY <1>1 DEF IInv, TypeOK
  <2>2. DOMAIN layers = {1}
    OBVIOUS
  <2>. QED
    BY <2>1, <2>2, Zenon DEF NoDuplicates
<1>3. ToSet(layers) = {NewLayer(1)}
  BY DEF ToSet
<1>4. NewLayer(1).id = 1 /\ NewLayer(1).strokes = << >>
  BY DEF NewLayer
<1>5. NoDuplicates(<< >>) /\ Ids(<< >>) = {}
  BY DEF NoDuplicates, Ids
<1>6. Distinct(layers)
  BY <1>2, <1>3, <1>4, <1>5 DEF Distinct
<1>7. Contents(layers) = {<<1, 0>>}
  <2>1. Of(NewLayer(1)) = {<<1, 0>>}
    BY <1>4, <1>5 DEF Of
  <2>. QED
    BY <1>3, <2>1 DEF Contents
<1>8. Contents(layers) \in Versions
  <2>1. KnownLayers = {1}
    BY DEF KnownLayers
  <2>. QED
    BY <1>7, <2>1 DEF Versions, Separate
<1>9. Chain(Versions, past, Contents(layers)) /\ Chain(Versions, future, Contents(layers))
  BY <1>8, ChainEmpty, Zenon
<1>. QED
  BY <1>1, <1>6, <1>9 DEF HInv, HasActiveStroke

(***************************************************************************)
(* What recording an edit, and taking one back, does to the invariant.     *)
(***************************************************************************)
LEMMA SomethingThere == IInv => Contents(layers) # {}
<1> SUFFICES ASSUME IInv PROVE Contents(layers) # {}
  OBVIOUS
<1>1. layers \in Seq(Layer) /\ activeLayer \in Ids(layers)
  BY DEF IInv, TypeOK, ActiveLayerExists
<1>2. <<activeLayer, 0>> \in Contents(layers)
  BY <1>1, LayerOf
<1>. QED
  BY <1>2

LEMMA CommitChains ==
    ASSUME HInv, NEW e \in Edit, Commit(e), NEW W, Versions \subseteq W,
           NEW T \in W, Links(e, Contents(layers), T)
    PROVE  /\ Distinct(layers') /\ Contents(layers') = T
           /\ Chain(W, past', T) /\ Chain(W, future', T)
<1>1. /\ layers \in Seq(Layer) /\ past \in Seq(Edit) /\ Distinct(layers)
      /\ Chain(Versions, past, Contents(layers))
      /\ Contents(layers) # {}
  BY SomethingThere DEF HInv, IInv, TypeOK
<1> DEFINE inverse == InverseOf(e, layers, activeLayer)
<1>2. /\ layers' = LayersAfter(e, layers)
      /\ past' = Append(past, inverse)
      /\ future' = << >>
  BY DEF Commit
<1>3. Leads(e, layers, activeLayer, T)
  BY <1>1, EditLeads
<1>4. CanApply(e, layers) /\ Distinct(layers') /\ Contents(layers') = T
      /\ Links(inverse, T, Contents(layers))
  BY <1>2, <1>3 DEF Leads
<1>5. inverse \in Edit
  BY <1>1, <1>4, EditTyped
<1> HIDE DEF inverse
<1>6. Chain(W, past, Contents(layers))
  BY <1>1, ChainWithin
<1>7. Chain(W, past', T)
  BY <1>1, <1>2, <1>4, <1>5, <1>6, ChainPush
<1>8. Chain(W, future', T)
  BY <1>2, ChainEmpty
<1>. QED
  BY <1>4, <1>7, <1>8

LEMMA PopChains ==
    ASSUME HInv, NEW from \in Seq(Edit), from # << >>, NEW to \in Seq(Edit),
           Chain(Versions, from, Contents(layers)), Chain(Versions, to, Contents(layers))
    PROVE  /\ CanApply(Last(from), layers)
           /\ Distinct(LayersAfter(Last(from), layers))
           /\ Chain(Versions, Front(from), Contents(LayersAfter(Last(from), layers)))
           /\ Chain(Versions, Append(to, InverseOf(Last(from), layers, activeLayer)),
                    Contents(LayersAfter(Last(from), layers)))
<1>1. layers \in Seq(Layer) /\ Distinct(layers) /\ Contents(layers) # {}
  BY SomethingThere DEF HInv, IInv, TypeOK
<1> DEFINE e == Last(from)
           inverse == InverseOf(e, layers, activeLayer)
<1>2. e \in Edit
  BY LastAndFront
<1>3. PICK T \in Versions : Links(e, Contents(layers), T) /\ Chain(Versions, Front(from), T)
  BY ChainPop
<1> HIDE DEF e
<1>4. Leads(e, layers, activeLayer, T)
  BY <1>1, <1>2, <1>3, EditLeads
<1>5. /\ CanApply(e, layers) /\ Distinct(LayersAfter(e, layers))
      /\ Contents(LayersAfter(e, layers)) = T
      /\ Links(inverse, T, Contents(layers))
  BY <1>4 DEF Leads
<1>6. inverse \in Edit
  BY <1>1, <1>2, <1>5, EditTyped
<1> HIDE DEF inverse
<1>7. Chain(Versions, Append(to, inverse), T)
  BY <1>3, <1>5, <1>6, ChainPush
<1>. QED
  BY <1>3, <1>5, <1>7 DEF e, inverse

(***************************************************************************)
(* One lemma per action that the invariant is not immediate for.           *)
(***************************************************************************)
LEMMA SameVersions ==
    ASSUME UNCHANGED ids
    PROVE  Versions' = Versions /\ KnownStrokes' = KnownStrokes
BY DEF ids, Versions, KnownLayers, KnownStrokes

\* Ids below the counters.
LEMMA ContentsMinted ==
    ASSUME HInv
    PROVE  /\ Contents(layers) \in Versions
           /\ \A x \in Contents(layers) : /\ x = <<x[1], x[2]>>
                                          /\ x[1] \in KnownLayers
                                          /\ x[2] \in {0} \cup KnownStrokes
<1>1. Contents(layers) \in Versions
  BY ChainWithin DEF HInv, IInv, TypeOK
<1>. QED
  BY <1>1 DEF Versions

LEMMA KnownIds ==
    ASSUME HInv
    PROVE  /\ Ids(layers) \subseteq KnownLayers
           /\ HasActiveStroke => active.id \in KnownStrokes /\ activeStrokeLayer \in Ids(layers)
           /\ NoDuplicates(layers) /\ ~panicked
<1>1. layers \in Seq(Layer)
  BY DEF HInv, IInv, TypeOK
<1>2. ASSUME NEW k \in Ids(layers) PROVE k \in KnownLayers
  <2>1. <<k, 0>> \in Contents(layers)
    BY <1>1, LayerOf
  <2>. QED
    BY <2>1, ContentsMinted
<1>. QED
  BY <1>2 DEF HInv, IInv, StrokeTargetExists, NeverPanics, Distinct

LEMMA BeginStrokeHInv ==
    ASSUME HInv, NEW sample \in NewSamples, BeginStroke(sample)
    PROVE  HInv'
<1>1. IInv'
  BY BeginStrokeIInv DEF HInv
<1>2. nextStrokeId \in Nat \ {0} /\ past \in Seq(Edit) /\ future \in Seq(Edit)
  BY DEF HInv, IInv, TypeOK, StrokeId
<1>3. /\ layers' = layers /\ past' = past /\ future' = future
      /\ nextLayerId' = nextLayerId /\ nextStrokeId' = nextStrokeId + 1
      /\ active'.id = nextStrokeId
  BY DEF BeginStroke, docVars, history
<1>4. /\ KnownStrokes \subseteq KnownStrokes' /\ nextStrokeId \in KnownStrokes'
      /\ 0 # nextStrokeId /\ nextStrokeId \notin KnownStrokes
      /\ KnownLayers' = KnownLayers
  BY <1>2, <1>3 DEF KnownStrokes, KnownLayers
<1>5. Versions \subseteq Versions'
  BY <1>4 DEF Versions
<1>6. /\ Chain(Versions', past, Contents(layers))
      /\ Chain(Versions', future, Contents(layers))
  BY <1>2, <1>5, ChainWithin DEF HInv
<1>7. \A x \in Contents(layers) : x[2] # nextStrokeId
  BY <1>4, ContentsMinted
<1>8. Distinct(layers)
  BY DEF HInv
<1>. QED
  BY <1>1, <1>3, <1>4, <1>6, <1>7, <1>8 DEF HInv

LEMMA AddSampleHInv ==
    ASSUME HInv, NEW id, NEW sample \in NewSamples, AddSample(id, sample)
    PROVE  HInv'
<1>1. IInv'
  BY AddSampleIInv DEF HInv
<1>2. UNCHANGED <<layers, past, future, ids>> /\ HasActiveStroke
  BY DEF AddSample, docVars, history, ids
<1>3. active'.id = active.id
  <2>1. active \in Stroke
    BY <1>2, ActiveTyped DEF HInv, IInv
  <2>. QED
    BY <2>1 DEF AddSample, Stroke
<1>. QED
  BY <1>1, <1>2, <1>3, SameVersions DEF HInv

LEMMA CancelStrokeHInv ==
    ASSUME HInv, NEW id, CancelStroke(id)
    PROVE  HInv'
<1>1. IInv'
  BY CancelStrokeIInv DEF HInv
<1>2. UNCHANGED <<layers, past, future, ids>> /\ ~HasActiveStroke'
  BY DEF CancelStroke, docVars, history, ids, HasActiveStroke
<1>. QED
  BY <1>1, <1>2, SameVersions DEF HInv

LEMMA SetActiveLayerHInv ==
    ASSUME HInv, NEW id \in KnownLayers, SetActiveLayer(id)
    PROVE  HInv'
<1>1. IInv'
  BY SetActiveLayerIInv DEF HInv
<1>2. UNCHANGED <<layers, past, future, ids, active>>
  BY DEF SetActiveLayer, history, ids, strokeVars
<1>. QED
  BY <1>1, <1>2, SameVersions DEF HInv, HasActiveStroke

\* Revisions and attributes leave the contents as they are.
LEMMA ReviseContents ==
    ASSUME NEW ls \in Seq(Layer), Distinct(ls), NEW id, NEW u, RevisableLayers(ls, id, u) # {}
    PROVE  /\ Distinct(ReviseLayers(ls, id, u))
           /\ Contents(ReviseLayers(ls, id, u)) = Contents(ls)
<1> DEFINE p == Max(RevisableLayers(ls, id, u))
           drawn == ls[p].strokes
           n == Len(drawn)
           revised == Revise(drawn[n], u)
           new == [drawn EXCEPT ![n] = revised]
<1>1. DOMAIN ls = 1..Len(ls) /\ Len(ls) \in Nat
  BY LenProperties
<1>2. p \in RevisableLayers(ls, id, u)
  BY <1>1, MaxOfPositions DEF RevisableLayers
<1>3. /\ p \in 1..Len(ls)
      /\ drawn # << >>
      /\ Revisable(drawn[n], u) # {}
  BY <1>1, <1>2 DEF RevisableLayers, Last
<1>4. drawn \in Seq(Stroke) /\ ls[p] \in ToSet(ls) /\ NoDuplicates(drawn) /\ NoDuplicates(ls)
  BY <1>3, LayerAt, SetMember DEF Distinct
<1>5. n \in 1..Len(drawn)
  BY <1>3, <1>4, EmptySeq
<1>6. revised \in Stroke /\ revised.id = drawn[n].id
  BY <1>3, <1>4, <1>5, ElementOfSeq, ReviseTyped
<1>7. ReviseLayers(ls, id, u) = WithStrokes(ls, p, new)
  BY DEF ReviseLayers, WithStrokes
<1>8. Contents(ls) = Without(Contents(ls), ls[p].id)
                       \cup {<<ls[p].id, s>> : s \in {0} \cup Ids(drawn)}
  BY <1>4, SplitContents DEF Of
<1> HIDE DEF revised
<1>9. /\ new \in Seq(Stroke) /\ Len(new) = Len(drawn)
      /\ \A k \in 1..Len(drawn) : new[k] = IF k = n THEN revised ELSE drawn[k]
  BY <1>4, <1>5, <1>6, ExceptSeq
<1> HIDE DEF p, drawn, n, new
<1>10. NoDuplicates(new)
  BY <1>4, <1>5, <1>6, <1>9, ReplaceSet
<1>11. Ids(new) = Ids(drawn)
  <2>1. \A k \in 1..Len(drawn) : new[k].id = drawn[k].id
    BY <1>6, <1>9
  <2>. QED
    BY <1>4, <1>9, <2>1, SameIds
<1>12. /\ Distinct(WithStrokes(ls, p, new))
       /\ Contents(WithStrokes(ls, p, new)) =
            Without(Contents(ls), ls[p].id) \cup {<<ls[p].id, s>> : s \in {0} \cup Ids(new)}
  BY <1>3, <1>9, <1>10, StrokesReplacedDistinct
<1>. QED
  BY <1>7, <1>8, <1>11, <1>12

LEMMA ReviseSampleHInv ==
    ASSUME HInv, NEW id, NEW u, ReviseSample(id, u)
    PROVE  HInv'
<1>1. IInv'
  BY ReviseSampleIInv DEF HInv
<1>2. UNCHANGED <<past, future, ids>> /\ layers \in Seq(Layer) /\ Distinct(layers)
  BY DEF ReviseSample, history, ids, HInv, IInv, TypeOK
<1>3. CASE /\ RevisesActive(id, u)
           /\ active' = Revise(active, u)
           /\ UNCHANGED layers
  <2>1. active'.id = active.id /\ HasActiveStroke
    BY <1>3, ActiveTyped, ReviseTyped DEF RevisesActive, HInv, IInv
  <2>. QED
    BY <1>1, <1>2, <1>3, <2>1, SameVersions DEF HInv
<1>4. CASE /\ RevisableLayers(layers, id, u) # {}
           /\ layers' = ReviseLayers(layers, id, u)
           /\ UNCHANGED active
  <2>1. Distinct(layers') /\ Contents(layers') = Contents(layers)
    BY <1>2, <1>4, ReviseContents
  <2>. QED
    BY <1>1, <1>2, <1>4, <2>1, SameVersions DEF HInv, HasActiveStroke
<1>. QED
  BY <1>3, <1>4 DEF ReviseSample

LEMMA SetLayerPropsHInv ==
    ASSUME HInv, NEW id \in KnownLayers, NEW props \in LayerProps, SetLayerProps(id, props)
    PROVE  HInv'
<1> DEFINE p == Position(layers, id)
           old == layers[p]
           l == [old EXCEPT !.props = props]
<1>1. layers \in Seq(Layer) /\ id \in Ids(layers) /\ Distinct(layers)
  BY DEF SetLayerProps, HInv, IInv, TypeOK
<1>2. p \in 1..Len(layers) /\ old \in ToSet(layers) /\ NoDuplicates(layers)
  BY <1>1, LayerOf DEF Distinct
<1>3. old \in Layer
  BY <1>1, <1>2, LayerAt
<1>4. l \in Layer /\ l.id = old.id /\ l.strokes = old.strokes
  BY <1>3 DEF Layer
<1>5. layers' = [layers EXCEPT ![p] = l]
  BY DEF SetLayerProps
<1>6. IInv' /\ UNCHANGED <<past, future, ids, active>>
  BY SetLayerPropsIInv DEF HInv, SetLayerProps, history, ids, strokeVars
<1> HIDE DEF p, l
<1>7. /\ layers' \in Seq(Layer)
      /\ Len(layers') = Len(layers)
      /\ \A i \in 1..Len(layers) : layers'[i] = IF i = p THEN l ELSE layers[i]
  BY <1>1, <1>2, <1>4, <1>5, ExceptSeq
<1>8. ToSet(layers') = (ToSet(layers) \ {old}) \cup {l} /\ NoDuplicates(layers')
  BY <1>1, <1>2, <1>4, <1>7, ReplaceSet
<1>9. Contents(layers') = Without(Contents(layers), old.id) \cup Of(l)
  BY <1>1, <1>2, <1>8, ReplaceContents
<1>10. Of(l) = Of(old)
  BY <1>4, Zenon DEF Of
<1>11. Contents(layers') = Contents(layers)
  BY <1>1, <1>2, <1>9, <1>10, SplitContents
<1>12. Distinct(layers')
  BY <1>1, <1>2, <1>4, <1>8 DEF Distinct
<1>. QED
  BY <1>6, <1>11, <1>12, SameVersions DEF HInv, HasActiveStroke

LEMMA EndStrokeHInv ==
    ASSUME HInv, NEW id, EndStroke(id)
    PROVE  HInv'
<1> DEFINE S == Contents(layers)
           l == StrokeTarget
           s == active.id
           e == AddStroke(active, l)
           T == S \cup {<<l, s>>}
<1>1. IInv'
  BY EndStrokeIInv DEF HInv
<1>2. HasActiveStroke /\ active \in Stroke /\ ~HasActiveStroke' /\ UNCHANGED ids
  BY ActiveTyped DEF EndStroke, HInv, IInv, HasActiveStroke
<1>3. l \in LayerId /\ l \in Ids(layers) /\ layers \in Seq(Layer)
  BY <1>2, StrokeTargetIsCaptured DEF HInv, IInv, TypeOK
<1>4. <<l, 0>> \in S
  BY <1>3, LayerOf
<1>5. s \in KnownStrokes /\ s # 0 /\ \A x \in S : x[2] # s
  BY <1>2 DEF HInv, Stroke, StrokeId
<1>6. S \in Versions /\ l \in KnownLayers
  BY <1>4, ContentsMinted
<1>7. e \in Edit /\ CanApply(e, layers)
  BY <1>2, <1>3 DEF AddStroke, Edit, CanApply
<1>8. Commit(e)
  BY <1>7, Zenon DEF EndStroke
<1>9. e.op = "AddStroke" /\ e.layer = l /\ e.stroke.id = s
  BY DEF AddStroke
<1> HIDE DEF S, l, s, e
<1>10. <<l, s>> \notin S
  BY <1>5
<1>11. Links(e, S, T)
  BY <1>4, <1>9, <1>10 DEF Links
<1>12. T \in Versions
  <2>1. T \subseteq KnownLayers \X ({0} \cup KnownStrokes)
    BY <1>5, <1>6 DEF Versions
  <2>2. ASSUME NEW x \in T, NEW y \in T, x[2] # 0, x[2] = y[2] PROVE x[1] = y[1]
    BY <1>5, <1>6, <2>2 DEF Versions, Separate
  <2>. QED
    BY <2>1, <2>2 DEF Versions, Separate
<1> HIDE DEF T
<1>13. /\ Distinct(layers') /\ Contents(layers') = T
       /\ Chain(Versions, past', T) /\ Chain(Versions, future', T)
  BY <1>7, <1>8, <1>11, <1>12, CommitChains DEF S
<1>. QED
  BY <1>1, <1>2, <1>13, SameVersions DEF HInv

LEMMA NewTopLayerHInv ==
    ASSUME HInv, NewTopLayer
    PROVE  HInv'
<1> DEFINE S == Contents(layers)
           l == NewLayer(nextLayerId)
           e == AddLayer(l, Len(layers) + 1, FALSE)
           T == S \cup {<<nextLayerId, 0>>}
<1>1. IInv'
  BY NewTopLayerIInv DEF HInv
<1>2. /\ Commit(e) /\ nextLayerId' = nextLayerId + 1
      /\ nextStrokeId' = nextStrokeId /\ active' = active
  BY DEF NewTopLayer, strokeVars
<1>3. l \in Layer /\ l.id = nextLayerId /\ l.strokes = << >>
  BY DefaultPropsAssumption DEF HInv, IInv, TypeOK, NewLayer, Layer
<1>4. Len(layers) + 1 \in Nat \ {0} /\ nextLayerId \in Nat \ {0}
  BY LenProperties DEF HInv, IInv, TypeOK, LayerId
<1>5. e \in Edit /\ e.op = "AddLayer" /\ e.layer = l
  BY <1>3, <1>4 DEF AddLayer, Edit
<1>6. /\ KnownStrokes' = KnownStrokes /\ KnownLayers \subseteq KnownLayers'
      /\ nextLayerId \in KnownLayers' /\ nextLayerId \notin KnownLayers
  BY <1>2, <1>4 DEF KnownStrokes, KnownLayers
<1>7. /\ S \in Versions
      /\ \A x \in S : x[1] \in KnownLayers
  BY ContentsMinted
<1>8. Of(l) = {<<nextLayerId, 0>>} /\ NoDuplicates(l.strokes)
  <2>1. Ids(<< >>) = {} /\ NoDuplicates(<< >>)
    BY DEF Ids, NoDuplicates
  <2>. QED
    BY <1>3, <2>1 DEF Of
<1>9. Without(S, nextLayerId) = S
  BY <1>6, <1>7 DEF Without
<1>10. Versions \subseteq Versions'
  BY <1>6 DEF Versions
<1> HIDE DEF S, l, e
<1>11. Links(e, S, T)
  BY <1>3, <1>5, <1>8, <1>9 DEF Links
<1>12. T \in Versions'
  BY <1>6, <1>7 DEF Versions, Separate
<1>13. /\ Distinct(layers') /\ Contents(layers') = T
       /\ Chain(Versions', past', T) /\ Chain(Versions', future', T)
  BY <1>2, <1>5, <1>10, <1>11, <1>12, CommitChains DEF S
<1>14. HasActiveStroke => /\ active.id \in KnownStrokes
                          /\ active.id # 0
                          /\ \A x \in S : x[2] # active.id
  BY ActiveTyped DEF HInv, IInv, Stroke, StrokeId, S
<1>15. HasActiveStroke => \A x \in T : x[2] # active.id
  BY <1>14
<1> HIDE DEF T
<1>16. HasActiveStroke' => /\ active'.id \in KnownStrokes'
                           /\ \A x \in Contents(layers') : x[2] # active'.id
  BY <1>2, <1>6, <1>13, <1>14, <1>15 DEF HasActiveStroke
<1>. QED
  BY <1>1, <1>13, <1>16 DEF HInv

LEMMA DropLayerHInv ==
    ASSUME HInv, NEW id \in KnownLayers, DropLayer(id)
    PROVE  HInv'
<1> DEFINE S == Contents(layers)
           e == RemoveLayer(id)
           T == Without(S, id)
<1>1. IInv'
  BY DropLayerIInv DEF HInv
<1>2. Commit(e) /\ CanApply(e, layers) /\ ~HasActiveStroke' /\ UNCHANGED ids
  BY DEF DropLayer, HasActiveStroke, strokeVars
<1>3. id \in LayerId /\ layers \in Seq(Layer) /\ Distinct(layers)
  BY DEF KnownLayers, LayerId, HInv, IInv, TypeOK
<1>4. e \in Edit /\ e.op = "RemoveLayer" /\ e.id = id
  BY <1>3 DEF RemoveLayer, Edit
<1>5. Len(layers) > 1 /\ id \in Ids(layers)
  BY <1>2, <1>4 DEF CanApply
<1>6. <<id, 0>> \in S
  BY <1>3, <1>5, LayerOf
<1>7. T # {}
  <2>1. PICK q \in 1..Len(layers) : layers[q].id # id
    <3>1. DOMAIN layers = 1..Len(layers) /\ Len(layers) \in Nat
      BY <1>3, LenProperties
    <3>2. 1 \in DOMAIN layers /\ 2 \in DOMAIN layers
      BY <1>5, <3>1
    <3>3. layers[1].id # layers[2].id
      BY <1>3, <3>2 DEF Distinct, NoDuplicates
    <3>. QED
      BY <3>1, <3>2, <3>3
  <2>2. layers[q] \in ToSet(layers) /\ NoDuplicates(layers)
    BY <1>3, SetMember DEF Distinct
  <2>3. <<layers[q].id, 0>> \in S
    BY <1>3, <2>2, ContentsOfLayer
  <2>. QED
    BY <2>1, <2>3 DEF Without
<1>8. S \in Versions
  BY ContentsMinted
<1> HIDE DEF S, e
<1>9. Links(e, S, T)
  BY <1>4, <1>6, <1>7 DEF Links
<1>10. T \in Versions
  <2>1. T \subseteq S
    BY DEF Without
  <2>. QED
    BY <1>8, <2>1 DEF Versions, Separate
<1>11. /\ Distinct(layers') /\ Contents(layers') = T
       /\ Chain(Versions, past', T) /\ Chain(Versions, future', T)
  BY <1>2, <1>4, <1>9, <1>10, CommitChains DEF S
<1>. QED
  BY <1>1, <1>2, <1>11, SameVersions DEF HInv

LEMMA ReorderLayerHInv ==
    ASSUME HInv, NEW id \in KnownLayers, NEW index \in 1..Len(layers) + 1, ReorderLayer(id, index)
    PROVE  HInv'
<1> DEFINE S == Contents(layers)
           e == MoveLayer(id, index)
<1>1. IInv'
  BY ReorderLayerIInv DEF HInv
<1>2. Commit(e) /\ CanApply(e, layers) /\ UNCHANGED <<active, ids>>
  BY DEF ReorderLayer, strokeVars
<1>3. id \in LayerId /\ layers \in Seq(Layer)
  BY DEF KnownLayers, LayerId, HInv, IInv, TypeOK
<1>4. e \in Edit /\ e.op = "MoveLayer" /\ e.id = id
  BY <1>3, LenProperties DEF MoveLayer, Edit
<1>5. <<id, 0>> \in S
  BY <1>2, <1>3, <1>4, LayerOf DEF CanApply
<1>6. S \in Versions
  BY ContentsMinted
<1> HIDE DEF S, e
<1>7. Links(e, S, S)
  BY <1>4, <1>5 DEF Links
<1>8. /\ Distinct(layers') /\ Contents(layers') = S
      /\ Chain(Versions, past', S) /\ Chain(Versions, future', S)
  BY <1>2, <1>4, <1>6, <1>7, CommitChains DEF S
<1>. QED
  BY <1>1, <1>2, <1>8, SameVersions DEF HInv, HasActiveStroke, S

LEMMA UndoHInv ==
    ASSUME HInv, Undo
    PROVE  HInv'
<1>1. IInv'
  BY UndoIInv DEF HInv
<1>2. /\ past \in Seq(Edit) /\ future \in Seq(Edit) /\ past # << >>
      /\ Chain(Versions, past, Contents(layers)) /\ Chain(Versions, future, Contents(layers))
      /\ ~HasActiveStroke' /\ UNCHANGED ids
  BY DEF HInv, IInv, TypeOK, Undo, HasActiveStroke, strokeVars
<1>3. /\ CanApply(Last(past), layers)
      /\ Distinct(LayersAfter(Last(past), layers))
      /\ Chain(Versions, Front(past), Contents(LayersAfter(Last(past), layers)))
      /\ Chain(Versions, Append(future, InverseOf(Last(past), layers, activeLayer)),
               Contents(LayersAfter(Last(past), layers)))
  BY <1>2, PopChains
<1>4. /\ layers' = LayersAfter(Last(past), layers)
      /\ past' = Front(past)
      /\ future' = Append(future, InverseOf(Last(past), layers, activeLayer))
  BY <1>3 DEF Undo
<1>. QED
  BY <1>1, <1>2, <1>3, <1>4, SameVersions DEF HInv

LEMMA RedoHInv ==
    ASSUME HInv, Redo
    PROVE  HInv'
<1>1. IInv'
  BY RedoIInv DEF HInv
<1>2. /\ past \in Seq(Edit) /\ future \in Seq(Edit) /\ future # << >>
      /\ Chain(Versions, past, Contents(layers)) /\ Chain(Versions, future, Contents(layers))
      /\ ~HasActiveStroke' /\ UNCHANGED ids
  BY DEF HInv, IInv, TypeOK, Redo, HasActiveStroke, strokeVars
<1>3. /\ CanApply(Last(future), layers)
      /\ Distinct(LayersAfter(Last(future), layers))
      /\ Chain(Versions, Front(future), Contents(LayersAfter(Last(future), layers)))
      /\ Chain(Versions, Append(past, InverseOf(Last(future), layers, activeLayer)),
               Contents(LayersAfter(Last(future), layers)))
  BY <1>2, PopChains
<1>4. /\ layers' = LayersAfter(Last(future), layers)
      /\ future' = Front(future)
      /\ past' = Append(past, InverseOf(Last(future), layers, activeLayer))
  BY <1>3 DEF Redo
<1>. QED
  BY <1>1, <1>2, <1>3, <1>4, SameVersions DEF HInv

LEMMA NextHInv == HInv /\ [Next]_vars => HInv'
<1> SUFFICES ASSUME HInv, [Next]_vars PROVE HInv'
  OBVIOUS
<1>1. CASE Record
  BY <1>1, EndStrokeHInv, NewTopLayerHInv, DropLayerHInv, ReorderLayerHInv DEF Record
<1>2. CASE DrawOrSet
  BY <1>2, BeginStrokeHInv, AddSampleHInv, ReviseSampleHInv, CancelStrokeHInv,
     SetActiveLayerHInv, SetLayerPropsHInv DEF DrawOrSet
<1>3. CASE Undo
  BY <1>3, UndoHInv
<1>4. CASE Redo
  BY <1>4, RedoHInv
<1>5. CASE UNCHANGED vars
  <2>1. IInv'
    BY <1>5, NextIInv DEF HInv
  <2>2. UNCHANGED <<layers, past, future, active, ids>>
    BY <1>5 DEF vars, ids
  <2>. QED
    BY <2>1, <2>2, SameVersions DEF HInv, HasActiveStroke
<1>. QED
  BY <1>1, <1>2, <1>3, <1>4, <1>5 DEF Next

(***************************************************************************)
(* The theorems.                                                           *)
(***************************************************************************)

\* Whatever was drawn, removed, restored, undone and redone, every entry of
\* both stacks leads on from where the one above it leads to.
THEOREM HistoryInvariant == Spec => []HInv
BY InitHInv, NextHInv, PTL DEF Spec

\* A command that names a layer means one layer (Vec<Layer> is searched for
\* the first match).
THEOREM LayerIdsStayUnique == Spec => []LayerIdsUnique
<1>1. HInv => LayerIdsUnique
  BY DEF HInv, Distinct, LayerIdsUnique
<1>. QED
  BY <1>1, HistoryInvariant, PTL

\* No order of undos and redos commits a stroke twice, on one layer or on two.
THEOREM StrokesStayUnique == Spec => []NoStrokeTwice
<1>1. ASSUME HInv PROVE NoStrokeTwice
  <2>1. layers \in Seq(Layer) /\ Distinct(layers) /\ NoDuplicates(layers)
        /\ DOMAIN layers = 1..Len(layers)
    BY <1>1, LenProperties DEF HInv, IInv, TypeOK, Distinct
  <2>2. ASSUME NEW p \in DOMAIN layers
        PROVE  layers[p] \in ToSet(layers) /\ Ids(layers[p].strokes) \subseteq StrokeId
    BY <2>1, SetMember, LayerAt, StrokeIdsTyped
  <2>3. \A p \in DOMAIN layers : NoDuplicates(layers[p].strokes)
    BY <2>1, <2>2 DEF Distinct
  <2>4. ASSUME NEW p \in DOMAIN layers, NEW q \in DOMAIN layers, p # q,
               NEW s \in Ids(layers[p].strokes) \cap Ids(layers[q].strokes)
        PROVE  FALSE
    <3>1. s # 0
      BY <2>2 DEF StrokeId
    <3>2. /\ <<layers[p].id, s>> \in Contents(layers)
          /\ <<layers[q].id, s>> \in Contents(layers)
      BY <2>1, <2>2, <3>1, StrokeOf
    <3>3. Separate(Contents(layers))
      BY <1>1, ContentsMinted DEF Versions
    <3>4. layers[p].id = layers[q].id
      BY <3>1, <3>2, <3>3 DEF Separate
    <3>. QED
      BY <2>1, <2>4, <3>4 DEF NoDuplicates
  <2>. QED
    BY <2>3, <2>4, Zenon DEF NoStrokeTwice
<1>2. HInv => NoStrokeTwice
  BY <1>1
<1>. QED
  BY <1>2, HistoryInvariant, PTL

\* What Undo and Redo pop always applies, so the branches that log "undo
\* failed" and "redo failed", and lose the entry, are never taken.
THEOREM HistoryAlwaysApplies == Spec => []HistoryApplies
<1>1. ASSUME HInv PROVE HistoryApplies
  <2>1. /\ past \in Seq(Edit) /\ future \in Seq(Edit)
        /\ Chain(Versions, past, Contents(layers)) /\ Chain(Versions, future, Contents(layers))
    BY <1>1 DEF HInv, IInv, TypeOK
  <2>2. past # << >> => CanApply(Last(past), layers)
    BY <1>1, <2>1, PopChains
  <2>3. future # << >> => CanApply(Last(future), layers)
    BY <1>1, <2>1, PopChains
  <2>. QED
    BY <2>2, <2>3 DEF HistoryApplies
<1>2. HInv => HistoryApplies
  BY <1>1
<1>. QED
  BY <1>2, HistoryInvariant, PTL

=============================================================================
