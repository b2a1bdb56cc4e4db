---------------------------- MODULE EngineAudit -----------------------------
(***************************************************************************)
(* Engine with history variables that none of its actions reads: they      *)
(* remember what happened, to compare the document and the undo stacks     *)
(* with it. Every step is a step of Engine.                                *)
(***************************************************************************)
EXTENDS Engine

VARIABLES
    versions,   \* the structures the document had, along the undo line
    drawnOn,    \* drawnOn[s]: the layer that was active when stroke s began
    chosen,     \* chosen[l]: the attributes last set on layer l
    finalised   \* finalised[s]: how many samples of stroke s were revised

audit     == <<versions, drawnOn, chosen, finalised>>
auditVars == <<vars, versions, drawnOn, chosen, finalised>>

AuditInit ==
    /\ Init
    /\ versions = <<Structure(layers)>>
    /\ drawnOn = << >>
    /\ chosen = <<DefaultProps>>
    /\ finalised = << >>

\* A new version: it replaces everything that had been undone.
NewVersion == versions' = Append(SubSeq(versions, 1, Len(past) + 1), Structure(layers'))

AuditEndStroke(id) == EndStroke(id) /\ NewVersion /\ UNCHANGED <<drawnOn, chosen, finalised>>

AuditAddLayer ==
    /\ NewTopLayer
    /\ NewVersion
    /\ chosen' = Append(chosen, DefaultProps)
    /\ UNCHANGED <<drawnOn, finalised>>

AuditRemoveLayer(id) == DropLayer(id) /\ NewVersion /\ UNCHANGED <<drawnOn, chosen, finalised>>

AuditMoveLayer(id, index) ==
    ReorderLayer(id, index) /\ NewVersion /\ UNCHANGED <<drawnOn, chosen, finalised>>

AuditBeginStroke(sample) ==
    /\ BeginStroke(sample)
    /\ drawnOn' = Append(drawnOn, activeLayer)
    /\ finalised' = Append(finalised, 0)
    /\ UNCHANGED <<versions, chosen>>

AuditReviseSample(id, u) ==
    /\ ReviseSample(id, u)
    /\ finalised' = [finalised EXCEPT ![id] = @ + 1]
    /\ UNCHANGED <<versions, drawnOn, chosen>>

AuditSetLayerProps(id, props) ==
    /\ SetLayerProps(id, props)
    /\ chosen' = [chosen EXCEPT ![id] = props]
    /\ UNCHANGED <<versions, drawnOn, finalised>>

AuditNext ==
    /\ ~panicked
    /\ \/ \E id \in KnownStrokes : AuditEndStroke(id)
       \/ AuditAddLayer
       \/ \E id \in KnownLayers : AuditRemoveLayer(id)
       \/ \E id \in KnownLayers : \E index \in 1..Len(layers) + 1 : AuditMoveLayer(id, index)
       \/ \E sample \in NewSamples : AuditBeginStroke(sample)
       \/ \E id \in KnownStrokes : \E sample \in NewSamples : AddSample(id, sample) /\ UNCHANGED audit
       \/ \E id \in KnownStrokes : \E u \in UpdateIndexes : AuditReviseSample(id, u)
       \/ \E id \in KnownStrokes : CancelStroke(id) /\ UNCHANGED audit
       \/ \E id \in KnownLayers : SetActiveLayer(id) /\ UNCHANGED audit
       \/ \E id \in KnownLayers : \E props \in LayerProps : AuditSetLayerProps(id, props)
       \/ Undo /\ UNCHANGED audit
       \/ Redo /\ UNCHANGED audit

AuditSpec == AuditInit /\ [][AuditNext]_auditVars

(***************************************************************************)
(* The undo line.                                                          *)
(***************************************************************************)
Timeline == INSTANCE UndoTimeline WITH
                current <- Structure(layers), cursor <- Len(past) + 1

\* Undo returns to exactly the version before, in layer order and in the
\* strokes of every layer, redo to exactly the one after, and a new edit
\* drops what was undone, whatever strokes, activations and refused commands
\* come in between (Edit: "undo restores state to the exact place it came
\* from regardless of what the user has done with the active layer in the
\* meantime").
ImplementsTimeline == Timeline!Spec

\* can_undo and can_redo are truthful: the two stacks cover every version
\* before and after the current one, none lost to a failed undo or redo.
HistoryCoversVersions == Len(versions) = Len(past) + 1 + Len(future)

(***************************************************************************)
(* Every copy of a layer or stroke, in the document or in a payload that   *)
(* undo or redo would put back.                                            *)
(***************************************************************************)
Entries == Range(past) \cup Range(future)

LayerCopies == Range(layers) \cup {e.layer : e \in {f \in Entries : f.op = "AddLayer"}}

StrokeCopies ==
    (UNION {{<<s, l.id>> : s \in Range(l.strokes)} : l \in LayerCopies})
        \cup {<<e.stroke, e.layer>> : e \in {f \in Entries : f.op = "AddStroke"}}

\* A stroke is committed to, undone from and redone onto the layer that was
\* active when it began, though the active layer may change during the
\* gesture and after it, and layers may be moved, removed and restored.
StrokesStayOnTheirLayer == \A c \in StrokeCopies : c[2] = drawnOn[c[1].id]

\* A revision is kept by undo and redo: the payload in the undo stacks and
\* the stroke in the document have every sample that was finalised, also one
\* finalised after the stroke was committed.
RevisionsSurviveUndo ==
    \A c \in StrokeCopies :
        Cardinality({i \in DOMAIN c[1].samples : c[1].samples[i].revised}) = finalised[c[1].id]

\* Layer attributes are not undoable: an undo or redo around them puts a
\* layer back with the attributes it was last given, never with older ones.
PropsSurviveUndo == \A l \in LayerCopies : l.props = chosen[l.id]

=============================================================================
