----------------------------- MODULE Persistence -----------------------------
(***************************************************************************)
(* Saving a document and loading it again (aj-core, feature "serde"): the  *)
(* projection DocumentSnapshot::from, and DocumentState::from with its two *)
(* wire shapes. A version 1 file has strokes and no layers; the loader     *)
(* takes whichever side is populated. Serialisation itself, the page and   *)
(* the brush, which are copied, are not followed.                          *)
(*                                                                         *)
(* The documents saved are those the engine reaches; a file is loaded by   *)
(* the same process, or by a new one whose id counters start over.         *)
(***************************************************************************)
EXTENDS EngineAudit

File(savedStrokes, savedLayers, savedActive) ==
    [strokes |-> savedStrokes, layers |-> savedLayers, activeLayer |-> savedActive]

\* The stroke in flight and the undo history are not saved.
Save == File(<< >>, layers, activeLayer)

\* StrokeId::bump_to and LayerId::bump_to: a counter is never lowered.
BumpTo(counter, seen) == Max({counter} \cup {id + 1 : id \in seen})

StrokeIds(ls) == UNION {Ids(ls[p].strokes) : p \in DOMAIN ls}

\* Mutants of Load: the saved active layer is not looked at; the counters are
\* bumped only for the layer the loader mints.
LoadFirstActive(file, next) ==
    LET migrated == file.layers = << >>
        loaded   == IF migrated THEN <<[NewLayer(next.layer) EXCEPT !.strokes = file.strokes]>>
                                ELSE file.layers
    IN  [layers |-> loaded, activeLayer |-> loaded[1].id,
         nextStrokeId |-> BumpTo(next.stroke, StrokeIds(loaded)),
         nextLayerId |-> BumpTo(next.layer, Ids(loaded))]
LoadWithoutBump(file, next) ==
    LET migrated == file.layers = << >>
        loaded   == IF migrated THEN <<[NewLayer(next.layer) EXCEPT !.strokes = file.strokes]>>
                                ELSE file.layers
    IN  [layers |-> loaded,
         activeLayer |-> IF file.activeLayer \in Ids(loaded) THEN file.activeLayer ELSE loaded[1].id,
         nextStrokeId |-> next.stroke,
         nextLayerId |-> next.layer + (IF migrated THEN 1 ELSE 0)]

\* The document, and the counters, after loading with the counters `next'. A
\* missing active layer, or one the file does not have, becomes the first.
Load(file, next) ==
    LET migrated == file.layers = << >>
        loaded   == IF migrated THEN <<[NewLayer(next.layer) EXCEPT !.strokes = file.strokes]>>
                                ELSE file.layers
    IN  [layers |-> loaded,
         activeLayer |-> IF file.activeLayer \in Ids(loaded) THEN file.activeLayer ELSE loaded[1].id,
         nextStrokeId |-> BumpTo(next.stroke, StrokeIds(loaded)),
         nextLayerId |-> BumpTo(next.layer, Ids(loaded))]

Processes == {[stroke |-> 1, layer |-> 1], [stroke |-> nextStrokeId, layer |-> nextLayerId]}

(***************************************************************************)
(* Properties.                                                             *)
(***************************************************************************)
AllStrokes == FlattenSeq([p \in DOMAIN layers |-> layers[p].strokes])

\* The files a document may be loaded from: as saved, without an active layer
\* or with a dangling one, of version 1, and with both sides populated.
Files ==
    {Save, File(<< >>, layers, NoLayer), File(<< >>, layers, MaxLayers + 1),
     File(AllStrokes, << >>, NoLayer), File(AllStrokes, layers, activeLayer)}

\* "Reloading a saved document gives you the committed strokes, layer state"
\* (DocumentSnapshot) and the active layer, in whatever order edits and undos
\* produced them.
ReloadKeepsDocument ==
    \A next \in Processes :
        LET doc == Load(Save, next)
        IN  doc.layers = layers /\ doc.activeLayer = activeLayer

\* After a restart, "subsequent next() calls don't collide with loaded ids":
\* whatever the file, the engine goes on from a document whose layer ids are
\* unique, whose active layer exists, and whose ids are below the counters.
LoadedIdsAreFresh ==
    \A file \in Files : \A next \in Processes :
        LET doc == Load(file, next)
        IN  /\ NoDuplicates(doc.layers)
            /\ doc.activeLayer \in Ids(doc.layers)
            /\ \A id \in Ids(doc.layers) : id < doc.nextLayerId
            /\ \A id \in StrokeIds(doc.layers) : id < doc.nextStrokeId
            /\ StrokeIds(doc.layers) = StrokeIds(layers)

=============================================================================
