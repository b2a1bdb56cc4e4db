---------------------------- MODULE FrontendProofs ----------------------------
(***************************************************************************)
(* The application around the engine (Frontend), for any widgets, keys and *)
(* sizes, and any number of commands.                                      *)
(***************************************************************************)
EXTENDS Frontend, DocumentProofs, FiniteSetTheorems, WellFoundedInduction

(***************************************************************************)
(* A sequence with a function applied to each of its elements.             *)
(***************************************************************************)
Mapped(m, seq) == [i \in DOMAIN seq |-> m[seq[i]]]

Into(m, S, T) == m \in [S -> T]

LEMMA MappedIs ==
    ASSUME NEW S, NEW T, NEW m, Into(m, S, T), NEW seq \in Seq(S)
    PROVE  /\ Mapped(m, seq) \in Seq(T)
           /\ Len(Mapped(m, seq)) = Len(seq)
           /\ DOMAIN Mapped(m, seq) = 1 .. Len(seq)
           /\ \A i \in 1 .. Len(seq) : Mapped(m, seq)[i] = m[seq[i]]
<1>1. DOMAIN seq = 1 .. Len(seq) /\ Len(seq) \in Nat /\ \A i \in 1 .. Len(seq) : seq[i] \in S
  BY LenProperties, ElementOfSeq
<1> DEFINE w == Mapped(m, seq)
<1>2. w \in [1 .. Len(seq) -> T] /\ \A i \in 1 .. Len(seq) : w[i] = m[seq[i]]
  BY <1>1 DEF Mapped, Into
<1> HIDE DEF w
<1>. QED
  BY <1>1, <1>2 DEF w

LEMMA SameSeq ==
    ASSUME NEW S, NEW p \in Seq(S), NEW T, NEW q \in Seq(T), Len(p) = Len(q),
           \A i \in 1 .. Len(p) : p[i] = q[i]
    PROVE  p = q
<1>1. /\ p = [i \in 1 .. Len(p) |-> p[i]] /\ q = [i \in 1 .. Len(q) |-> q[i]]
  OBVIOUS
<1>. QED
  BY <1>1

LEMMA MappedAppend ==
    ASSUME NEW S, NEW T, NEW m, Into(m, S, T), NEW seq \in Seq(S), NEW x \in S
    PROVE  Mapped(m, Append(seq, x)) = Append(Mapped(m, seq), m[x])
<1> DEFINE n == Len(seq)
           u == Append(seq, x)
           v == Append(Mapped(m, seq), m[x])
<1>1. /\ u \in Seq(S) /\ Len(u) = n + 1 /\ n \in Nat
      /\ \A i \in 1 .. (n + 1) : u[i] = IF i = n + 1 THEN x ELSE seq[i]
  BY AppendProperties, LenProperties
<1>2. /\ v \in Seq(T) /\ Len(v) = n + 1
      /\ \A i \in 1 .. (n + 1) : v[i] = IF i = n + 1 THEN m[x] ELSE m[seq[i]]
  <2>1. m[x] \in T
    BY DEF Into
  <2>2. /\ Mapped(m, seq) \in Seq(T) /\ Len(Mapped(m, seq)) = n
        /\ \A i \in 1 .. n : Mapped(m, seq)[i] = m[seq[i]]
    BY MappedIs
  <2>. QED
    BY <1>1, <2>1, <2>2, AppendProperties
<1> HIDE DEF u, v, n
<1>3. Mapped(m, u) \in Seq(T) /\ Len(Mapped(m, u)) = n + 1 /\ \A i \in 1 .. (n + 1) : Mapped(m, u)[i] = m[u[i]]
  <2>1. /\ Mapped(m, u) \in Seq(T) /\ Len(Mapped(m, u)) = Len(u)
        /\ \A i \in 1 .. Len(u) : Mapped(m, u)[i] = m[u[i]]
    BY <1>1, MappedIs
  <2>. QED
    BY <1>1, <2>1
<1>4. \A i \in 1 .. (n + 1) : Mapped(m, u)[i] = v[i]
  BY <1>1, <1>2, <1>3
<1>5. Mapped(m, u) = v
  BY <1>2, <1>3, <1>4, SameSeq
<1>. QED
  BY <1>5 DEF u, v

LEMMA MappedInsert ==
    ASSUME NEW S, NEW T, NEW m, Into(m, S, T), NEW seq \in Seq(S), NEW x \in S, NEW k \in 1 .. (Len(seq) + 1)
    PROVE  Mapped(m, InsertAt(seq, k, x)) = InsertAt(Mapped(m, seq), k, m[x])
<1> DEFINE n == Len(seq)
           u == InsertAt(seq, k, x)
           w == Mapped(m, seq)
           y == m[x]
           v == InsertAt(w, k, y)
<1>1. /\ u \in Seq(S) /\ Len(u) = n + 1 /\ n \in Nat
      /\ \A i \in 1 .. (n + 1) : u[i] = IF i < k THEN seq[i] ELSE IF i = k THEN x ELSE seq[i - 1]
  BY InsertAtProperties, LenProperties
<1>2. w \in Seq(T) /\ Len(w) = n /\ \A i \in 1 .. n : w[i] = m[seq[i]]
  BY MappedIs
<1>3. y \in T /\ k \in 1 .. (n + 1)
  BY DEF Into
<1>4. u \in Seq(S)
  BY <1>1
<1>5. /\ Mapped(m, u) \in Seq(T) /\ Len(Mapped(m, u)) = Len(u)
      /\ \A i \in 1 .. Len(u) : Mapped(m, u)[i] = m[u[i]]
  <2> HIDE DEF u
  <2>. QED
    BY <1>4, MappedIs
<1> HIDE DEF u, w, n, y
<1>6. /\ v \in Seq(T) /\ Len(v) = n + 1
      /\ \A i \in 1 .. (n + 1) : v[i] = IF i < k THEN w[i] ELSE IF i = k THEN y ELSE w[i - 1]
  <2>1. k \in 1 .. (Len(w) + 1) /\ w \in Seq(T)
    BY <1>2, <1>3
  <2>2. /\ v \in Seq(T) /\ Len(v) = Len(w) + 1
        /\ \A i \in 1 .. Len(w) + 1 : v[i] = IF i < k THEN w[i] ELSE IF i = k THEN y ELSE w[i - 1]
    BY <1>3, <2>1, InsertAtProperties
  <2>. QED
    BY <1>2, <2>2
<1> HIDE DEF v
<1>7. ASSUME NEW i \in 1 .. (n + 1) PROVE Mapped(m, u)[i] = v[i]
  <2>0. Mapped(m, u)[i] = m[u[i]]
    BY <1>1, <1>5
  <2>1. CASE i < k
    <3>1. i \in 1 .. n
      BY <1>1, <1>3, <2>1
    <3>2. u[i] = seq[i] /\ v[i] = w[i]
      BY <1>1, <1>6, <2>1
    <3>3. w[i] = m[seq[i]]
      BY <1>2, <3>1
    <3>. QED
      BY <2>0, <3>2, <3>3
  <2>2. CASE i = k
    <3>1. u[i] = x /\ v[i] = y
      BY <1>1, <1>3, <1>6, <2>2
    <3>. QED
      BY <2>0, <3>1 DEF y
  <2>3. CASE i > k
    <3>1. i - 1 \in 1 .. n
      BY <1>1, <1>3, <2>3
    <3>2. u[i] = seq[i - 1] /\ v[i] = w[i - 1]
      BY <1>1, <1>3, <1>6, <2>3
    <3>3. w[i - 1] = m[seq[i - 1]]
      BY <1>2, <3>1
    <3>. QED
      BY <2>0, <3>2, <3>3
  <2>. QED
    BY <1>1, <1>3, <2>1, <2>2, <2>3
<1>8. Mapped(m, u) = v
  BY <1>1, <1>5, <1>6, <1>7, SameSeq
<1>. QED
  BY <1>8 DEF u, v, w, y

LEMMA MappedRemove ==
    ASSUME NEW S, NEW T, NEW m, Into(m, S, T), NEW seq \in Seq(S), NEW k \in 1 .. Len(seq)
    PROVE  Mapped(m, RemoveAt(seq, k)) = RemoveAt(Mapped(m, seq), k)
<1> DEFINE n == Len(seq)
           u == RemoveAt(seq, k)
           w == Mapped(m, seq)
           v == RemoveAt(w, k)
<1>1. /\ u \in Seq(S) /\ Len(u) = n - 1 /\ n \in Nat /\ k \in 1 .. n
      /\ \A i \in 1 .. (n - 1) : u[i] = IF i < k THEN seq[i] ELSE seq[i + 1]
  BY RemoveAtProperties, LenProperties
<1>2. w \in Seq(T) /\ Len(w) = n /\ \A i \in 1 .. n : w[i] = m[seq[i]]
  BY MappedIs
<1> HIDE DEF u, w, n
<1>4. /\ v \in Seq(T) /\ Len(v) = n - 1
      /\ \A i \in 1 .. (n - 1) : v[i] = IF i < k THEN w[i] ELSE w[i + 1]
  BY <1>1, <1>2, RemoveAtProperties
<1> HIDE DEF v
<1>5. Mapped(m, u) \in Seq(T) /\ Len(Mapped(m, u)) = n - 1 /\ \A i \in 1 .. (n - 1) : Mapped(m, u)[i] = m[u[i]]
  <2>1. /\ Mapped(m, u) \in Seq(T) /\ Len(Mapped(m, u)) = Len(u)
        /\ \A i \in 1 .. Len(u) : Mapped(m, u)[i] = m[u[i]]
    BY <1>1, MappedIs
  <2>. QED
    BY <1>1, <2>1
<1>6. ASSUME NEW i \in 1 .. (n - 1) PROVE Mapped(m, u)[i] = v[i]
  <2>1. i \in 1 .. n /\ i + 1 \in 1 .. n
    BY <1>1
  <2>2. w[i] = m[seq[i]] /\ w[i + 1] = m[seq[i + 1]]
    BY <1>2, <2>1
  <2>3. /\ Mapped(m, u)[i] = m[u[i]]
        /\ u[i] = IF i < k THEN seq[i] ELSE seq[i + 1]
        /\ v[i] = IF i < k THEN w[i] ELSE w[i + 1]
    BY <1>1, <1>4, <1>5
  <2>. QED
    BY <2>2, <2>3
<1>7. Mapped(m, u) = v
  BY <1>4, <1>5, <1>6, SameSeq
<1>. QED
  BY <1>7 DEF u, v, w

\* The last element, and what is before it.
LEMMA LastIs ==
    ASSUME NEW S, NEW seq \in Seq(S), seq # << >>
    PROVE  /\ Len(seq) \in Nat \ {0} /\ Last(seq) \in S /\ Last(seq) = seq[Len(seq)]
           /\ Front(seq) \in Seq(S) /\ Len(Front(seq)) = Len(seq) - 1
           /\ \A i \in 1 .. (Len(seq) - 1) : Front(seq)[i] = seq[i]
<1>1. Len(seq) \in Nat \ {0} /\ seq[Len(seq)] \in S
  BY EmptySeq, LenProperties, ElementOfSeq
<1>2. /\ SubSeq(seq, 1, Len(seq) - 1) \in Seq(S) /\ Len(SubSeq(seq, 1, Len(seq) - 1)) = Len(seq) - 1
      /\ \A i \in 1 .. (Len(seq) - 1) : SubSeq(seq, 1, Len(seq) - 1)[i] = seq[i]
  BY <1>1, SubSeqProperties
<1>. QED
  BY <1>1, <1>2 DEF Last, Front

LEMMA MappedFront ==
    ASSUME NEW S, NEW T, NEW m, Into(m, S, T), NEW seq \in Seq(S), seq # << >>
    PROVE  /\ Mapped(m, seq) # << >>
           /\ Mapped(m, Front(seq)) = Front(Mapped(m, seq))
           /\ Last(Mapped(m, seq)) = m[Last(seq)]
<1> DEFINE n == Len(seq)
           w == Mapped(m, seq)
           u == Front(seq)
           v == Front(w)
<1>1. /\ n \in Nat \ {0} /\ u \in Seq(S) /\ Len(u) = n - 1 /\ Last(seq) = seq[n]
      /\ \A i \in 1 .. (n - 1) : u[i] = seq[i]
  BY LastIs
<1>2. w \in Seq(T) /\ Len(w) = n /\ \A i \in 1 .. n : w[i] = m[seq[i]]
  BY MappedIs
<1> HIDE DEF n, w, u
<1>3. w # << >>
  BY <1>1, <1>2
<1>4. v \in Seq(T) /\ Len(v) = n - 1 /\ Last(w) = w[n] /\ \A i \in 1 .. (n - 1) : v[i] = w[i]
  BY <1>2, <1>3, LastIs
<1> HIDE DEF v
<1>5. Mapped(m, u) \in Seq(T) /\ Len(Mapped(m, u)) = n - 1 /\ \A i \in 1 .. (n - 1) : Mapped(m, u)[i] = m[u[i]]
  <2>1. /\ Mapped(m, u) \in Seq(T) /\ Len(Mapped(m, u)) = Len(u)
        /\ \A i \in 1 .. Len(u) : Mapped(m, u)[i] = m[u[i]]
    BY <1>1, MappedIs
  <2>. QED
    BY <1>1, <2>1
<1>6. ASSUME NEW i \in 1 .. (n - 1) PROVE Mapped(m, u)[i] = v[i]
  <2>1. i \in 1 .. n
    BY <1>1
  <2>2. w[i] = m[seq[i]]
    BY <1>2, <2>1
  <2>3. Mapped(m, u)[i] = m[u[i]] /\ u[i] = seq[i] /\ v[i] = w[i]
    BY <1>1, <1>4, <1>5
  <2>. QED
    BY <2>2, <2>3
<1>7. Mapped(m, u) = v
  BY <1>4, <1>5, <1>6, SameSeq
<1>8. Last(w) = m[Last(seq)]
  BY <1>1, <1>2, <1>4
<1>. QED
  BY <1>3, <1>7, <1>8 DEF u, v, w

LEMMA MappedExcept ==
    ASSUME NEW S, NEW T, NEW m, Into(m, S, T), NEW seq \in Seq(S), NEW k \in 1 .. Len(seq), NEW x \in S
    PROVE  /\ [seq EXCEPT ![k] = x] \in Seq(S) /\ Len([seq EXCEPT ![k] = x]) = Len(seq)
           /\ Mapped(m, [seq EXCEPT ![k] = x]) = [Mapped(m, seq) EXCEPT ![k] = m[x]]
<1> DEFINE n == Len(seq)
           w == Mapped(m, seq)
           u == [seq EXCEPT ![k] = x]
           v == [w EXCEPT ![k] = m[x]]
<1>1. /\ u \in Seq(S) /\ Len(u) = n /\ \A i \in 1 .. n : u[i] = IF i = k THEN x ELSE seq[i]
  BY ExceptSeq
<1>2. w \in Seq(T) /\ Len(w) = n /\ \A i \in 1 .. n : w[i] = m[seq[i]]
  BY MappedIs
<1>3. m[x] \in T /\ k \in 1 .. n
  BY DEF Into
<1> HIDE DEF n, w, u
<1>4. v \in Seq(T) /\ Len(v) = n /\ \A i \in 1 .. n : v[i] = IF i = k THEN m[x] ELSE w[i]
  BY <1>2, <1>3, ExceptSeq
<1> HIDE DEF v
<1>5. Mapped(m, u) \in Seq(T) /\ Len(Mapped(m, u)) = n /\ \A i \in 1 .. n : Mapped(m, u)[i] = m[u[i]]
  <2>1. /\ Mapped(m, u) \in Seq(T) /\ Len(Mapped(m, u)) = Len(u)
        /\ \A i \in 1 .. Len(u) : Mapped(m, u)[i] = m[u[i]]
    BY <1>1, MappedIs
  <2>. QED
    BY <1>1, <2>1
<1>6. \A i \in 1 .. n : Mapped(m, u)[i] = v[i]
  BY <1>1, <1>2, <1>4, <1>5
<1>7. Mapped(m, u) = v
  BY <1>4, <1>5, <1>6, SameSeq
<1>. QED
  BY <1>1, <1>7 DEF u, v, w, n

\* Where ids are kept, look-ups by id find the same places.
LEMMA MappedPositions ==
    ASSUME NEW S, NEW T, NEW m, Into(m, S, T), NEW seq \in Seq(S), \A x \in S : m[x].id = x.id
    PROVE  /\ Ids(Mapped(m, seq)) = Ids(seq)
           /\ \A id : Position(Mapped(m, seq), id) = Position(seq, id)
<1> DEFINE w == Mapped(m, seq)
<1>1. w \in Seq(T) /\ Len(w) = Len(seq) /\ \A i \in 1 .. Len(seq) : w[i] = m[seq[i]]
  BY MappedIs
<1>2. \A i \in 1 .. Len(seq) : seq[i] \in S
  BY ElementOfSeq
<1>3. \A i \in 1 .. Len(seq) : w[i].id = seq[i].id
  BY <1>1, <1>2
<1> HIDE DEF w
<1>4. Ids(w) = Ids(seq)
  BY <1>1, <1>3, SameIds
<1>5. ASSUME NEW id PROVE Position(w, id) = Position(seq, id)
  <2>1. {i \in 1 .. Len(w) : w[i].id = id} = {i \in 1 .. Len(seq) : seq[i].id = id}
    BY <1>1, <1>3
  <2>. QED
    BY <2>1 DEF Position, SelectInSeq
<1>. QED
  BY <1>4, <1>5 DEF w

(***************************************************************************)
(* Types. Layers and edits as in Document, with strokes that carry a brush. *)
(***************************************************************************)
Brush == [width : 0 .. MaxWidth, ratio : 0 .. FullRatio]

InkStroke == [id : StrokeId, samples : Seq(Sample), brush : Brush]
InkLayer  == [id : LayerId, strokes : Seq(InkStroke), props : LayerProps]

InkEdit ==
    [op : {"AddStroke"}, stroke : InkStroke, layer : LayerId]
        \cup [op : {"RemoveStroke"}, id : StrokeId, layer : LayerId]
        \cup [op : {"AddLayer"}, layer : InkLayer, index : Nat \ {0}, wasActive : BOOLEAN]
        \cup [op : {"RemoveLayer"}, id : LayerId]
        \cup [op : {"MoveLayer"}, id : LayerId, index : Nat \ {0}]

EngineState ==
    [layers : Seq(InkLayer), activeLayer : LayerId,
     active : InkStroke \cup {NoStroke}, activeStrokeLayer : LayerId \cup {NoLayer},
     past : Seq(InkEdit), future : Seq(InkEdit),
     brush : Brush, showBounds : BOOLEAN, nextLayerId : LayerId]

Published ==
    [scene : [layers : Seq(InkLayer), activeStrokeLayer : LayerId \cup {NoLayer}],
     activeLayer : LayerId \cup {NoLayer}, brush : Brush, showBounds : BOOLEAN,
     canUndo : BOOLEAN, canRedo : BOOLEAN]

Command ==
    [op : {"Undo", "Redo", "AddLayer"}]
        \cup [op : {"AddSample", "EndStroke", "CancelStroke"}, id : StrokeId]
        \cup [op : {"RemoveLayer", "SetActiveLayer"}, id : LayerId \cup {NoLayer}]
        \cup [op : {"SetShowBounds"}, value : BOOLEAN]
        \cup [op : {"SetBrushMaxWidth", "SetBrushMinRatio"}, value : Int]
        \cup [op : {"MoveLayer"}, id : LayerId \cup {NoLayer}, value : Nat \ {0}]
        \cup [op : {"SetLayerVisible"}, id : LayerId \cup {NoLayer}, value : BOOLEAN]
        \cup [op : {"BeginStroke"}, id : StrokeId, value : Brush]

\* The members of InkEdit and of Command, by variant.
LEMMA InkEditVariants ==
    ASSUME NEW e \in InkEdit
    PROVE  \/ e.op = "AddStroke" /\ e.stroke \in InkStroke /\ e.layer \in LayerId
           \/ e.op = "RemoveStroke" /\ e.id \in StrokeId /\ e.layer \in LayerId
           \/ e.op = "AddLayer" /\ e.layer \in InkLayer /\ e.index \in Nat \ {0} /\ e.wasActive \in BOOLEAN
           \/ e.op = "RemoveLayer" /\ e.id \in LayerId
           \/ e.op = "MoveLayer" /\ e.id \in LayerId /\ e.index \in Nat \ {0}
BY DEF InkEdit

LEMMA CommandVariants ==
    ASSUME NEW c \in Command
    PROVE  \/ c.op \in {"Undo", "Redo", "AddLayer"}
           \/ c.op \in {"AddSample", "EndStroke", "CancelStroke"} /\ c.id \in StrokeId
           \/ c.op \in {"RemoveLayer", "SetActiveLayer"}
           \/ c.op = "SetShowBounds" /\ c.value \in BOOLEAN
           \/ c.op \in {"SetBrushMaxWidth", "SetBrushMinRatio"} /\ c.value \in Int
           \/ c.op = "MoveLayer" /\ c.value \in Nat \ {0}
           \/ c.op = "SetLayerVisible" /\ c.value \in BOOLEAN
           \/ c.op = "BeginStroke" /\ c.id \in StrokeId /\ c.value \in Brush
BY DEF Command

LEMMA StateParts ==
    ASSUME NEW s \in EngineState
    PROVE  /\ s.layers \in Seq(InkLayer) /\ s.activeLayer \in LayerId
           /\ s.active \in InkStroke \cup {NoStroke} /\ s.activeStrokeLayer \in LayerId \cup {NoLayer}
           /\ s.past \in Seq(InkEdit) /\ s.future \in Seq(InkEdit)
           /\ s.brush \in Brush /\ s.showBounds \in BOOLEAN /\ s.nextLayerId \in LayerId
BY DEF EngineState

LEMMA InkLayerAt ==
    ASSUME NEW layers \in Seq(InkLayer), NEW p \in 1 .. Len(layers)
    PROVE  /\ layers[p] \in InkLayer /\ layers[p].id \in LayerId
           /\ layers[p].strokes \in Seq(InkStroke) /\ layers[p].props \in LayerProps
<1>1. layers[p] \in InkLayer
  BY ElementOfSeq
<1>. QED
  BY <1>1 DEF InkLayer

\* Replacing the strokes, and the attributes, of a layer.
LEMMA InkStrokesReplaced ==
    ASSUME NEW layers \in Seq(InkLayer), NEW p \in 1 .. Len(layers), NEW strokes \in Seq(InkStroke)
    PROVE  /\ [layers[p] EXCEPT !.strokes = strokes] \in InkLayer
           /\ WithStrokes(layers, p, strokes) = [layers EXCEPT ![p] = [layers[p] EXCEPT !.strokes = strokes]]
           /\ WithStrokes(layers, p, strokes) \in Seq(InkLayer)
<1> DEFINE l == [layers[p] EXCEPT !.strokes = strokes]
<1>1. layers[p] \in InkLayer
  BY ElementOfSeq
<1>2. l \in InkLayer
  BY <1>1 DEF InkLayer
<1>3. WithStrokes(layers, p, strokes) = [layers EXCEPT ![p] = l]
  BY DEF WithStrokes
<1>4. [layers EXCEPT ![p] = l] \in Seq(InkLayer)
  <2> HIDE DEF l
  <2>. QED
    BY <1>2, ExceptSeq
<1>. QED
  BY <1>2, <1>3, <1>4

\* What each edit puts where: the strokes of one layer, or one layer.
LEMMA InkAddStroke ==
    ASSUME NEW layers \in Seq(InkLayer), NEW e \in InkEdit, e.op = "AddStroke", CanApply(e, layers)
    PROVE  LET p == Position(layers, e.layer)
           IN  /\ p \in 1 .. Len(layers) /\ layers[p].strokes \in Seq(InkStroke) /\ e.stroke \in InkStroke
               /\ Append(layers[p].strokes, e.stroke) \in Seq(InkStroke)
               /\ LayersAfter(e, layers) = WithStrokes(layers, p, Append(layers[p].strokes, e.stroke))
<1> DEFINE p == Position(layers, e.layer)
<1>1. e.stroke \in InkStroke /\ e.layer \in Ids(layers)
  BY InkEditVariants DEF CanApply
<1>2. p \in 1 .. Len(layers)
  BY <1>1, PositionFound
<1>3. layers[p].strokes \in Seq(InkStroke)
  BY <1>2, InkLayerAt
<1>4. Append(layers[p].strokes, e.stroke) \in Seq(InkStroke)
  BY <1>1, <1>3, AppendProperties
<1>5. LayersAfter(e, layers) = WithStrokes(layers, p, Append(layers[p].strokes, e.stroke))
  BY DEF LayersAfter, WithStrokes
<1>. QED
  BY <1>1, <1>2, <1>3, <1>4, <1>5

LEMMA InkRemoveStroke ==
    ASSUME NEW layers \in Seq(InkLayer), NEW e \in InkEdit, e.op = "RemoveStroke", CanApply(e, layers)
    PROVE  LET p     == Position(layers, e.layer)
               drawn == layers[p].strokes
               i     == Position(drawn, e.id)
           IN  /\ p \in 1 .. Len(layers) /\ drawn \in Seq(InkStroke)
               /\ i \in 1 .. Len(drawn) /\ drawn[i] \in InkStroke /\ e.layer \in LayerId
               /\ RemoveAt(drawn, i) \in Seq(InkStroke)
               /\ LayersAfter(e, layers) = WithStrokes(layers, p, RemoveAt(drawn, i))
<1> DEFINE p == Position(layers, e.layer)
           drawn == layers[p].strokes
           i == Position(drawn, e.id)
<1>1. e.layer \in Ids(layers) /\ e.id \in Ids(drawn) /\ e.layer \in LayerId
  BY InkEditVariants DEF CanApply
<1>2. p \in 1 .. Len(layers)
  BY <1>1, PositionFound
<1>3. drawn \in Seq(InkStroke)
  BY <1>2, InkLayerAt
<1>4. i \in 1 .. Len(drawn)
  BY <1>1, <1>3, PositionFound
<1>5. RemoveAt(drawn, i) \in Seq(InkStroke) /\ drawn[i] \in InkStroke
  BY <1>3, <1>4, RemoveAtProperties, ElementOfSeq
<1>6. LayersAfter(e, layers) = WithStrokes(layers, p, RemoveAt(drawn, i))
  BY DEF LayersAfter, WithStrokes
<1>. QED
  BY <1>1, <1>2, <1>3, <1>4, <1>5, <1>6

LEMMA InkAddLayer ==
    ASSUME NEW layers \in Seq(InkLayer), NEW e \in InkEdit, e.op = "AddLayer"
    PROVE  LET i == AtMost(e.index, Len(layers) + 1)
           IN  /\ i \in 1 .. Len(layers) + 1 /\ e.layer \in InkLayer
               /\ LayersAfter(e, layers) = InsertAt(layers, i, e.layer)
               /\ LayersAfter(e, layers) \in Seq(InkLayer)
<1> DEFINE i == AtMost(e.index, Len(layers) + 1)
<1>1. e.layer \in InkLayer /\ e.index \in Nat \ {0}
  BY InkEditVariants
<1>2. i \in 1 .. Len(layers) + 1
  BY <1>1, LenProperties DEF AtMost
<1>3. LayersAfter(e, layers) = InsertAt(layers, i, e.layer)
  BY DEF LayersAfter
<1> HIDE DEF i
<1>4. InsertAt(layers, i, e.layer) \in Seq(InkLayer)
  BY <1>1, <1>2, InsertAtProperties
<1>. QED
  BY <1>1, <1>2, <1>3, <1>4 DEF i

LEMMA InkRemoveLayer ==
    ASSUME NEW layers \in Seq(InkLayer), NEW e \in InkEdit, e.op = "RemoveLayer", CanApply(e, layers)
    PROVE  LET p == Position(layers, e.id)
           IN  /\ p \in 1 .. Len(layers) /\ layers[p] \in InkLayer /\ e.id \in LayerId
               /\ LayersAfter(e, layers) = RemoveAt(layers, p)
               /\ LayersAfter(e, layers) \in Seq(InkLayer)
               /\ Len(LayersAfter(e, layers)) \in Nat \ {0}
<1> DEFINE p == Position(layers, e.id)
<1>1. e.id \in Ids(layers) /\ Len(layers) > 1 /\ e.id \in LayerId
  BY InkEditVariants DEF CanApply
<1>2. p \in 1 .. Len(layers)
  BY <1>1, PositionFound
<1>3. layers[p] \in InkLayer /\ Len(layers) \in Nat
  BY <1>2, InkLayerAt, LenProperties
<1>4. LayersAfter(e, layers) = RemoveAt(layers, p)
  BY DEF LayersAfter
<1> HIDE DEF p
<1>5. RemoveAt(layers, p) \in Seq(InkLayer) /\ Len(RemoveAt(layers, p)) = Len(layers) - 1
  BY <1>2, RemoveAtProperties
<1>6. Len(RemoveAt(layers, p)) \in Nat \ {0}
  BY <1>1, <1>3, <1>5
<1>. QED
  BY <1>1, <1>2, <1>3, <1>4, <1>5, <1>6 DEF p

LEMMA InkMoveLayer ==
    ASSUME NEW layers \in Seq(InkLayer), NEW e \in InkEdit, e.op = "MoveLayer", CanApply(e, layers)
    PROVE  LET p    == Position(layers, e.id)
               rest == RemoveAt(layers, p)
               i    == AtMost(e.index, Len(layers))
           IN  /\ p \in 1 .. Len(layers) /\ layers[p] \in InkLayer /\ e.id \in LayerId
               /\ rest \in Seq(InkLayer) /\ i \in 1 .. Len(rest) + 1
               /\ LayersAfter(e, layers) = InsertAt(rest, i, layers[p])
               /\ LayersAfter(e, layers) \in Seq(InkLayer)
<1> DEFINE p == Position(layers, e.id)
           rest == RemoveAt(layers, p)
           i == AtMost(e.index, Len(layers))
           l == layers[p]
<1>1. p \in 1 .. Len(layers) /\ e.index \in Nat \ {0} /\ e.id \in LayerId
  BY PositionFound, InkEditVariants DEF CanApply
<1>2. l \in InkLayer /\ Len(layers) \in Nat
  BY <1>1, InkLayerAt, LenProperties
<1>3. rest \in Seq(InkLayer) /\ Len(rest) = Len(layers) - 1
  BY <1>1, RemoveAtProperties
<1>4. i \in 1 .. Len(rest) + 1
  BY <1>1, <1>2, <1>3 DEF AtMost
<1>5. LayersAfter(e, layers) = InsertAt(rest, i, l)
  BY DEF LayersAfter
<1> HIDE DEF p, rest, i, l
<1>6. InsertAt(rest, i, l) \in Seq(InkLayer)
  BY <1>2, <1>3, <1>4, InsertAtProperties
<1>. QED
  BY <1>1, <1>2, <1>3, <1>4, <1>5, <1>6 DEF p, rest, i, l

\* What an edit leaves and returns is well typed.
LEMMA InkEditTyped ==
    ASSUME NEW layers \in Seq(InkLayer), NEW e \in InkEdit, CanApply(e, layers), NEW activeLayer \in LayerId
    PROVE  /\ LayersAfter(e, layers) \in Seq(InkLayer)
           /\ InverseOf(e, layers, activeLayer) \in InkEdit
           /\ ActiveLayerAfter(e, layers, activeLayer) \in LayerId
<1>1. CASE e.op = "AddStroke"
  <2>1. InverseOf(e, layers, activeLayer) = RemoveStroke(e.stroke.id, e.layer)
    BY <1>1 DEF InverseOf
  <2>2. e.stroke.id \in StrokeId /\ e.layer \in LayerId
    BY <1>1, InkEditVariants DEF InkStroke
  <2>3. ActiveLayerAfter(e, layers, activeLayer) = activeLayer
    BY <1>1 DEF ActiveLayerAfter
  <2>4. LayersAfter(e, layers) \in Seq(InkLayer)
    <3> DEFINE p == Position(layers, e.layer)
               new == Append(layers[p].strokes, e.stroke)
    <3>1. p \in 1 .. Len(layers) /\ new \in Seq(InkStroke) /\ LayersAfter(e, layers) = WithStrokes(layers, p, new)
      BY <1>1, InkAddStroke
    <3> HIDE DEF p, new
    <3>2. WithStrokes(layers, p, new) \in Seq(InkLayer)
      BY <3>1, InkStrokesReplaced
    <3>. QED
      BY <3>1, <3>2, Zenon
  <2>. QED
    BY <2>1, <2>2, <2>3, <2>4 DEF RemoveStroke, InkEdit
<1>2. CASE e.op = "RemoveStroke"
  <2> DEFINE strokes == layers[Position(layers, e.layer)].strokes
             s == strokes[Position(strokes, e.id)]
  <2>1. InverseOf(e, layers, activeLayer) = AddStroke(s, e.layer)
    BY <1>2 DEF InverseOf
  <2>2. s \in InkStroke /\ e.layer \in LayerId
    BY <1>2, InkRemoveStroke
  <2>3. ActiveLayerAfter(e, layers, activeLayer) = activeLayer
    BY <1>2 DEF ActiveLayerAfter
  <2>4. LayersAfter(e, layers) \in Seq(InkLayer)
    <3> DEFINE p == Position(layers, e.layer)
               new == RemoveAt(strokes, Position(strokes, e.id))
    <3>1. p \in 1 .. Len(layers) /\ new \in Seq(InkStroke) /\ LayersAfter(e, layers) = WithStrokes(layers, p, new)
      BY <1>2, InkRemoveStroke
    <3> HIDE DEF p, new
    <3>2. WithStrokes(layers, p, new) \in Seq(InkLayer)
      BY <3>1, InkStrokesReplaced
    <3>. QED
      BY <3>1, <3>2, Zenon
  <2> HIDE DEF s
  <2>. QED
    BY <2>1, <2>2, <2>3, <2>4 DEF AddStroke, InkEdit
<1>3. CASE e.op = "AddLayer"
  <2>1. InverseOf(e, layers, activeLayer) = RemoveLayer(e.layer.id)
    BY <1>3 DEF InverseOf
  <2>2. e.layer.id \in LayerId
    BY <1>3, InkEditVariants DEF InkLayer
  <2>3. ActiveLayerAfter(e, layers, activeLayer) \in {activeLayer, e.layer.id}
    BY <1>3 DEF ActiveLayerAfter
  <2>4. LayersAfter(e, layers) \in Seq(InkLayer)
    BY <1>3, InkAddLayer
  <2>. QED
    BY <2>1, <2>2, <2>3, <2>4 DEF RemoveLayer, InkEdit
<1>4. CASE e.op = "RemoveLayer"
  <2> DEFINE at == Position(layers, e.id)
             l == layers[at]
             after == LayersAfter(e, layers)
  <2>1. InverseOf(e, layers, activeLayer) = AddLayer(l, at, e.id = activeLayer)
    BY <1>4 DEF InverseOf
  <2>2. at \in 1 .. Len(layers) /\ l \in InkLayer /\ after \in Seq(InkLayer) /\ Len(after) \in Nat \ {0}
    BY <1>4, InkRemoveLayer
  <2>3. ActiveLayerAfter(e, layers, activeLayer) \in LayerId
    <3>1. CASE e.id = activeLayer
      <4> DEFINE k == AtMost(at, Len(after))
      <4>1. ActiveLayerAfter(e, layers, activeLayer) = after[k].id
        BY <1>4, <3>1 DEF ActiveLayerAfter, LayersAfter
      <4>2. k \in 1 .. Len(after)
        <5> HIDE DEF at, after
        <5>. QED
          BY <2>2 DEF AtMost
      <4> HIDE DEF after, k
      <4>. QED
        BY <2>2, <4>1, <4>2, InkLayerAt
    <3>2. CASE e.id # activeLayer
      BY <1>4, <3>2 DEF ActiveLayerAfter
    <3>. QED
      BY <3>1, <3>2
  <2>4. AddLayer(l, at, e.id = activeLayer) \in InkEdit
    <3> HIDE DEF l, at
    <3>. QED
      BY <2>2 DEF AddLayer, InkEdit
  <2>. QED
    BY <2>1, <2>2, <2>3, <2>4
<1>5. CASE e.op = "MoveLayer"
  <2> DEFINE at == Position(layers, e.id)
  <2>1. InverseOf(e, layers, activeLayer) = MoveLayer(e.id, at)
    BY <1>5 DEF InverseOf
  <2>2. at \in 1 .. Len(layers) /\ e.id \in LayerId /\ LayersAfter(e, layers) \in Seq(InkLayer)
    BY <1>5, InkMoveLayer
  <2>3. ActiveLayerAfter(e, layers, activeLayer) = activeLayer
    BY <1>5 DEF ActiveLayerAfter
  <2>4. MoveLayer(e.id, at) \in InkEdit
    <3> HIDE DEF at
    <3>. QED
      BY <2>2 DEF MoveLayer, InkEdit
  <2>. QED
    BY <2>1, <2>2, <2>3, <2>4
<1>. QED
  BY <1>1, <1>2, <1>3, <1>4, <1>5, InkEditVariants

(***************************************************************************)
(* ApplyCommand, command by command: its fields, and its type.             *)
(***************************************************************************)
LEMMA RecordedIs ==
    ASSUME NEW s \in EngineState, NEW e \in InkEdit, CanApply(e, s.layers)
    PROVE  LET t == Recorded(s, e)
           IN  /\ t \in EngineState
               /\ t.layers = LayersAfter(e, s.layers)
               /\ t.activeLayer = ActiveLayerAfter(e, s.layers, s.activeLayer)
               /\ t.past = Append(s.past, InverseOf(e, s.layers, s.activeLayer)) /\ t.future = << >>
               /\ t.active = s.active /\ t.activeStrokeLayer = s.activeStrokeLayer
               /\ t.brush = s.brush /\ t.nextLayerId = s.nextLayerId
<1> DEFINE ls == LayersAfter(e, s.layers)
           a == ActiveLayerAfter(e, s.layers, s.activeLayer)
           u == Append(s.past, InverseOf(e, s.layers, s.activeLayer))
<1>1. Recorded(s, e) = [s EXCEPT !.layers = ls, !.activeLayer = a, !.past = u, !.future = << >>]
  BY DEF Recorded
<1>2. ls \in Seq(InkLayer) /\ a \in LayerId /\ u \in Seq(InkEdit) /\ << >> \in Seq(InkEdit)
  BY StateParts, InkEditTyped, AppendProperties, EmptySeq
<1> HIDE DEF ls, a, u
<1>3. /\ Recorded(s, e) \in EngineState
      /\ Recorded(s, e).layers = ls /\ Recorded(s, e).activeLayer = a
      /\ Recorded(s, e).past = u /\ Recorded(s, e).future = << >>
      /\ Recorded(s, e).active = s.active /\ Recorded(s, e).activeStrokeLayer = s.activeStrokeLayer
      /\ Recorded(s, e).brush = s.brush /\ Recorded(s, e).nextLayerId = s.nextLayerId
  BY <1>1, <1>2 DEF EngineState
<1>. QED
  BY <1>3 DEF ls, a, u

LEMMA ReleasedIs ==
    ASSUME NEW s \in EngineState
    PROVE  LET t == Released(s)
           IN  /\ t \in EngineState
               /\ t.active = NoStroke /\ t.activeStrokeLayer = NoLayer
               /\ t.layers = s.layers /\ t.activeLayer = s.activeLayer
               /\ t.past = s.past /\ t.future = s.future
               /\ t.brush = s.brush /\ t.nextLayerId = s.nextLayerId
BY DEF Released, EngineState

LEMMA DrawnIs ==
    ASSUME NEW s \in EngineState, NEW id, Drawn(s, id)
    PROVE  s.active \in InkStroke /\ s.active.id = id
BY StateParts DEF Drawn

LEMMA BeginStrokeIs ==
    ASSUME NEW s \in EngineState, NEW c \in Command, c.op = "BeginStroke"
    PROVE  LET t == ApplyCommand(c, s)
           IN  /\ t \in EngineState
               /\ t.active = [id |-> c.id, samples |-> <<FreshSample(0)>>, brush |-> c.value]
               /\ t.active \in InkStroke /\ t.activeStrokeLayer = s.activeLayer
               /\ t.layers = s.layers /\ t.activeLayer = s.activeLayer
               /\ t.past = s.past /\ t.future = s.future
               /\ t.brush = s.brush /\ t.nextLayerId = s.nextLayerId
<1> DEFINE a == [id |-> c.id, samples |-> <<FreshSample(0)>>, brush |-> c.value]
<1>1. a \in InkStroke
  <2>1. FreshSample(0) \in Sample
    BY DEF FreshSample, Sample
  <2>2. <<FreshSample(0)>> \in Seq(Sample)
    BY <2>1
  <2>3. c.id \in StrokeId /\ c.value \in Brush
    BY CommandVariants
  <2>. QED
    BY <2>2, <2>3 DEF InkStroke
<1>2. ApplyCommand(c, s) = [s EXCEPT !.active = a, !.activeStrokeLayer = s.activeLayer]
  BY DEF ApplyCommand
<1> HIDE DEF a
<1>3. LET t == [s EXCEPT !.active = a, !.activeStrokeLayer = s.activeLayer]
      IN  /\ t \in EngineState
          /\ t.active = a /\ t.activeStrokeLayer = s.activeLayer
          /\ t.layers = s.layers /\ t.activeLayer = s.activeLayer
          /\ t.past = s.past /\ t.future = s.future
          /\ t.brush = s.brush /\ t.nextLayerId = s.nextLayerId
  BY <1>1 DEF EngineState
<1>. QED
  BY <1>1, <1>2, <1>3 DEF a

LEMMA AddSampleIs ==
    ASSUME NEW s \in EngineState, NEW c \in Command, c.op = "AddSample", Drawn(s, c.id)
    PROVE  LET t == ApplyCommand(c, s)
           IN  /\ t \in EngineState
               /\ t.active = [s.active EXCEPT !.samples = Append(@, FreshSample(0))]
               /\ t.active \in InkStroke /\ t.activeStrokeLayer = s.activeStrokeLayer
               /\ t.layers = s.layers /\ t.activeLayer = s.activeLayer
               /\ t.past = s.past /\ t.future = s.future
               /\ t.brush = s.brush /\ t.nextLayerId = s.nextLayerId
<1> DEFINE a == [s.active EXCEPT !.samples = Append(s.active.samples, FreshSample(0))]
<1>1. a \in InkStroke
  <2>1. FreshSample(0) \in Sample
    BY DEF FreshSample, Sample
  <2>2. s.active \in InkStroke /\ s.active.samples \in Seq(Sample)
    BY DrawnIs DEF InkStroke
  <2>3. Append(s.active.samples, FreshSample(0)) \in Seq(Sample)
    BY <2>1, <2>2, AppendProperties
  <2>. QED
    BY <2>2, <2>3 DEF InkStroke
<1>2. ApplyCommand(c, s) = [s EXCEPT !.active = a]
  BY DEF ApplyCommand
<1> HIDE DEF a
<1>3. LET t == [s EXCEPT !.active = a]
      IN  /\ t \in EngineState
          /\ t.active = a /\ t.activeStrokeLayer = s.activeStrokeLayer
          /\ t.layers = s.layers /\ t.activeLayer = s.activeLayer
          /\ t.past = s.past /\ t.future = s.future
          /\ t.brush = s.brush /\ t.nextLayerId = s.nextLayerId
  BY <1>1 DEF EngineState
<1>. QED
  BY <1>1, <1>2, <1>3 DEF a

\* The commands that change the brush or the view only.
LEMMA SettingIs ==
    ASSUME NEW s \in EngineState, NEW c \in Command,
           c.op \in {"SetShowBounds", "SetBrushMaxWidth", "SetBrushMinRatio"}
    PROVE  LET t == ApplyCommand(c, s)
           IN  /\ t \in EngineState
               /\ t.active = s.active /\ t.activeStrokeLayer = s.activeStrokeLayer
               /\ t.layers = s.layers /\ t.activeLayer = s.activeLayer
               /\ t.past = s.past /\ t.future = s.future /\ t.nextLayerId = s.nextLayerId
<1>1. CASE c.op = "SetShowBounds"
  <2>1. ApplyCommand(c, s) = [s EXCEPT !.showBounds = c.value] /\ c.value \in BOOLEAN
    BY <1>1, CommandVariants DEF ApplyCommand
  <2>. QED
    BY <2>1 DEF EngineState
<1>2. CASE c.op \in {"SetBrushMaxWidth", "SetBrushMinRatio"}
  <2>1. c.value \in Int /\ s.brush \in Brush
    BY <1>2, CommandVariants, StateParts
  <2>2. /\ Clamp(c.value, 0, MaxWidth) \in 0 .. MaxWidth
        /\ Clamp(c.value, 0, FullRatio) \in 0 .. FullRatio
    BY <2>1, WidthAssumption DEF Clamp, FullRatio
  <2> DEFINE w == [s.brush EXCEPT !.width = Clamp(c.value, 0, MaxWidth)]
             r == [s.brush EXCEPT !.ratio = Clamp(c.value, 0, FullRatio)]
             b == IF c.op = "SetBrushMaxWidth" THEN w ELSE r
  <2>3. w \in Brush /\ r \in Brush
    BY <2>1, <2>2 DEF Brush
  <2>4. ApplyCommand(c, s) = [s EXCEPT !.brush = b]
    BY <1>2 DEF ApplyCommand
  <2>5. b \in Brush
    BY <2>3
  <2> HIDE DEF b
  <2>. QED
    BY <2>4, <2>5 DEF EngineState
<1>. QED
  BY <1>1, <1>2

LEMMA NewLayerIs ==
    ASSUME NEW s \in EngineState
    PROVE  LET e == AddLayer(NewLayer(s.nextLayerId), Len(s.layers) + 1, FALSE)
               r == Recorded(s, e)
               t == ApplyCommand(Do("AddLayer"), s)
           IN  /\ e \in InkEdit /\ e.op = "AddLayer" /\ e.layer = NewLayer(s.nextLayerId)
               /\ CanApply(e, s.layers)
               /\ t = [r EXCEPT !.nextLayerId = @ + 1] /\ t \in EngineState
               /\ t.nextLayerId = s.nextLayerId + 1
               /\ t.active = r.active /\ t.activeStrokeLayer = r.activeStrokeLayer
               /\ t.layers = r.layers /\ t.activeLayer = r.activeLayer
               /\ t.past = r.past /\ t.future = r.future /\ t.brush = r.brush
<1> DEFINE l == NewLayer(s.nextLayerId)
           n == Len(s.layers) + 1
           e == AddLayer(l, n, FALSE)
           r == Recorded(s, e)
<1>1. s.nextLayerId \in LayerId /\ Len(s.layers) \in Nat /\ << >> \in Seq(InkStroke)
  BY StateParts, LenProperties, EmptySeq
<1>2. l \in InkLayer
  BY <1>1, DefaultPropsAssumption DEF NewLayer, InkLayer
<1>3. n \in Nat \ {0}
  BY <1>1
<1>4. e \in InkEdit /\ e.op = "AddLayer" /\ e.layer = l
  <2> HIDE DEF l, n
  <2>. QED
    BY <1>2, <1>3 DEF AddLayer, InkEdit
<1>5. CanApply(e, s.layers)
  BY <1>4 DEF CanApply
<1>6. ApplyCommand(Do("AddLayer"), s) = [r EXCEPT !.nextLayerId = @ + 1]
  BY DEF ApplyCommand, Do
<1> HIDE DEF e
<1>7. r \in EngineState /\ r.nextLayerId = s.nextLayerId
  BY <1>4, <1>5, RecordedIs
<1>8. s.nextLayerId + 1 \in LayerId
  BY <1>1 DEF LayerId
<1> HIDE DEF r
<1>9. LET t == [r EXCEPT !.nextLayerId = @ + 1]
      IN  /\ t \in EngineState
          /\ t.nextLayerId = s.nextLayerId + 1
          /\ t.active = r.active /\ t.activeStrokeLayer = r.activeStrokeLayer
          /\ t.layers = r.layers /\ t.activeLayer = r.activeLayer
          /\ t.past = r.past /\ t.future = r.future /\ t.brush = r.brush
  BY <1>7, <1>8 DEF EngineState
<1>. QED
  BY <1>4, <1>5, <1>6, <1>9 DEF r, e

LEMMA ChooseLayerIs ==
    ASSUME NEW s \in EngineState, NEW id \in Ids(s.layers)
    PROVE  LET t == ApplyCommand(On("SetActiveLayer", id), s)
           IN  /\ t \in EngineState /\ t.activeLayer = id
               /\ t.layers = s.layers /\ t.active = s.active /\ t.activeStrokeLayer = s.activeStrokeLayer
               /\ t.past = s.past /\ t.future = s.future
               /\ t.brush = s.brush /\ t.nextLayerId = s.nextLayerId
<1>1. id \in LayerId
  <2>1. PICK i \in DOMAIN s.layers : id = s.layers[i].id
    BY DEF Ids
  <2>. QED
    BY <2>1, StateParts, InkLayerAt, LenProperties
<1>2. ApplyCommand(On("SetActiveLayer", id), s) = [s EXCEPT !.activeLayer = id]
  BY DEF ApplyCommand, On
<1>. QED
  BY <1>1, <1>2 DEF EngineState

\* The arms of Undo and Redo, on their stacks.
LEMMA UndoIs ==
    ASSUME NEW s \in EngineState, s.active = NoStroke, s.past # << >>
    PROVE  LET e == Last(s.past)
               t == ApplyCommand(Do("Undo"), s)
           IN  /\ t \in EngineState /\ e \in InkEdit
               /\ t.past = Front(s.past)
               /\ t.active = s.active /\ t.activeStrokeLayer = s.activeStrokeLayer
               /\ t.brush = s.brush /\ t.nextLayerId = s.nextLayerId
               /\ IF CanApply(e, s.layers)
                  THEN /\ t.layers = LayersAfter(e, s.layers)
                       /\ t.activeLayer = ActiveLayerAfter(e, s.layers, s.activeLayer)
                       /\ t.future = Append(s.future, InverseOf(e, s.layers, s.activeLayer))
                  ELSE t.layers = s.layers /\ t.activeLayer = s.activeLayer /\ t.future = s.future
<1> DEFINE e == Last(s.past)
           f == Front(s.past)
           ls == LayersAfter(e, s.layers)
           a == ActiveLayerAfter(e, s.layers, s.activeLayer)
           v == Append(s.future, InverseOf(e, s.layers, s.activeLayer))
<1>1. e \in InkEdit /\ f \in Seq(InkEdit)
  BY StateParts, LastIs
<1>2. CASE CanApply(e, s.layers)
  <2>1. ApplyCommand(Do("Undo"), s) = [s EXCEPT !.past = f, !.layers = ls, !.activeLayer = a, !.future = v]
    BY <1>2 DEF ApplyCommand, Do, Popped
  <2>2. ls \in Seq(InkLayer) /\ a \in LayerId /\ v \in Seq(InkEdit)
    <3> HIDE DEF e
    <3>. QED
      BY <1>1, <1>2, StateParts, InkEditTyped, AppendProperties
  <2> HIDE DEF e, f, ls, a, v
  <2>3. LET t == [s EXCEPT !.past = f, !.layers = ls, !.activeLayer = a, !.future = v]
        IN  /\ t \in EngineState /\ t.past = f
            /\ t.active = s.active /\ t.activeStrokeLayer = s.activeStrokeLayer
            /\ t.brush = s.brush /\ t.nextLayerId = s.nextLayerId
            /\ t.layers = ls /\ t.activeLayer = a /\ t.future = v
    BY <1>1, <2>2 DEF EngineState
  <2>. QED
    BY <1>1, <1>2, <2>1, <2>3 DEF e, f, ls, a, v
<1>3. CASE ~CanApply(e, s.layers)
  <2>1. ApplyCommand(Do("Undo"), s) = [s EXCEPT !.past = f]
    BY <1>3 DEF ApplyCommand, Do, Popped
  <2> HIDE DEF e, f
  <2>2. LET t == [s EXCEPT !.past = f]
        IN  /\ t \in EngineState /\ t.past = f
            /\ t.active = s.active /\ t.activeStrokeLayer = s.activeStrokeLayer
            /\ t.brush = s.brush /\ t.nextLayerId = s.nextLayerId
            /\ t.layers = s.layers /\ t.activeLayer = s.activeLayer /\ t.future = s.future
    BY <1>1 DEF EngineState
  <2>. QED
    BY <1>1, <1>3, <2>1, <2>2 DEF e, f
<1>. QED
  BY <1>2, <1>3

LEMMA RedoIs ==
    ASSUME NEW s \in EngineState, s.active = NoStroke, s.future # << >>
    PROVE  LET e == Last(s.future)
               t == ApplyCommand(Do("Redo"), s)
           IN  /\ t \in EngineState /\ e \in InkEdit
               /\ t.future = Front(s.future)
               /\ t.active = s.active /\ t.activeStrokeLayer = s.activeStrokeLayer
               /\ t.brush = s.brush /\ t.nextLayerId = s.nextLayerId
               /\ IF CanApply(e, s.layers)
                  THEN /\ t.layers = LayersAfter(e, s.layers)
                       /\ t.activeLayer = ActiveLayerAfter(e, s.layers, s.activeLayer)
                       /\ t.past = Append(s.past, InverseOf(e, s.layers, s.activeLayer))
                  ELSE t.layers = s.layers /\ t.activeLayer = s.activeLayer /\ t.past = s.past
<1> DEFINE e == Last(s.future)
           f == Front(s.future)
           ls == LayersAfter(e, s.layers)
           a == ActiveLayerAfter(e, s.layers, s.activeLayer)
           v == Append(s.past, InverseOf(e, s.layers, s.activeLayer))
<1>1. e \in InkEdit /\ f \in Seq(InkEdit)
  BY StateParts, LastIs
<1>2. CASE CanApply(e, s.layers)
  <2>1. ApplyCommand(Do("Redo"), s) = [s EXCEPT !.future = f, !.layers = ls, !.activeLayer = a, !.past = v]
    BY <1>2 DEF ApplyCommand, Do, Popped
  <2>2. ls \in Seq(InkLayer) /\ a \in LayerId /\ v \in Seq(InkEdit)
    <3> HIDE DEF e
    <3>. QED
      BY <1>1, <1>2, StateParts, InkEditTyped, AppendProperties
  <2> HIDE DEF e, f, ls, a, v
  <2>3. LET t == [s EXCEPT !.future = f, !.layers = ls, !.activeLayer = a, !.past = v]
        IN  /\ t \in EngineState /\ t.future = f
            /\ t.active = s.active /\ t.activeStrokeLayer = s.activeStrokeLayer
            /\ t.brush = s.brush /\ t.nextLayerId = s.nextLayerId
            /\ t.layers = ls /\ t.activeLayer = a /\ t.past = v
    BY <1>1, <2>2 DEF EngineState
  <2>. QED
    BY <1>1, <1>2, <2>1, <2>3 DEF e, f, ls, a, v
<1>3. CASE ~CanApply(e, s.layers)
  <2>1. ApplyCommand(Do("Redo"), s) = [s EXCEPT !.future = f]
    BY <1>3 DEF ApplyCommand, Do, Popped
  <2> HIDE DEF e, f
  <2>2. LET t == [s EXCEPT !.future = f]
        IN  /\ t \in EngineState /\ t.future = f
            /\ t.active = s.active /\ t.activeStrokeLayer = s.activeStrokeLayer
            /\ t.brush = s.brush /\ t.nextLayerId = s.nextLayerId
            /\ t.layers = s.layers /\ t.activeLayer = s.activeLayer /\ t.past = s.past
    BY <1>1 DEF EngineState
  <2>. QED
    BY <1>1, <1>3, <2>1, <2>2 DEF e, f
<1>. QED
  BY <1>2, <1>3

(***************************************************************************)
(* The kinds of change a command makes, from s to t.                       *)
(***************************************************************************)
SameDocument(s, t) == t.layers = s.layers /\ t.activeLayer = s.activeLayer
SameStroke(s, t)   == t.active = s.active /\ t.activeStrokeLayer = s.activeStrokeLayer
SameHistory(s, t)  == t.past = s.past /\ t.future = s.future
SameIdCounter(s, t) == t.nextLayerId = s.nextLayerId

Committed(e, s, t) ==
    /\ e \in InkEdit /\ CanApply(e, s.layers)
    /\ t.layers = LayersAfter(e, s.layers)
    /\ t.activeLayer = ActiveLayerAfter(e, s.layers, s.activeLayer)
    /\ t.past = Append(s.past, InverseOf(e, s.layers, s.activeLayer))
    /\ t.future = << >>

NoStrokeLeft(t) == t.active = NoStroke /\ t.activeStrokeLayer = NoLayer

Unaffected(s, t) == SameDocument(s, t) /\ SameStroke(s, t) /\ SameHistory(s, t) /\ SameIdCounter(s, t)

Began(c, s, t) ==
    /\ c.op = "BeginStroke" /\ c.id \in StrokeId /\ c.value \in Brush
    /\ t.active = [id |-> c.id, samples |-> <<FreshSample(0)>>, brush |-> c.value]
    /\ t.active \in InkStroke /\ t.activeStrokeLayer = s.activeLayer
    /\ SameDocument(s, t) /\ SameHistory(s, t) /\ SameIdCounter(s, t)

Sampled(s, t) ==
    /\ s.active \in InkStroke /\ t.active \in InkStroke
    /\ t.active = [s.active EXCEPT !.samples = Append(@, FreshSample(0))]
    /\ t.activeStrokeLayer = s.activeStrokeLayer
    /\ SameDocument(s, t) /\ SameHistory(s, t) /\ SameIdCounter(s, t)

Ended(s, t) ==
    /\ s.active \in InkStroke
    /\ Committed(AddStroke(s.active, s.activeStrokeLayer), s, t)
    /\ NoStrokeLeft(t) /\ SameIdCounter(s, t)

Cancelled(s, t) ==
    /\ s.active \in InkStroke /\ NoStrokeLeft(t)
    /\ SameDocument(s, t) /\ SameHistory(s, t) /\ SameIdCounter(s, t)

ToppedUp(s, t) ==
    /\ Committed(AddLayer(NewLayer(s.nextLayerId), Len(s.layers) + 1, FALSE), s, t)
    /\ SameStroke(s, t) /\ t.nextLayerId = s.nextLayerId + 1

Dropped(c, s, t) ==
    /\ s.active = NoStroke /\ Committed(RemoveLayer(c.id), s, t)
    /\ SameStroke(s, t) /\ SameIdCounter(s, t)

Reordered(c, s, t) ==
    /\ c.value \in Nat \ {0} /\ Committed(MoveLayer(c.id, c.value), s, t)
    /\ SameStroke(s, t) /\ SameIdCounter(s, t)

Chosen(c, s, t) ==
    /\ c.id \in Ids(s.layers) /\ t.activeLayer = c.id /\ t.layers = s.layers
    /\ SameStroke(s, t) /\ SameHistory(s, t) /\ SameIdCounter(s, t)

Exposed(c, s, t) ==
    LET p     == Position(s.layers, c.id)
        props == [s.layers[p].props EXCEPT !.visible = c.value]
        l     == [s.layers[p] EXCEPT !.props = props]
    IN  /\ c.id \in Ids(s.layers) /\ p \in 1 .. Len(s.layers) /\ props \in LayerProps /\ l \in InkLayer
        /\ t.layers = [s.layers EXCEPT ![p] = l] /\ t.activeLayer = s.activeLayer
        /\ SameStroke(s, t) /\ SameHistory(s, t) /\ SameIdCounter(s, t)

Undone(s, t) ==
    LET e == Last(s.past)
    IN  /\ s.active = NoStroke /\ s.past # << >> /\ e \in InkEdit
        /\ t.past = Front(s.past)
        /\ IF CanApply(e, s.layers)
           THEN /\ t.layers = LayersAfter(e, s.layers)
                /\ t.activeLayer = ActiveLayerAfter(e, s.layers, s.activeLayer)
                /\ t.future = Append(s.future, InverseOf(e, s.layers, s.activeLayer))
           ELSE SameDocument(s, t) /\ t.future = s.future
        /\ SameStroke(s, t) /\ SameIdCounter(s, t)

Redone(s, t) ==
    LET e == Last(s.future)
    IN  /\ s.active = NoStroke /\ s.future # << >> /\ e \in InkEdit
        /\ t.future = Front(s.future)
        /\ IF CanApply(e, s.layers)
           THEN /\ t.layers = LayersAfter(e, s.layers)
                /\ t.activeLayer = ActiveLayerAfter(e, s.layers, s.activeLayer)
                /\ t.past = Append(s.past, InverseOf(e, s.layers, s.activeLayer))
           ELSE SameDocument(s, t) /\ t.past = s.past
        /\ SameStroke(s, t) /\ SameIdCounter(s, t)

Changes(c, s, t) ==
    \/ Unaffected(s, t) \/ Began(c, s, t) \/ Sampled(s, t) \/ Ended(s, t) \/ Cancelled(s, t)
    \/ ToppedUp(s, t) \/ Dropped(c, s, t) \/ Reordered(c, s, t) \/ Chosen(c, s, t) \/ Exposed(c, s, t)
    \/ Undone(s, t) \/ Redone(s, t)

\* The layer that the stroke in flight targets is there.
Targeted(s) == s.active # NoStroke => s.activeStrokeLayer \in Ids(s.layers)

LEMMA RecordedCommits ==
    ASSUME NEW s \in EngineState, NEW e \in InkEdit, CanApply(e, s.layers)
    PROVE  LET t == Recorded(s, e)
           IN  t \in EngineState /\ Committed(e, s, t) /\ SameStroke(s, t) /\ SameIdCounter(s, t)
BY RecordedIs DEF Committed, SameStroke, SameIdCounter

LEMMA EndStrokeIs ==
    ASSUME NEW s \in EngineState, Targeted(s), NEW id, Drawn(s, id)
    PROVE  EndStroke(s, id) \in EngineState /\ Ended(s, EndStroke(s, id))
<1> DEFINE e == AddStroke(s.active, s.activeStrokeLayer)
           r == Released(s)
<1>1. s.active \in InkStroke /\ s.active # NoStroke
  BY DrawnIs DEF Drawn
<1>2. s.activeStrokeLayer \in LayerId /\ s.activeStrokeLayer \in Ids(s.layers)
  <2>1. s.activeStrokeLayer \in Ids(s.layers)
    BY <1>1 DEF Targeted
  <2>2. PICK i \in DOMAIN s.layers : s.activeStrokeLayer = s.layers[i].id
    BY <2>1 DEF Ids
  <2>. QED
    BY <2>1, <2>2, StateParts, InkLayerAt, LenProperties
<1>3. e \in InkEdit /\ e.op = "AddStroke" /\ e.layer = s.activeStrokeLayer
  BY <1>1, <1>2 DEF AddStroke, InkEdit
<1>4. /\ r \in EngineState /\ NoStrokeLeft(r)
      /\ SameDocument(s, r) /\ SameHistory(s, r) /\ SameIdCounter(s, r)
  BY ReleasedIs DEF NoStrokeLeft, SameDocument, SameHistory, SameIdCounter
<1>5. EndStroke(s, id) = Recorded(r, e)
  BY DEF EndStroke
<1> HIDE DEF e, r
<1>6. CanApply(e, s.layers) /\ CanApply(e, r.layers)
  BY <1>2, <1>3, <1>4 DEF CanApply, SameDocument
<1>7. LET t == Recorded(r, e)
      IN  t \in EngineState /\ Committed(e, r, t) /\ SameStroke(r, t) /\ SameIdCounter(r, t)
  BY <1>3, <1>4, <1>6, RecordedCommits
<1> DEFINE t == Recorded(r, e)
<1> HIDE DEF t
<1>8. t \in EngineState /\ Committed(e, r, t) /\ SameStroke(r, t) /\ SameIdCounter(r, t)
  BY <1>7 DEF t
<1>9. Committed(e, s, t) /\ NoStrokeLeft(t) /\ SameIdCounter(s, t)
  BY <1>4, <1>6, <1>8 DEF Committed, NoStrokeLeft, SameStroke, SameIdCounter, SameDocument, SameHistory
<1>. QED
  BY <1>1, <1>5, <1>8, <1>9 DEF Ended, t, e

LEMMA SetLayerVisibleIs ==
    ASSUME NEW s \in EngineState, NEW c \in Command, c.op = "SetLayerVisible", c.id \in Ids(s.layers)
    PROVE  ApplyCommand(c, s) \in EngineState /\ Exposed(c, s, ApplyCommand(c, s))
<1> DEFINE p == Position(s.layers, c.id)
           props == [s.layers[p].props EXCEPT !.visible = c.value]
           l == [s.layers[p] EXCEPT !.props = props]
           ls == [s.layers EXCEPT ![p] = l]
           t == [s EXCEPT !.layers = ls]
<1>1. p \in 1 .. Len(s.layers) /\ c.value \in BOOLEAN
  BY StateParts, PositionFound, CommandVariants
<1>2. s.layers[p] \in InkLayer /\ s.layers[p].props \in LayerProps
  BY <1>1, StateParts, InkLayerAt
<1>3. props \in LayerProps
  <2> HIDE DEF p
  <2>. QED
    BY <1>1, <1>2, VisibleAssumption
<1>4. ApplyCommand(c, s) = t
  BY DEF ApplyCommand
<1>5. l \in InkLayer
  <2> HIDE DEF props, p
  <2>. QED
    BY <1>2, <1>3 DEF InkLayer
<1>6. ls \in Seq(InkLayer)
  <2> HIDE DEF l, p
  <2>. QED
    BY <1>1, <1>5, StateParts, ExceptSeq
<1>7. /\ t \in EngineState /\ t.layers = ls /\ t.activeLayer = s.activeLayer
      /\ SameStroke(s, t) /\ SameHistory(s, t) /\ SameIdCounter(s, t)
  <2> HIDE DEF ls
  <2>. QED
    BY <1>6 DEF EngineState, SameStroke, SameHistory, SameIdCounter
<1> HIDE DEF t
<1>8. Exposed(c, s, t)
  BY <1>1, <1>3, <1>5, <1>7, Zenon DEF Exposed
<1>. QED
  BY <1>4, <1>7, <1>8

\* A command of the kinds above, whatever its arguments.
LEMMA ApplyIs ==
    ASSUME NEW s \in EngineState, Targeted(s), NEW c \in Command
    PROVE  LET t == ApplyCommand(c, s) IN t \in EngineState /\ Changes(c, s, t)
<1> DEFINE t == ApplyCommand(c, s)
<1>0. ASSUME t = s PROVE t \in EngineState /\ Changes(c, s, t)
  <2> HIDE DEF t
  <2>. QED
    BY <1>0 DEF Changes, Unaffected, SameDocument, SameStroke, SameHistory, SameIdCounter
<1> USE DEF SameDocument, SameStroke, SameHistory, SameIdCounter
<1>1. CASE c.op = "BeginStroke"
  <2>1. c.id \in StrokeId /\ c.value \in Brush
    BY <1>1, CommandVariants
  <2>2. t \in EngineState /\ Began(c, s, t)
    BY <1>1, <2>1, BeginStrokeIs DEF Began
  <2>. QED
    BY <2>2 DEF Changes
<1>2. CASE c.op = "AddSample"
  <2>1. CASE Drawn(s, c.id)
    <3>1. t \in EngineState /\ Sampled(s, t)
      BY <1>2, <2>1, AddSampleIs, DrawnIs DEF Sampled
    <3>. QED
      BY <3>1 DEF Changes
  <2>2. CASE ~Drawn(s, c.id)
    BY <1>0, <1>2, <2>2 DEF ApplyCommand
  <2>. QED
    BY <2>1, <2>2
<1>3. CASE c.op = "EndStroke"
  <2>1. t = EndStroke(s, c.id)
    BY <1>3 DEF ApplyCommand
  <2>2. CASE Drawn(s, c.id)
    BY <2>1, <2>2, EndStrokeIs DEF Changes
  <2>3. CASE ~Drawn(s, c.id)
    BY <1>0, <2>1, <2>3 DEF EndStroke
  <2>. QED
    BY <2>2, <2>3
<1>4. CASE c.op = "CancelStroke"
  <2>1. CASE Drawn(s, c.id)
    <3>1. t = Released(s)
      BY <1>4, <2>1 DEF ApplyCommand
    <3>2. Released(s) \in EngineState /\ Cancelled(s, Released(s))
      BY <2>1, ReleasedIs, DrawnIs DEF Cancelled, NoStrokeLeft
    <3>. QED
      BY <3>1, <3>2 DEF Changes
  <2>2. CASE ~Drawn(s, c.id)
    BY <1>0, <1>4, <2>2 DEF ApplyCommand
  <2>. QED
    BY <2>1, <2>2
<1>5. CASE c.op \in {"SetShowBounds", "SetBrushMaxWidth", "SetBrushMinRatio"}
  <2>1. t \in EngineState /\ Unaffected(s, t)
    BY <1>5, SettingIs DEF Unaffected
  <2>. QED
    BY <2>1 DEF Changes
<1>6. CASE c.op = "AddLayer"
  <2> DEFINE e == AddLayer(NewLayer(s.nextLayerId), Len(s.layers) + 1, FALSE)
             r == Recorded(s, e)
  <2>1. t = ApplyCommand(Do("AddLayer"), s)
    BY <1>6 DEF ApplyCommand, Do
  <2>2. /\ e \in InkEdit /\ CanApply(e, s.layers)
        /\ t \in EngineState /\ t.nextLayerId = s.nextLayerId + 1
        /\ t.active = r.active /\ t.activeStrokeLayer = r.activeStrokeLayer
        /\ t.layers = r.layers /\ t.activeLayer = r.activeLayer
        /\ t.past = r.past /\ t.future = r.future
    BY <2>1, NewLayerIs
  <2>3. Committed(e, s, r) /\ SameStroke(s, r)
    BY <2>2, RecordedCommits
  <2> HIDE DEF e, r, t
  <2>4. Committed(e, s, t) /\ SameStroke(s, t)
    BY <2>2, <2>3 DEF Committed
  <2>5. ToppedUp(s, t)
    BY <2>2, <2>4 DEF ToppedUp, e
  <2>. QED
    BY <2>2, <2>5 DEF Changes, t
<1>7. CASE c.op = "RemoveLayer"
  <2>1. t = DropLayer(s, c.id)
    BY <1>7 DEF ApplyCommand
  <2> DEFINE e == RemoveLayer(c.id)
  <2>2. CASE s.active = NoStroke /\ CanApply(e, s.layers)
    <3>1. t = Recorded(s, e)
      BY <2>1, <2>2 DEF DropLayer
    <3>2. c.id \in Ids(s.layers)
      BY <2>2 DEF CanApply, RemoveLayer
    <3>3. c.id \in LayerId
      <4>1. PICK i \in DOMAIN s.layers : c.id = s.layers[i].id
        BY <3>2 DEF Ids
      <4>. QED
        BY <4>1, StateParts, InkLayerAt, LenProperties
    <3>4. e \in InkEdit
      BY <3>3 DEF RemoveLayer, InkEdit
    <3> HIDE DEF e, t
    <3>5. t \in EngineState /\ Committed(e, s, t) /\ SameStroke(s, t) /\ SameIdCounter(s, t)
      BY <2>2, <3>1, <3>4, RecordedCommits
    <3>6. Dropped(c, s, t)
      BY <2>2, <3>5 DEF Dropped, e
    <3>. QED
      BY <3>5, <3>6 DEF Changes, t
  <2>3. CASE ~(s.active = NoStroke /\ CanApply(e, s.layers))
    BY <1>0, <2>1, <2>3 DEF DropLayer
  <2>. QED
    BY <2>2, <2>3
<1>8. CASE c.op = "MoveLayer"
  <2>1. t = Reorder(s, c.id, c.value) /\ c.value \in Nat \ {0}
    BY <1>8, CommandVariants DEF ApplyCommand
  <2> DEFINE e == MoveLayer(c.id, c.value)
  <2>2. CASE CanApply(e, s.layers)
    <3>1. t = Recorded(s, e)
      BY <2>1, <2>2 DEF Reorder
    <3>2. c.id \in Ids(s.layers)
      BY <2>2 DEF CanApply, MoveLayer
    <3>3. c.id \in LayerId
      <4>1. PICK i \in DOMAIN s.layers : c.id = s.layers[i].id
        BY <3>2 DEF Ids
      <4>. QED
        BY <4>1, StateParts, InkLayerAt, LenProperties
    <3>4. e \in InkEdit
      BY <2>1, <3>3 DEF MoveLayer, InkEdit
    <3> HIDE DEF e, t
    <3>5. t \in EngineState /\ Committed(e, s, t) /\ SameStroke(s, t) /\ SameIdCounter(s, t)
      BY <2>2, <3>1, <3>4, RecordedCommits
    <3>6. Reordered(c, s, t)
      BY <2>1, <2>2, <3>5 DEF Reordered, e
    <3>. QED
      BY <3>5, <3>6 DEF Changes, t
  <2>3. CASE ~CanApply(e, s.layers)
    BY <1>0, <2>1, <2>3 DEF Reorder
  <2>. QED
    BY <2>2, <2>3
<1>9. CASE c.op = "SetActiveLayer"
  <2>1. CASE c.id \in Ids(s.layers)
    <3>1. t = ApplyCommand(On("SetActiveLayer", c.id), s)
      BY <1>9, <2>1 DEF ApplyCommand, On
    <3>2. t \in EngineState /\ Chosen(c, s, t)
      BY <2>1, <3>1, ChooseLayerIs DEF Chosen
    <3>. QED
      BY <3>2 DEF Changes
  <2>2. CASE c.id \notin Ids(s.layers)
    BY <1>0, <1>9, <2>2 DEF ApplyCommand
  <2>. QED
    BY <2>1, <2>2
<1>10. CASE c.op = "SetLayerVisible"
  <2>1. CASE c.id \in Ids(s.layers)
    <3>1. t \in EngineState /\ Exposed(c, s, t)
      BY <1>10, <2>1, SetLayerVisibleIs
    <3>. QED
      BY <3>1 DEF Changes
  <2>2. CASE c.id \notin Ids(s.layers)
    BY <1>0, <1>10, <2>2 DEF ApplyCommand
  <2>. QED
    BY <2>1, <2>2
<1>11. CASE c.op = "Undo"
  <2>1. t = ApplyCommand(Do("Undo"), s) /\ t = Popped(s, "past", "future")
    BY <1>11 DEF ApplyCommand, Do
  <2>2. CASE s.active = NoStroke /\ s.past # << >>
    <3>1. t \in EngineState /\ Undone(s, t)
      BY <2>1, <2>2, UndoIs DEF Undone
    <3>. QED
      BY <3>1 DEF Changes
  <2>3. CASE s.active # NoStroke \/ s.past = << >>
    BY <1>0, <2>1, <2>3 DEF Popped
  <2>. QED
    BY <2>2, <2>3
<1>12. CASE c.op = "Redo"
  <2>1. t = ApplyCommand(Do("Redo"), s) /\ t = Popped(s, "future", "past")
    BY <1>12 DEF ApplyCommand, Do
  <2>2. CASE s.active = NoStroke /\ s.future # << >>
    <3>1. t \in EngineState /\ Redone(s, t)
      BY <2>1, <2>2, RedoIs DEF Redone
    <3>. QED
      BY <3>1 DEF Changes
  <2>3. CASE s.active # NoStroke \/ s.future = << >>
    BY <1>0, <2>1, <2>3 DEF Popped
  <2>. QED
    BY <2>2, <2>3
<1>. QED
  BY <1>1, <1>2, <1>3, <1>4, <1>5, <1>6, <1>7, <1>8, <1>9, <1>10, <1>11, <1>12, CommandVariants

(***************************************************************************)
(* The types of the application, and the kinds of step it takes.           *)
(***************************************************************************)
Shutdown == Do("Shutdown")

\* The thread publishes before it waits, so while it waits the brush of the
\* snapshot is the live one; the first snapshot, which has no layer, too.
WaitingShowsBrush == pc = "recv" => snapshot.brush = state.brush

Types ==
    /\ state \in EngineState /\ snapshot \in Published /\ shown \in Published
    /\ channel \in Seq(Command \cup {Shutdown})
    /\ sends \in Nat /\ sends <= MaxSends
    /\ nextStrokeId \in StrokeId /\ drawing \in Nat
    /\ WaitingShowsBrush

\* No stroke in flight of the thread's state targets a layer that is gone.
Ready == Types /\ Targeted(state)

LEMMA ShutdownIsNone == Shutdown \notin Command
BY DEF Shutdown, Do, Command

LEMMA PublishedParts ==
    ASSUME NEW p \in Published
    PROVE  /\ p.scene.layers \in Seq(InkLayer) /\ p.scene.activeStrokeLayer \in LayerId \cup {NoLayer}
           /\ p.activeLayer \in LayerId \cup {NoLayer} /\ p.brush \in Brush
           /\ p.brush.width \in Int /\ p.brush.ratio \in Int /\ p.showBounds \in BOOLEAN
<1>1. /\ p.scene \in [layers : Seq(InkLayer), activeStrokeLayer : LayerId \cup {NoLayer}]
      /\ p.activeLayer \in LayerId \cup {NoLayer} /\ p.brush \in Brush /\ p.showBounds \in BOOLEAN
  BY DEF Published
<1>2. p.brush.width \in Int /\ p.brush.ratio \in Int
  <2>1. p.brush.width \in 0 .. MaxWidth /\ p.brush.ratio \in 0 .. FullRatio
    BY <1>1 DEF Brush
  <2>. QED
    BY <2>1
<1>3. p.scene.layers \in Seq(InkLayer) /\ p.scene.activeStrokeLayer \in LayerId \cup {NoLayer}
  BY <1>1
<1>. QED
  BY <1>1, <1>2, <1>3

LEMMA PositionIn ==
    ASSUME NEW S, NEW seq \in Seq(S), NEW id
    PROVE  Position(seq, id) = 0 \/ Position(seq, id) \in 1 .. Len(seq)
<1>1. CASE id \in Ids(seq)
  BY <1>1, PositionFound
<1>2. CASE id \notin Ids(seq)
  <2>1. {i \in 1 .. Len(seq) : seq[i].id = id} = {}
    BY <1>2, LenProperties DEF Ids
  <2>. QED
    BY <2>1 DEF Position, SelectInSeq
<1>. QED
  BY <1>1, <1>2

\* What a snapshot shows: the committed layers, or those with the stroke in
\* flight at the end of the layer it targets.
LEMMA SceneIs ==
    ASSUME NEW s \in EngineState
    PROVE  LET scene == SnapshotOf(s).scene
               e     == AddStroke(s.active, scene.activeStrokeLayer)
           IN  \/ scene.layers = s.layers /\ scene.activeStrokeLayer = NoLayer
               \/ /\ s.active \in InkStroke
                  /\ scene.activeStrokeLayer \in LayerId /\ scene.activeStrokeLayer \in Ids(s.layers)
                  /\ e \in InkEdit /\ CanApply(e, s.layers)
                  /\ scene.layers = LayersAfter(e, s.layers)
<1> DEFINE wanted == IF s.activeStrokeLayer = NoLayer THEN s.activeLayer ELSE s.activeStrokeLayer
           target == IF s.active = NoStroke THEN NoLayer
                     ELSE IF wanted \in Ids(s.layers) THEN wanted
                     ELSE IF s.activeLayer \in Ids(s.layers) THEN s.activeLayer
                     ELSE NoLayer
           e == AddStroke(s.active, target)
<1>1. /\ SnapshotOf(s).scene.activeStrokeLayer = target
      /\ SnapshotOf(s).scene.layers = IF target = NoLayer THEN s.layers ELSE LayersAfter(e, s.layers)
  BY DEF SnapshotOf, Scene
<1>2. target = NoLayer \/ (target \in Ids(s.layers) /\ target \in LayerId /\ s.active \in InkStroke)
  BY StateParts DEF NoLayer
<1> HIDE DEF target
<1>3. CASE target # NoLayer
  <2>1. target \in Ids(s.layers) /\ target \in LayerId /\ s.active \in InkStroke
    BY <1>2, <1>3
  <2>2. e \in InkEdit /\ CanApply(e, s.layers)
    BY <2>1 DEF AddStroke, InkEdit, CanApply
  <2>. QED
    BY <1>1, <1>3, <2>1, <2>2
<1>. QED
  BY <1>1, <1>3

LEMMA SnapshotTyped == ASSUME NEW s \in EngineState PROVE SnapshotOf(s) \in Published
<1> DEFINE scene == SnapshotOf(s).scene
<1>1. scene.layers \in Seq(InkLayer) /\ scene.activeStrokeLayer \in LayerId \cup {NoLayer}
  <2> DEFINE e == AddStroke(s.active, scene.activeStrokeLayer)
  <2>1. \/ scene.layers = s.layers /\ scene.activeStrokeLayer = NoLayer
        \/ /\ scene.activeStrokeLayer \in LayerId
           /\ e \in InkEdit /\ CanApply(e, s.layers) /\ scene.layers = LayersAfter(e, s.layers)
    BY SceneIs
  <2>2. s.layers \in Seq(InkLayer) /\ s.activeLayer \in LayerId
    BY StateParts
  <2> HIDE DEF scene, e
  <2>3. CASE e \in InkEdit /\ CanApply(e, s.layers)
    <3>1. LayersAfter(e, s.layers) \in Seq(InkLayer)
      BY <2>2, <2>3, InkEditTyped
    <3>. QED
      BY <2>1, <2>2, <3>1
  <2>. QED
    BY <2>1, <2>2, <2>3
<1>2. scene = [layers |-> scene.layers, activeStrokeLayer |-> scene.activeStrokeLayer]
  BY DEF SnapshotOf, Scene
<1>3. /\ SnapshotOf(s) = [scene |-> scene, activeLayer |-> s.activeLayer, brush |-> s.brush,
                          showBounds |-> s.showBounds, canUndo |-> s.past # << >>,
                          canRedo |-> s.future # << >>]
  BY DEF SnapshotOf
<1> HIDE DEF scene
<1>4. scene \in [layers : Seq(InkLayer), activeStrokeLayer : LayerId \cup {NoLayer}]
  BY <1>1, <1>2
<1>. QED
  BY <1>3, <1>4, StateParts DEF Published

LEMMA ClickTyped ==
    ASSUME NEW snap \in Published, NEW cmd \in ClickCommands(click, snap)
    PROVE  cmd \in Command /\ cmd.op # "BeginStroke" /\ click # NoClick
<1>1. CASE cmd \in MenuCommands(click, snap)
  <2>1. \/ click \in {"Undo", "Redo"} /\ cmd \in {Do("Undo"), Do("Redo")}
        \/ click = "PageBounds" /\ cmd = Set("SetShowBounds", ~snap.showBounds)
    BY <1>1 DEF MenuCommands
  <2>2. CASE click \in {"Undo", "Redo"} /\ cmd \in {Do("Undo"), Do("Redo")}
    BY <2>2 DEF Do, Command, NoClick
  <2>3. CASE click = "PageBounds" /\ cmd = Set("SetShowBounds", ~snap.showBounds)
    BY <2>3 DEF Set, Command, NoClick
  <2>. QED
    BY <2>1, <2>2, <2>3
<1>2. CASE cmd \in BrushCommands(click, snap)
  <2>1. PICK w \in 0 .. MaxWidth : click = "MaxWidth" /\ cmd = Set("SetBrushMaxWidth", w)
    BY <1>2 DEF BrushCommands
  <2>. QED
    BY <2>1, WidthAssumption DEF Set, Command, NoClick
<1>3. CASE cmd \in LayerCommands(click, snap)
  <2> DEFINE layers == snap.scene.layers
             active == snap.activeLayer
             at == Position(layers, active)
             choose == [Bottom |-> 1, Top |-> Len(layers)]
             v == ~layers[at].props.visible
  <2>1. \/ click = "AddLayer" /\ cmd = Do("AddLayer")
        \/ click = "Remove" /\ cmd = On("RemoveLayer", active)
        \/ click = "MoveUp" /\ at \in 1 .. Len(layers) - 1 /\ cmd = SetOn("MoveLayer", active, at + 1)
        \/ click = "MoveDown" /\ at > 1 /\ cmd = SetOn("MoveLayer", active, at - 1)
        \/ click = "Eye" /\ cmd = SetOn("SetLayerVisible", active, v)
        \/ /\ click \in DOMAIN choose /\ layers # << >>
           /\ cmd = On("SetActiveLayer", layers[choose[click]].id)
    BY <1>3 DEF LayerCommands
  <2>2. layers \in Seq(InkLayer) /\ active \in LayerId \cup {NoLayer}
    BY PublishedParts
  <2>3. at = 0 \/ at \in 1 .. Len(layers)
    BY <2>2, PositionIn
  <2>4. v \in BOOLEAN
    OBVIOUS
  <2>5. CASE click = "AddLayer" /\ cmd = Do("AddLayer")
    BY <2>5 DEF Do, Command, NoClick
  <2>6. CASE click = "Remove" /\ cmd = On("RemoveLayer", active)
    BY <2>2, <2>6 DEF On, Command, NoClick
  <2>7. CASE \/ click = "MoveUp" /\ at \in 1 .. Len(layers) - 1 /\ cmd = SetOn("MoveLayer", active, at + 1)
             \/ click = "MoveDown" /\ at > 1 /\ cmd = SetOn("MoveLayer", active, at - 1)
    <3>1. PICK k \in Nat \ {0} : cmd = SetOn("MoveLayer", active, k) /\ click \in {"MoveUp", "MoveDown"}
      <4> HIDE DEF at
      <4>. QED
        BY <2>3, <2>7
    <3>. QED
      BY <2>2, <3>1 DEF SetOn, Command, NoClick
  <2>8. CASE click = "Eye" /\ cmd = SetOn("SetLayerVisible", active, v)
    <3> HIDE DEF v
    <3>. QED
      BY <2>2, <2>4, <2>8 DEF SetOn, Command, NoClick
  <2>9. CASE /\ click \in DOMAIN choose /\ layers # << >>
             /\ cmd = On("SetActiveLayer", layers[choose[click]].id)
    <3> HIDE DEF layers
    <3>1. Len(layers) \in Nat /\ Len(layers) # 0
      BY <2>2, <2>9, LenProperties, EmptySeq
    <3>2. choose[click] \in 1 .. Len(layers) /\ click \in {"Bottom", "Top"}
      BY <2>9, <3>1
    <3>3. PICK k \in 1 .. Len(layers) : cmd = On("SetActiveLayer", layers[k].id)
      BY <2>9, <3>2
    <3>4. layers[k].id \in LayerId
      BY <2>2, InkLayerAt
    <3>. QED
      BY <3>2, <3>3, <3>4 DEF On, Command, NoClick
  <2>. QED
    BY <2>1, <2>5, <2>6, <2>7, <2>8, <2>9
<1>. QED
  BY <1>1, <1>2, <1>3 DEF ClickCommands

LEMMA KeyTyped ==
    ASSUME NEW snap \in Published, NEW key \in Keys, NEW cmd \in KeyCommands(key, snap)
    PROVE  /\ cmd \in Command /\ cmd.op # "BeginStroke"
           /\ cmd.op = "SetBrushMaxWidth" => cmd.value \in {snap.brush.width - 1, snap.brush.width + 1}
<1>1. snap.brush.width \in Int /\ snap.brush.ratio \in Int
  BY PublishedParts
<1>2. key \in {"Undo", "Redo", "[", "]", "Alt[", "Alt]"}
  BY KeysAssumption
<1>3. CASE key \in {"Undo", "Redo"}
  <2>1. cmd \in {Do("Undo"), Do("Redo")}
    BY <1>3 DEF KeyCommands
  <2>. QED
    BY <2>1 DEF Do, Command
<1>4. CASE key \in {"[", "]"}
  <2>1. cmd \in {Set("SetBrushMaxWidth", snap.brush.width - 1), Set("SetBrushMaxWidth", snap.brush.width + 1)}
    BY <1>1, <1>4 DEF KeyCommands, WidthKey
  <2>. QED
    BY <1>1, <2>1 DEF Set, Command
<1>5. CASE key \in {"Alt[", "Alt]"}
  <2>1. PICK n \in Int : cmd = Set("SetBrushMinRatio", n)
    BY <1>1, <1>5 DEF KeyCommands, RatioKey, RatioStep
  <2>. QED
    BY <2>1 DEF Set, Command
<1>. QED
  BY <1>2, <1>3, <1>4, <1>5

(***************************************************************************)
(* The kinds of step.                                                      *)
(***************************************************************************)
Posts(cmd) ==
    /\ handle = "open" /\ sends < MaxSends
    /\ channel' = Append(channel, cmd) /\ sends' = sends + 1
    /\ UNCHANGED <<handle, pc, stop, state, snapshot>>

\* Keys, clicks, samples and the end of a stroke; and its Down.
PostsOther == \E cmd \in Command : cmd.op # "BeginStroke" /\ Posts(cmd) /\ UNCHANGED nextStrokeId

PostsBegin ==
    /\ Posts(Begin(nextStrokeId, snapshot.brush)) /\ Begin(nextStrokeId, snapshot.brush) \in Command
    /\ nextStrokeId' = nextStrokeId + 1

Idles == UNCHANGED <<channel, sends, handle, pc, stop, state, snapshot, nextStrokeId>>

Drops ==
    /\ handle = "open" /\ handle' = "dropping" /\ channel' = Append(channel, Shutdown)
    /\ UNCHANGED <<sends, pc, stop, state, snapshot, nextStrokeId>>

Joins ==
    /\ handle = "dropping" /\ handle' = "dropped"
    /\ UNCHANGED <<channel, sends, pc, stop, state, snapshot, nextStrokeId>>

Takes ==
    /\ channel # << >> /\ channel' = Tail(channel)
    /\ IF Head(channel) = Shutdown THEN stop' = TRUE /\ UNCHANGED state
       ELSE state' = ApplyCommand(Head(channel), state) /\ UNCHANGED stop
    /\ pc' = "drain" /\ UNCHANGED <<sends, handle, snapshot, nextStrokeId>>

\* The channel is found empty, or the state is published.
Wraps ==
    /\ \/ pc' = "publish" /\ UNCHANGED snapshot
       \/ snapshot' = SnapshotOf(state)
    /\ UNCHANGED <<channel, sends, handle, stop, state, nextStrokeId>>

\* A frame shows the snapshot as it was before the step.
Shows == UNCHANGED shown \/ shown' = snapshot

LEMMA NextKinds ==
    ASSUME Types, Next
    PROVE  /\ PostsOther \/ PostsBegin \/ Idles \/ Drops \/ Joins \/ Takes \/ Wraps
           /\ Shows /\ drawing' \in {drawing, NoActive, nextStrokeId}
<1> USE DEF Shows
<1>0. /\ snapshot \in Published /\ nextStrokeId \in StrokeId /\ snapshot.brush \in Brush
      /\ drawing \in Nat
  BY PublishedParts DEF Types
<1>1. ASSUME NEW cmd, Send(cmd) PROVE Posts(cmd)
  BY <1>1 DEF Send, Thread!Send, Thread!actorVars, Posts
<1>2. CASE (\E widget \in Widgets : Click(widget)) \/ Zoom \/ \E new \in Sizes : Resized(new)
  BY <1>2 DEF Click, Zoom, Resized, engineVars, frameVars, Idles
<1>3. CASE \E key \in Keys : Key(key)
  <2>1. PICK key \in Keys : Key(key)
    BY <1>3
  <2>2. PICK cmd \in KeyCommands(key, snapshot) : Send(cmd)
    BY <2>1 DEF Key
  <2>3. cmd \in Command /\ cmd.op # "BeginStroke" /\ Posts(cmd)
    BY <1>0, <1>1, <2>2, KeyTyped
  <2>. QED
    BY <2>1, <2>3 DEF Key, frameVars, PostsOther
<1>4. CASE Down
  <2>1. Begin(nextStrokeId, snapshot.brush) \in Command
    BY <1>0 DEF Begin, SetOn, Command
  <2>. QED
    BY <1>1, <1>4, <2>1 DEF Down, frameVars, PostsBegin
<1>5. CASE Move \/ Finish("EndStroke") \/ Finish("CancelStroke")
  <2>1. PICK op \in {"AddSample", "EndStroke", "CancelStroke"} : Send(On(op, drawing))
    BY <1>5 DEF Move, Finish
  <2>2. drawing \in StrokeId
    BY <1>0, <1>5 DEF Move, Finish, NoActive, StrokeId
  <2>3. On(op, drawing) \in Command /\ On(op, drawing).op # "BeginStroke"
    BY <2>2 DEF On, Command
  <2>4. UNCHANGED <<nextStrokeId, shown>> /\ drawing' \in {drawing, NoActive}
    BY <1>5 DEF Move, Finish, frameVars
  <2>. QED
    BY <1>1, <2>1, <2>3, <2>4 DEF PostsOther
<1>6. CASE Close
  BY <1>6 DEF Close, Thread!Drop, Thread!actorVars, frameVars, inputVars, Drops, Shutdown
<1>7. CASE Frame
  <2>1. UNCHANGED engineVars \/ \E cmd \in ClickCommands(click, snapshot) : Thread!Send(cmd)
    BY <1>7 DEF Frame, Render
  <2>2. UNCHANGED <<drawing, nextStrokeId>> /\ Shows
    BY <1>7 DEF Frame, Render, frameVars
  <2>3. CASE UNCHANGED engineVars
    BY <2>2, <2>3 DEF engineVars, Idles
  <2>4. CASE \E cmd \in ClickCommands(click, snapshot) : Thread!Send(cmd)
    <3>1. PICK cmd \in ClickCommands(click, snapshot) : Thread!Send(cmd)
      BY <2>4
    <3>2. cmd \in Command /\ cmd.op # "BeginStroke"
      BY <1>0, ClickTyped
    <3>3. Posts(cmd)
      BY <3>1 DEF Thread!Send, Thread!actorVars, Posts
    <3>. QED
      BY <2>2, <3>2, <3>3 DEF PostsOther
  <2>. QED
    BY <2>1, <2>3, <2>4
<1>8. CASE Engine
  <2>1. UNCHANGED <<shown, drawing, nextStrokeId>>
    BY <1>8 DEF Engine, frameVars, inputVars
  <2>2. CASE Thread!Join
    BY <2>1, <2>2 DEF Thread!Join, Thread!actorVars, Joins
  <2>3. CASE Thread!Recv \/ Thread!Drain
    BY <2>1, <2>3 DEF Thread!Recv, Thread!Drain, Thread!Take, Thread!handleVars, Takes, Shutdown
  <2>4. CASE Thread!Drained \/ Thread!Publish
    BY <2>1, <2>4 DEF Thread!Drained, Thread!Publish, Thread!handleVars, Wraps
  <2>. QED
    BY <1>8, <2>2, <2>3, <2>4 DEF Engine, Thread!ActorStep
<1>. QED
  BY <1>2, <1>3, <1>4, <1>5, <1>6, <1>7, <1>8 DEF Next, Input

LEMMA HeadTail ==
    ASSUME NEW S, NEW q \in Seq(S), q # << >>
    PROVE  /\ Len(q) \in Nat \ {0} /\ Head(q) = q[1] /\ Head(q) \in S
           /\ Tail(q) \in Seq(S) /\ Len(Tail(q)) = Len(q) - 1
           /\ \A i \in 1 .. Len(q) - 1 : Tail(q)[i] = q[i + 1]
<1>1. Len(q) \in Nat \ {0} /\ q[1] \in S
  BY EmptySeq, LenProperties, ElementOfSeq
<1>2. Head(q) = q[1]
  BY HeadTailProperties
<1>. QED
  BY <1>1, <1>2, HeadTailProperties

LEMMA TypesInit == Init => Types
<1> SUFFICES ASSUME Init PROVE Types
  OBVIOUS
<1> USE DEF Init, Thread!Init
<1>1. DefaultBrush \in Brush
  BY WidthAssumption DEF DefaultBrush, Brush, FullRatio
<1>2. NewEngine \in EngineState
  <2>1. NewLayer(1) \in InkLayer
    BY DefaultPropsAssumption, EmptySeq DEF NewLayer, InkLayer, LayerId
  <2>2. <<NewLayer(1)>> \in Seq(InkLayer)
    BY <2>1
  <2>. QED
    BY <1>1, <2>2, EmptySeq DEF NewEngine, EngineState, LayerId
<1>3. DefaultSnapshot \in Published
  <2>1. [layers |-> << >>, activeStrokeLayer |-> NoLayer]
            \in [layers : Seq(InkLayer), activeStrokeLayer : LayerId \cup {NoLayer}]
    BY EmptySeq
  <2>. QED
    BY <1>1, <2>1 DEF DefaultSnapshot, Published
<1>4. WaitingShowsBrush
  BY DEF WaitingShowsBrush, NewEngine, DefaultSnapshot
<1>5. channel \in Seq(Command \cup {Shutdown})
  BY EmptySeq
<1>. QED
  BY <1>2, <1>3, <1>4, <1>5, SendsAssumption DEF Types, NoActive, StrokeId

LEMMA TypesNext == Ready /\ [Next]_vars => Types'
<1> SUFFICES ASSUME Ready, [Next]_vars PROVE Types'
  OBVIOUS
<1>0. Types /\ Targeted(state)
  BY DEF Ready
<1>1. CASE UNCHANGED vars
  BY <1>0, <1>1 DEF vars, engineVars, frameVars, inputVars, Types, WaitingShowsBrush
<1>2. CASE Next
  <2>0. /\ state \in EngineState /\ snapshot \in Published /\ shown \in Published
        /\ channel \in Seq(Command \cup {Shutdown})
        /\ sends \in Nat /\ sends <= MaxSends /\ nextStrokeId \in StrokeId /\ drawing \in Nat
        /\ WaitingShowsBrush
    BY <1>0 DEF Types
  <2>1. /\ PostsOther \/ PostsBegin \/ Idles \/ Drops \/ Joins \/ Takes \/ Wraps
        /\ Shows /\ drawing' \in {drawing, NoActive, nextStrokeId}
    BY <1>0, <1>2, NextKinds
  <2>2. shown' \in Published /\ drawing' \in Nat
    BY <2>0, <2>1 DEF Shows, NoActive, StrokeId
  <2>3. nextStrokeId' \in StrokeId
    BY <2>0, <2>1 DEF PostsOther, PostsBegin, Posts, Idles, Drops, Joins, Takes, Wraps, StrokeId
  <2>4. ASSUME NEW cmd \in Command, Posts(cmd)
        PROVE  /\ state' \in EngineState /\ snapshot' \in Published /\ WaitingShowsBrush'
               /\ channel' \in Seq(Command \cup {Shutdown}) /\ sends' \in Nat /\ sends' <= MaxSends
    <3>1. Append(channel, cmd) \in Seq(Command \cup {Shutdown})
      BY <2>0, AppendProperties
    <3>. QED
      BY <2>0, <2>4, <3>1, SendsAssumption DEF Posts, WaitingShowsBrush
  <2>5. CASE PostsOther \/ PostsBegin
    BY <2>2, <2>3, <2>4, <2>5 DEF PostsOther, PostsBegin, Types
  <2>6. CASE Idles \/ Joins
    BY <2>0, <2>2, <2>3, <2>6 DEF Idles, Joins, Types, WaitingShowsBrush
  <2>7. CASE Drops
    <3>1. Append(channel, Shutdown) \in Seq(Command \cup {Shutdown})
      BY <2>0, AppendProperties
    <3>. QED
      BY <2>0, <2>2, <2>3, <2>7, <3>1 DEF Drops, Types, WaitingShowsBrush
  <2>8. CASE Takes
    <3>1. Head(channel) \in Command \cup {Shutdown} /\ Tail(channel) \in Seq(Command \cup {Shutdown})
      BY <2>0, <2>8, HeadTail DEF Takes
    <3>2. state' \in EngineState
      BY <1>0, <2>0, <2>8, <3>1, ApplyIs DEF Takes
    <3>. QED
      BY <2>0, <2>2, <2>3, <2>8, <3>1, <3>2 DEF Takes, Types, WaitingShowsBrush
  <2>9. CASE Wraps
    <3>1. snapshot' \in Published
      BY <2>0, <2>9, SnapshotTyped DEF Wraps
    <3>2. WaitingShowsBrush'
      BY <2>9 DEF Wraps, WaitingShowsBrush, SnapshotOf
    <3>. QED
      BY <2>0, <2>2, <2>3, <2>9, <3>1, <3>2 DEF Wraps, Types
  <2>. QED
    BY <2>1, <2>5, <2>6, <2>7, <2>8, <2>9
<1>. QED
  BY <1>1, <1>2

(***************************************************************************)
(* The plain document and its edits: Frontend's without the brushes.       *)
(***************************************************************************)
StrokeMap == [s \in InkStroke |-> Plain(s)]
LayerMap  == [l \in InkLayer |-> PlainLayer(l)]
EditMap   == [e \in InkEdit |-> PlainEdit(e)]

PlainLayers(ls) == Mapped(LayerMap, ls)
PlainEdits(es)  == Mapped(EditMap, es)

LEMMA PlainStroke ==
    ASSUME NEW s \in InkStroke
    PROVE  Plain(s) \in Stroke /\ Plain(s).id = s.id /\ StrokeMap[s] = Plain(s)
BY DEF Plain, InkStroke, Stroke, StrokeMap

LEMMA StrokesInto == Into(StrokeMap, InkStroke, Stroke)
BY PlainStroke DEF Into, StrokeMap

LEMMA PlainLayerIs ==
    ASSUME NEW l \in InkLayer
    PROVE  /\ PlainLayer(l) \in Layer /\ LayerMap[l] = PlainLayer(l)
           /\ PlainLayer(l) = [l EXCEPT !.strokes = Mapped(StrokeMap, l.strokes)]
           /\ PlainLayer(l).id = l.id /\ PlainLayer(l).props = l.props
           /\ PlainLayer(l).strokes = Mapped(StrokeMap, l.strokes)
<1>1. l.strokes \in Seq(InkStroke)
  BY DEF InkLayer
<1>2. Mapped(StrokeMap, l.strokes) \in Seq(Stroke)
  BY <1>1, StrokesInto, MappedIs
<1>3. [i \in DOMAIN l.strokes |-> Plain(l.strokes[i])] = Mapped(StrokeMap, l.strokes)
  <2>1. \A i \in DOMAIN l.strokes : StrokeMap[l.strokes[i]] = Plain(l.strokes[i])
    <3>1. DOMAIN l.strokes = 1 .. Len(l.strokes)
      BY <1>1, LenProperties
    <3>. QED
      BY <1>1, <3>1, ElementOfSeq, PlainStroke
  <2>. QED
    BY <2>1 DEF Mapped
<1>4. PlainLayer(l) = [l EXCEPT !.strokes = Mapped(StrokeMap, l.strokes)]
  BY <1>3 DEF PlainLayer
<1> DEFINE w == Mapped(StrokeMap, l.strokes)
<1> HIDE DEF w
<1>5. LET p == [l EXCEPT !.strokes = w]
      IN p \in Layer /\ p.id = l.id /\ p.props = l.props /\ p.strokes = w
  BY <1>2 DEF InkLayer, Layer, w
<1>6. LayerMap[l] = PlainLayer(l)
  BY DEF LayerMap
<1>. QED
  BY <1>4, <1>5, <1>6 DEF w

LEMMA LayersInto == Into(LayerMap, InkLayer, Layer) /\ \A l \in InkLayer : LayerMap[l].id = l.id
<1>1. \A l \in InkLayer : LayerMap[l] \in Layer /\ LayerMap[l].id = l.id
  BY PlainLayerIs
<1>. QED
  BY <1>1 DEF Into, LayerMap

LEMMA StrokesIntoIds == \A s \in InkStroke : StrokeMap[s].id = s.id
BY PlainStroke

LEMMA PlainEditIs ==
    ASSUME NEW e \in InkEdit
    PROVE  /\ PlainEdit(e) \in Edit /\ EditMap[e] = PlainEdit(e) /\ PlainEdit(e).op = e.op
           /\ e.op = "AddStroke" =>
                 /\ PlainEdit(e).stroke = Plain(e.stroke) /\ PlainEdit(e).layer = e.layer
                 /\ PlainEdit(e) = AddStroke(Plain(e.stroke), e.layer)
           /\ e.op = "AddLayer" => /\ PlainEdit(e).layer = PlainLayer(e.layer)
                                   /\ PlainEdit(e).index = e.index /\ PlainEdit(e).wasActive = e.wasActive
                                   /\ PlainEdit(e) = AddLayer(PlainLayer(e.layer), e.index, e.wasActive)
           /\ e.op \notin {"AddStroke", "AddLayer"} => PlainEdit(e) = e
<1>0. EditMap[e] = PlainEdit(e)
  BY DEF EditMap
<1>1. CASE e.op = "AddStroke"
  <2>1. /\ e.stroke \in InkStroke /\ e.layer \in LayerId
        /\ e = [op |-> "AddStroke", stroke |-> e.stroke, layer |-> e.layer]
    BY <1>1 DEF InkEdit
  <2>2. PlainEdit(e) = [e EXCEPT !.stroke = Plain(e.stroke)]
    BY <1>1 DEF PlainEdit
  <2> DEFINE p == Plain(e.stroke)
  <2>3. p \in Stroke
    BY <2>1, PlainStroke
  <2> HIDE DEF p
  <2>4. [e EXCEPT !.stroke = p] = [op |-> "AddStroke", stroke |-> p, layer |-> e.layer]
    BY <2>1
  <2>5. [op |-> "AddStroke", stroke |-> p, layer |-> e.layer] \in Edit
    BY <2>1, <2>3 DEF Edit
  <2>. QED
    BY <1>0, <1>1, <2>2, <2>4, <2>5 DEF p, AddStroke
<1>2. CASE e.op = "AddLayer"
  <2>1. /\ e.layer \in InkLayer /\ e.index \in Nat \ {0} /\ e.wasActive \in BOOLEAN
        /\ e = [op |-> "AddLayer", layer |-> e.layer, index |-> e.index, wasActive |-> e.wasActive]
    BY <1>2 DEF InkEdit
  <2>2. PlainEdit(e) = [e EXCEPT !.layer = PlainLayer(e.layer)]
    BY <1>2 DEF PlainEdit
  <2> DEFINE p == PlainLayer(e.layer)
             q == [op |-> "AddLayer", layer |-> p, index |-> e.index, wasActive |-> e.wasActive]
  <2>3. p \in Layer
    BY <2>1, PlainLayerIs
  <2> HIDE DEF p
  <2>4. [e EXCEPT !.layer = p] = q
    BY <2>1
  <2>5. q \in Edit
    BY <2>1, <2>3 DEF Edit
  <2>6. q.op = "AddLayer" /\ q.layer = p /\ q.index = e.index /\ q.wasActive = e.wasActive
    OBVIOUS
  <2>7. q = AddLayer(p, e.index, e.wasActive)
    BY DEF AddLayer
  <2> HIDE DEF q
  <2>. QED
    BY <1>0, <1>2, <2>2, <2>4, <2>5, <2>6, <2>7 DEF p
<1>3. CASE e.op \notin {"AddStroke", "AddLayer"}
  <2>1. PlainEdit(e) = e
    BY <1>3 DEF PlainEdit
  <2>2. e \in Edit
    BY <1>3 DEF InkEdit, Edit
  <2>. QED
    BY <1>0, <1>3, <2>1, <2>2
<1>. QED
  BY <1>1, <1>2, <1>3

LEMMA EditsInto == Into(EditMap, InkEdit, Edit)
<1>1. \A e \in InkEdit : EditMap[e] \in Edit
  BY PlainEditIs
<1>. QED
  BY <1>1 DEF Into, EditMap

LEMMA EachIs ==
    /\ \A ls \in Seq(InkLayer) : Each(PlainLayer, ls) = PlainLayers(ls)
    /\ \A es \in Seq(InkEdit) : Each(PlainEdit, es) = PlainEdits(es)
<1>1. ASSUME NEW ls \in Seq(InkLayer) PROVE Each(PlainLayer, ls) = PlainLayers(ls)
  <2>1. DOMAIN ls = 1 .. Len(ls)
    BY LenProperties
  <2>2. \A i \in DOMAIN ls : LayerMap[ls[i]] = PlainLayer(ls[i])
    BY <2>1, ElementOfSeq, PlainLayerIs
  <2>. QED
    BY <2>2 DEF Each, PlainLayers, Mapped
<1>2. ASSUME NEW es \in Seq(InkEdit) PROVE Each(PlainEdit, es) = PlainEdits(es)
  <2>1. DOMAIN es = 1 .. Len(es)
    BY LenProperties
  <2>2. \A i \in DOMAIN es : EditMap[es[i]] = PlainEdit(es[i])
    BY <2>1, ElementOfSeq, PlainEditIs
  <2>. QED
    BY <2>2 DEF Each, PlainEdits, Mapped
<1>. QED
  BY <1>1, <1>2

\* The plain layers, place by place.
LEMMA PlainLayersAre ==
    ASSUME NEW ls \in Seq(InkLayer)
    PROVE  /\ PlainLayers(ls) \in Seq(Layer) /\ Len(PlainLayers(ls)) = Len(ls)
           /\ Ids(PlainLayers(ls)) = Ids(ls)
           /\ \A id : Position(PlainLayers(ls), id) = Position(ls, id)
           /\ \A p \in 1 .. Len(ls) :
                 /\ PlainLayers(ls)[p] = PlainLayer(ls[p]) /\ ls[p] \in InkLayer
                 /\ PlainLayers(ls)[p].id = ls[p].id
                 /\ PlainLayers(ls)[p].strokes = Mapped(StrokeMap, ls[p].strokes)
<1>1. /\ PlainLayers(ls) \in Seq(Layer) /\ Len(PlainLayers(ls)) = Len(ls)
      /\ \A p \in 1 .. Len(ls) : PlainLayers(ls)[p] = LayerMap[ls[p]]
  BY LayersInto, MappedIs DEF PlainLayers
<1>2. Ids(PlainLayers(ls)) = Ids(ls) /\ \A id : Position(PlainLayers(ls), id) = Position(ls, id)
  <2>1. Into(LayerMap, InkLayer, Layer) /\ \A l \in InkLayer : LayerMap[l].id = l.id
    BY LayersInto
  <2>. QED
    BY <2>1, MappedPositions DEF PlainLayers
<1>3. ASSUME NEW p \in 1 .. Len(ls)
      PROVE  /\ PlainLayers(ls)[p] = PlainLayer(ls[p]) /\ ls[p] \in InkLayer
             /\ PlainLayers(ls)[p].id = ls[p].id
             /\ PlainLayers(ls)[p].strokes = Mapped(StrokeMap, ls[p].strokes)
  <2>1. ls[p] \in InkLayer /\ PlainLayers(ls)[p] = LayerMap[ls[p]]
    BY <1>1, ElementOfSeq
  <2>. QED
    BY <2>1, PlainLayerIs
<1>. QED
  BY <1>1, <1>2, <1>3

LEMMA PlainStrokesAre ==
    ASSUME NEW ss \in Seq(InkStroke)
    PROVE  /\ Mapped(StrokeMap, ss) \in Seq(Stroke) /\ Len(Mapped(StrokeMap, ss)) = Len(ss)
           /\ Ids(Mapped(StrokeMap, ss)) = Ids(ss)
           /\ \A id : Position(Mapped(StrokeMap, ss), id) = Position(ss, id)
           /\ \A i \in 1 .. Len(ss) : Mapped(StrokeMap, ss)[i] = Plain(ss[i])
<1>1. Into(StrokeMap, InkStroke, Stroke) /\ \A s \in InkStroke : StrokeMap[s].id = s.id
  BY StrokesInto, StrokesIntoIds
<1>2. Ids(Mapped(StrokeMap, ss)) = Ids(ss) /\ \A id : Position(Mapped(StrokeMap, ss), id) = Position(ss, id)
  BY <1>1, MappedPositions
<1>3. /\ Mapped(StrokeMap, ss) \in Seq(Stroke) /\ Len(Mapped(StrokeMap, ss)) = Len(ss)
      /\ \A i \in 1 .. Len(ss) : Mapped(StrokeMap, ss)[i] = StrokeMap[ss[i]]
  BY <1>1, MappedIs
<1>4. \A i \in 1 .. Len(ss) : StrokeMap[ss[i]] = Plain(ss[i])
  BY ElementOfSeq, PlainStroke
<1>. QED
  BY <1>2, <1>3, <1>4

\* The strokes of one layer replaced.
LEMMA PlainReplaced ==
    ASSUME NEW ls \in Seq(InkLayer), NEW p \in 1 .. Len(ls), NEW ss \in Seq(InkStroke)
    PROVE  PlainLayers(WithStrokes(ls, p, ss)) = WithStrokes(PlainLayers(ls), p, Mapped(StrokeMap, ss))
<1> DEFINE l == [ls[p] EXCEPT !.strokes = ss]
           m == Mapped(StrokeMap, ss)
<1>1. l \in InkLayer /\ WithStrokes(ls, p, ss) = [ls EXCEPT ![p] = l]
  BY InkStrokesReplaced
<1>2. ls[p] \in InkLayer /\ l.strokes = ss
  BY InkLayerAt DEF InkLayer
<1>3. PlainLayer(l) = [PlainLayer(ls[p]) EXCEPT !.strokes = m]
  <2>1. /\ PlainLayer(l) = [l EXCEPT !.strokes = m]
        /\ PlainLayer(ls[p]) = [ls[p] EXCEPT !.strokes = Mapped(StrokeMap, ls[p].strokes)]
    BY <1>1, <1>2, PlainLayerIs
  <2> DEFINE k == ls[p]
             w == Mapped(StrokeMap, ls[p].strokes)
  <2>2. k \in InkLayer
    BY <1>2
  <2> HIDE DEF k, w, m
  <2>3. [[k EXCEPT !.strokes = ss] EXCEPT !.strokes = m] = [[k EXCEPT !.strokes = w] EXCEPT !.strokes = m]
    BY <2>2 DEF InkLayer
  <2>. QED
    BY <2>1, <2>3 DEF k, w
<1>4. LayerMap[l] = PlainLayer(l) /\ PlainLayers(ls)[p] = PlainLayer(ls[p])
  BY <1>1, PlainLayerIs, PlainLayersAre
<1> HIDE DEF l, m
<1>5. PlainLayers([ls EXCEPT ![p] = l]) = [PlainLayers(ls) EXCEPT ![p] = LayerMap[l]]
  <2>1. Into(LayerMap, InkLayer, Layer) /\ l \in InkLayer
    BY <1>1, LayersInto
  <2>2. Mapped(LayerMap, [ls EXCEPT ![p] = l]) = [Mapped(LayerMap, ls) EXCEPT ![p] = LayerMap[l]]
    BY <2>1, MappedExcept
  <2>. QED
    BY <2>2 DEF PlainLayers
<1>6. [PlainLayers(ls) EXCEPT ![p] = LayerMap[l]] = WithStrokes(PlainLayers(ls), p, m)
  BY <1>3, <1>4 DEF WithStrokes
<1>. QED
  BY <1>1, <1>5, <1>6 DEF m

\* A plain edit applies to the plain layers as the edit does to the layers,
\* and leaves and returns what it does, without the brushes.
LEMMA PlainCanApply ==
    ASSUME NEW ls \in Seq(InkLayer), NEW e \in InkEdit
    PROVE  CanApply(PlainEdit(e), PlainLayers(ls)) <=> CanApply(e, ls)
<1> DEFINE f == PlainEdit(e)
           pl == PlainLayers(ls)
<1>1. Len(pl) = Len(ls) /\ Ids(pl) = Ids(ls) /\ \A id : Position(pl, id) = Position(ls, id)
  BY PlainLayersAre
<1>2. CASE e.op = "AddStroke"
  <2>1. f.op = "AddStroke" /\ f.layer = e.layer
    BY <1>2, PlainEditIs
  <2> HIDE DEF f, pl
  <2>. QED
    BY <1>1, <1>2, <2>1 DEF CanApply, f, pl
<1>3. CASE e.op = "RemoveStroke"
  <2>1. f = e
    BY <1>3, PlainEditIs
  <2>2. CASE e.layer \in Ids(ls)
    <3> DEFINE p == Position(ls, e.layer)
    <3>1. p \in 1 .. Len(ls)
      BY <2>2, PositionFound
    <3>2. ls[p].strokes \in Seq(InkStroke) /\ pl[p].strokes = Mapped(StrokeMap, ls[p].strokes)
      BY <3>1, InkLayerAt, PlainLayersAre
    <3>3. Ids(pl[p].strokes) = Ids(ls[p].strokes)
      BY <3>2, PlainStrokesAre
    <3>4. Position(pl, e.layer) = p
      BY <1>1
    <3> HIDE DEF p, f, pl
    <3>. QED
      BY <1>1, <1>3, <2>1, <2>2, <3>3, <3>4 DEF CanApply, p, f, pl
  <2>3. CASE e.layer \notin Ids(ls)
    <3> HIDE DEF f, pl
    <3>. QED
      BY <1>1, <1>3, <2>1, <2>3 DEF CanApply, f, pl
  <2>. QED
    BY <2>2, <2>3
<1>4. CASE e.op = "AddLayer"
  <2>1. f.op = "AddLayer"
    BY <1>4, PlainEditIs
  <2>. QED
    BY <1>4, <2>1 DEF CanApply
<1>5. CASE e.op \in {"RemoveLayer", "MoveLayer"}
  <2>1. f = e
    BY <1>5, PlainEditIs
  <2> HIDE DEF f, pl
  <2>. QED
    BY <1>1, <1>5, <2>1 DEF CanApply, f, pl
<1>. QED
  BY <1>2, <1>3, <1>4, <1>5, InkEditVariants

LEMMA PlainAfter ==
    ASSUME NEW ls \in Seq(InkLayer), NEW e \in InkEdit, CanApply(e, ls)
    PROVE  LayersAfter(PlainEdit(e), PlainLayers(ls)) = PlainLayers(LayersAfter(e, ls))
<1> DEFINE f == PlainEdit(e)
           pl == PlainLayers(ls)
<1>0. Into(LayerMap, InkLayer, Layer) /\ Into(StrokeMap, InkStroke, Stroke)
  BY LayersInto, StrokesInto
<1>1. Len(pl) = Len(ls) /\ Ids(pl) = Ids(ls) /\ \A id : Position(pl, id) = Position(ls, id)
  BY PlainLayersAre
<1>2. CASE e.op = "AddStroke"
  <2> DEFINE p == Position(ls, e.layer)
             ss == ls[p].strokes
             new == Append(ss, e.stroke)
  <2>1. /\ p \in 1 .. Len(ls) /\ ss \in Seq(InkStroke) /\ e.stroke \in InkStroke
        /\ new \in Seq(InkStroke) /\ LayersAfter(e, ls) = WithStrokes(ls, p, new)
    BY <1>2, InkAddStroke
  <2>2. f.op = "AddStroke" /\ f.layer = e.layer /\ f.stroke = StrokeMap[e.stroke]
    BY <1>2, <2>1, PlainEditIs, PlainStroke
  <2>3. Mapped(StrokeMap, new) = Append(Mapped(StrokeMap, ss), StrokeMap[e.stroke])
    BY <1>0, <2>1, MappedAppend
  <2>4. pl[p].strokes = Mapped(StrokeMap, ss) /\ Position(pl, f.layer) = p
    BY <1>1, <2>1, <2>2, PlainLayersAre
  <2>5. LayersAfter(f, pl) = WithStrokes(pl, Position(pl, f.layer), Append(pl[Position(pl, f.layer)].strokes, f.stroke))
    BY <2>2 DEF LayersAfter, WithStrokes
  <2> HIDE DEF p, ss, new, f, pl
  <2>6. LayersAfter(f, pl) = WithStrokes(pl, p, Mapped(StrokeMap, new))
    BY <2>2, <2>3, <2>4, <2>5
  <2>7. PlainLayers(WithStrokes(ls, p, new)) = WithStrokes(pl, p, Mapped(StrokeMap, new))
    BY <2>1, PlainReplaced DEF pl
  <2>. QED
    BY <2>1, <2>6, <2>7 DEF f, pl
<1>3. CASE e.op = "RemoveStroke"
  <2> DEFINE p == Position(ls, e.layer)
             ss == ls[p].strokes
             i == Position(ss, e.id)
             new == RemoveAt(ss, i)
  <2>1. /\ p \in 1 .. Len(ls) /\ ss \in Seq(InkStroke) /\ i \in 1 .. Len(ss)
        /\ new \in Seq(InkStroke) /\ LayersAfter(e, ls) = WithStrokes(ls, p, new)
    BY <1>3, InkRemoveStroke
  <2>2. f = e
    BY <1>3, PlainEditIs
  <2>3. Mapped(StrokeMap, new) = RemoveAt(Mapped(StrokeMap, ss), i)
    BY <1>0, <2>1, MappedRemove
  <2>4. pl[p].strokes = Mapped(StrokeMap, ss) /\ Position(pl, e.layer) = p
    BY <1>1, <2>1, PlainLayersAre
  <2>5. Position(Mapped(StrokeMap, ss), e.id) = i
    BY <2>1, PlainStrokesAre
  <2>6. LayersAfter(e, pl) = LET q == Position(pl, e.layer)
                             IN  WithStrokes(pl, q, RemoveAt(pl[q].strokes, Position(pl[q].strokes, e.id)))
    BY <1>3 DEF LayersAfter, WithStrokes
  <2> HIDE DEF p, ss, i, new, f, pl
  <2>7. LayersAfter(e, pl) = WithStrokes(pl, p, Mapped(StrokeMap, new))
    BY <2>3, <2>4, <2>5, <2>6
  <2>8. PlainLayers(WithStrokes(ls, p, new)) = WithStrokes(pl, p, Mapped(StrokeMap, new))
    BY <2>1, PlainReplaced DEF pl
  <2>. QED
    BY <2>1, <2>2, <2>7, <2>8 DEF f, pl
<1>4. CASE e.op = "AddLayer"
  <2> DEFINE i == AtMost(e.index, Len(ls) + 1)
             x == e.layer
  <2>1. i \in 1 .. Len(ls) + 1 /\ x \in InkLayer /\ LayersAfter(e, ls) = InsertAt(ls, i, x)
    BY <1>4, InkAddLayer
  <2>2. f.op = "AddLayer" /\ f.layer = LayerMap[x] /\ f.index = e.index
    BY <1>4, <2>1, PlainEditIs, PlainLayerIs
  <2>3. LayersAfter(f, pl) = InsertAt(pl, AtMost(f.index, Len(pl) + 1), f.layer)
    BY <2>2 DEF LayersAfter
  <2>4. AtMost(f.index, Len(pl) + 1) = i
    BY <1>1, <2>2
  <2> HIDE DEF i, x, f, pl
  <2>5. Mapped(LayerMap, InsertAt(ls, i, x)) = InsertAt(Mapped(LayerMap, ls), i, LayerMap[x])
    BY <1>0, <2>1, MappedInsert
  <2>. QED
    BY <2>1, <2>2, <2>3, <2>4, <2>5 DEF PlainLayers, f, pl
<1>5. CASE e.op = "RemoveLayer"
  <2> DEFINE p == Position(ls, e.id)
  <2>1. p \in 1 .. Len(ls) /\ LayersAfter(e, ls) = RemoveAt(ls, p)
    BY <1>5, InkRemoveLayer
  <2>2. f = e
    BY <1>5, PlainEditIs
  <2>3. LayersAfter(e, pl) = RemoveAt(pl, Position(pl, e.id))
    BY <1>5 DEF LayersAfter
  <2>4. Position(pl, e.id) = p
    BY <1>1
  <2> HIDE DEF p, f, pl
  <2>5. Mapped(LayerMap, RemoveAt(ls, p)) = RemoveAt(Mapped(LayerMap, ls), p)
    BY <1>0, <2>1, MappedRemove
  <2>. QED
    BY <2>1, <2>2, <2>3, <2>4, <2>5 DEF PlainLayers, f, pl
<1>6. CASE e.op = "MoveLayer"
  <2> DEFINE p == Position(ls, e.id)
             rest == RemoveAt(ls, p)
             i == AtMost(e.index, Len(ls))
             x == ls[p]
  <2>1. /\ p \in 1 .. Len(ls) /\ x \in InkLayer /\ rest \in Seq(InkLayer) /\ i \in 1 .. Len(rest) + 1
        /\ LayersAfter(e, ls) = InsertAt(rest, i, x)
    BY <1>6, InkMoveLayer
  <2>2. f = e
    BY <1>6, PlainEditIs
  <2>3. LayersAfter(e, pl) = LET q == Position(pl, e.id)
                             IN  InsertAt(RemoveAt(pl, q), AtMost(e.index, Len(pl)), pl[q])
    BY <1>6 DEF LayersAfter
  <2>4. Position(pl, e.id) = p /\ AtMost(e.index, Len(pl)) = i
    BY <1>1
  <2>5. pl[p] = LayerMap[x]
    BY <2>1, PlainLayersAre, PlainLayerIs
  <2>6. Mapped(LayerMap, rest) = RemoveAt(Mapped(LayerMap, ls), p)
    BY <1>0, <2>1, MappedRemove
  <2> HIDE DEF p, rest, i, x, f, pl
  <2>7. Mapped(LayerMap, InsertAt(rest, i, x)) = InsertAt(Mapped(LayerMap, rest), i, LayerMap[x])
    BY <1>0, <2>1, MappedInsert
  <2>8. LayersAfter(e, pl) = InsertAt(RemoveAt(pl, p), i, LayerMap[x])
    BY <2>3, <2>4, <2>5
  <2>. QED
    BY <2>1, <2>2, <2>6, <2>7, <2>8 DEF PlainLayers, f, pl
<1>. QED
  BY <1>2, <1>3, <1>4, <1>5, <1>6, InkEditVariants

LEMMA PlainActiveAfter ==
    ASSUME NEW ls \in Seq(InkLayer), NEW e \in InkEdit, CanApply(e, ls), NEW a
    PROVE  ActiveLayerAfter(PlainEdit(e), PlainLayers(ls), a) = ActiveLayerAfter(e, ls, a)
<1> DEFINE f == PlainEdit(e)
           pl == PlainLayers(ls)
<1>1. CASE e.op = "AddLayer"
  <2>1. f.op = "AddLayer" /\ f.layer.id = e.layer.id /\ f.wasActive = e.wasActive
    BY <1>1, PlainEditIs, PlainLayerIs, InkEditVariants
  <2> HIDE DEF f, pl
  <2>. QED
    BY <1>1, <2>1 DEF ActiveLayerAfter, f, pl
<1>2. CASE e.op = "RemoveLayer" /\ e.id = a
  <2> DEFINE after == LayersAfter(e, ls)
             k == AtMost(Position(ls, e.id), Len(after))
             pa == LayersAfter(f, pl)
  <2>1. f = e
    BY <1>2, PlainEditIs
  <2>2. ActiveLayerAfter(e, ls, a) = after[k].id
    BY <1>2 DEF ActiveLayerAfter, LayersAfter
  <2>3. ActiveLayerAfter(f, pl, a) = pa[AtMost(Position(pl, e.id), Len(pa))].id
    BY <1>2, <2>1 DEF ActiveLayerAfter, LayersAfter
  <2>4. pa = PlainLayers(after)
    BY PlainAfter
  <2>5. after \in Seq(InkLayer) /\ Len(after) \in Nat \ {0} /\ Position(ls, e.id) \in 1 .. Len(ls)
    BY <1>2, InkRemoveLayer
  <2>6. Position(pl, e.id) = Position(ls, e.id)
    BY PlainLayersAre
  <2> HIDE DEF after, pa, f, pl
  <2>7. Len(pa) = Len(after) /\ \A p \in 1 .. Len(after) : pa[p].id = after[p].id
    BY <2>4, <2>5, PlainLayersAre
  <2>8. k \in 1 .. Len(after)
    BY <2>5 DEF AtMost
  <2>. QED
    BY <2>2, <2>3, <2>6, <2>7, <2>8 DEF f, pl
<1>3. CASE e.op # "AddLayer" /\ ~(e.op = "RemoveLayer" /\ e.id = a)
  <2>1. f.op = e.op /\ (e.op = "RemoveLayer" => f = e)
    BY <1>3, PlainEditIs
  <2> HIDE DEF f, pl
  <2>. QED
    BY <1>3, <2>1 DEF ActiveLayerAfter, f, pl
<1>. QED
  BY <1>1, <1>2, <1>3

LEMMA PlainInverse ==
    ASSUME NEW ls \in Seq(InkLayer), NEW e \in InkEdit, CanApply(e, ls), NEW a
    PROVE  InverseOf(PlainEdit(e), PlainLayers(ls), a) = PlainEdit(InverseOf(e, ls, a))
<1> DEFINE f == PlainEdit(e)
           pl == PlainLayers(ls)
<1>0. \A id : Position(pl, id) = Position(ls, id)
  BY PlainLayersAre
<1>1. CASE e.op = "AddStroke"
  <2>1. f.op = "AddStroke" /\ f.stroke.id = e.stroke.id /\ f.layer = e.layer
    BY <1>1, PlainEditIs, PlainStroke, InkEditVariants
  <2>2. InverseOf(e, ls, a) = RemoveStroke(e.stroke.id, e.layer) /\ InverseOf(f, pl, a) = RemoveStroke(f.stroke.id, f.layer)
    BY <1>1, <2>1 DEF InverseOf
  <2>3. PlainEdit(RemoveStroke(e.stroke.id, e.layer)) = RemoveStroke(e.stroke.id, e.layer)
    BY DEF PlainEdit, RemoveStroke
  <2> HIDE DEF f, pl
  <2>. QED
    BY <2>1, <2>2, <2>3 DEF f, pl
<1>2. CASE e.op = "RemoveStroke"
  <2> DEFINE p == Position(ls, e.layer)
             ss == ls[p].strokes
             i == Position(ss, e.id)
  <2>1. p \in 1 .. Len(ls) /\ ss \in Seq(InkStroke) /\ i \in 1 .. Len(ss) /\ ss[i] \in InkStroke
    BY <1>2, InkRemoveStroke
  <2>2. f = e
    BY <1>2, PlainEditIs
  <2>3. InverseOf(e, ls, a) = AddStroke(ss[i], e.layer)
    BY <1>2 DEF InverseOf
  <2>4. InverseOf(e, pl, a) = LET drawn == pl[Position(pl, e.layer)].strokes
                              IN  AddStroke(drawn[Position(drawn, e.id)], e.layer)
    BY <1>2 DEF InverseOf
  <2>5. pl[p].strokes = Mapped(StrokeMap, ss)
    BY <2>1, PlainLayersAre
  <2>6. Mapped(StrokeMap, ss)[i] = Plain(ss[i]) /\ Position(Mapped(StrokeMap, ss), e.id) = i
    BY <2>1, PlainStrokesAre
  <2>7. PlainEdit(AddStroke(ss[i], e.layer)) = AddStroke(Plain(ss[i]), e.layer)
    BY DEF PlainEdit, AddStroke
  <2> HIDE DEF p, ss, i, f, pl
  <2>8. InverseOf(e, pl, a) = AddStroke(Plain(ss[i]), e.layer)
    BY <1>0, <2>4, <2>5, <2>6 DEF p
  <2>. QED
    BY <2>2, <2>3, <2>7, <2>8 DEF f, pl
<1>3. CASE e.op = "AddLayer"
  <2>1. f.op = "AddLayer" /\ f.layer.id = e.layer.id
    BY <1>3, PlainEditIs, PlainLayerIs, InkEditVariants
  <2>2. InverseOf(e, ls, a) = RemoveLayer(e.layer.id) /\ InverseOf(f, pl, a) = RemoveLayer(f.layer.id)
    BY <1>3, <2>1 DEF InverseOf
  <2>3. PlainEdit(RemoveLayer(e.layer.id)) = RemoveLayer(e.layer.id)
    BY DEF PlainEdit, RemoveLayer
  <2> HIDE DEF f, pl
  <2>. QED
    BY <2>1, <2>2, <2>3 DEF f, pl
<1>4. CASE e.op = "RemoveLayer"
  <2> DEFINE p == Position(ls, e.id)
             v == e.id = a
  <2>1. p \in 1 .. Len(ls) /\ ls[p] \in InkLayer
    BY <1>4, InkRemoveLayer
  <2>2. f = e /\ pl[p] = PlainLayer(ls[p])
    BY <1>4, <2>1, PlainEditIs, PlainLayersAre
  <2>3. InverseOf(e, ls, a) = AddLayer(ls[p], p, v)
    BY <1>4 DEF InverseOf
  <2>4. InverseOf(e, pl, a) = AddLayer(pl[Position(pl, e.id)], Position(pl, e.id), v)
    BY <1>4 DEF InverseOf
  <2>5. PlainEdit(AddLayer(ls[p], p, v)) = AddLayer(PlainLayer(ls[p]), p, v)
    <3> HIDE DEF v, p
    <3>. QED
      BY DEF PlainEdit, AddLayer
  <2> HIDE DEF f, pl, v
  <2>6. InverseOf(e, pl, a) = AddLayer(pl[p], p, v)
    BY <1>0, <2>4
  <2> HIDE DEF p
  <2>. QED
    BY <2>2, <2>3, <2>5, <2>6 DEF f, pl
<1>5. CASE e.op = "MoveLayer"
  <2>1. f = e
    BY <1>5, PlainEditIs
  <2>2. /\ InverseOf(e, ls, a) = MoveLayer(e.id, Position(ls, e.id))
        /\ InverseOf(e, pl, a) = MoveLayer(e.id, Position(pl, e.id))
    BY <1>5 DEF InverseOf
  <2>3. PlainEdit(MoveLayer(e.id, Position(ls, e.id))) = MoveLayer(e.id, Position(ls, e.id))
    BY DEF PlainEdit, MoveLayer
  <2> HIDE DEF f, pl
  <2>. QED
    BY <1>0, <2>1, <2>2, <2>3 DEF f, pl
<1>. QED
  BY <1>1, <1>2, <1>3, <1>4, <1>5, InkEditVariants

(***************************************************************************)
(* Every command is a step of the engine, or none.                         *)
(***************************************************************************)

\* The instance of Engine speaks of documents and edits as this module does.
LEMMA SameOperators ==
    \A e, l, a : /\ Implemented!LayersAfter(e, l) = LayersAfter(e, l)
                 /\ Implemented!ActiveLayerAfter(e, l, a) = ActiveLayerAfter(e, l, a)
                 /\ Implemented!InverseOf(e, l, a) = InverseOf(e, l, a)
                 /\ Implemented!CanApply(e, l) = CanApply(e, l)
BY DEF Implemented!LayersAfter, LayersAfter, Implemented!ActiveLayerAfter, ActiveLayerAfter,
       Implemented!InverseOf, InverseOf, Implemented!CanApply, CanApply,
       Implemented!AddStroke, AddStroke, Implemented!RemoveStroke, RemoveStroke,
       Implemented!AddLayer, AddLayer, Implemented!RemoveLayer, RemoveLayer, Implemented!MoveLayer, MoveLayer,
       Implemented!Ids, Ids, Implemented!Position, Position, Implemented!AtMost, AtMost,
       Implemented!SelectInSeq, SelectInSeq, Implemented!InsertAt, InsertAt, Implemented!RemoveAt, RemoveAt,
       Implemented!Min, Min

LEMMA SameConstructors ==
    /\ \A s, l : Implemented!AddStroke(s, l) = AddStroke(s, l)
    /\ \A l, i, w : Implemented!AddLayer(l, i, w) = AddLayer(l, i, w)
    /\ \A i : Implemented!RemoveLayer(i) = RemoveLayer(i)
    /\ \A i, k : Implemented!MoveLayer(i, k) = MoveLayer(i, k)
    /\ \A i : Implemented!NewLayer(i) = NewLayer(i) /\ Implemented!FreshSample(i) = FreshSample(i)
    /\ \A q : Implemented!Ids(q) = Ids(q) /\ Implemented!Last(q) = Last(q) /\ Implemented!Front(q) = Front(q)
    /\ \A q, i : Implemented!Position(q, i) = Position(q, i)
    /\ Implemented!NoStroke = NoStroke /\ Implemented!NoLayer = NoLayer
BY DEF Implemented!AddStroke, AddStroke, Implemented!AddLayer, AddLayer, Implemented!RemoveLayer, RemoveLayer,
       Implemented!MoveLayer, MoveLayer, Implemented!NewLayer, NewLayer, Implemented!FreshSample, FreshSample,
       Implemented!Ids, Ids, Implemented!Position, Position, Implemented!SelectInSeq, SelectInSeq,
       Implemented!Min, Min, Implemented!NoStroke, NoStroke, Implemented!NoLayer, NoLayer,
       Implemented!Last, Last, Implemented!Front, Front

\* What the engine sees of the state: the plain document and history.
LEMMA Views ==
    ASSUME Types, Types'
    PROVE  /\ Each(PlainLayer, state.layers) = PlainLayers(state.layers)
           /\ Each(PlainLayer, state.layers)' = PlainLayers(state'.layers)
           /\ Each(PlainEdit, state.past) = PlainEdits(state.past)
           /\ Each(PlainEdit, state.past)' = PlainEdits(state'.past)
           /\ Each(PlainEdit, state.future) = PlainEdits(state.future)
           /\ Each(PlainEdit, state.future)' = PlainEdits(state'.future)
           /\ Plain(state.active)' = Plain(state'.active)
<1>1. state \in EngineState /\ state' \in EngineState
  BY DEF Types
<1>2. /\ state.layers \in Seq(InkLayer) /\ state'.layers \in Seq(InkLayer)
      /\ state.past \in Seq(InkEdit) /\ state'.past \in Seq(InkEdit)
      /\ state.future \in Seq(InkEdit) /\ state'.future \in Seq(InkEdit)
  BY <1>1, StateParts
<1>. QED
  BY <1>2, EachIs

LEMMA PlainOfNone == Plain(NoStroke) = NoStroke /\ \A s \in InkStroke : Plain(s) # NoStroke /\ Plain(s).id = s.id
BY DEF Plain, NoStroke, InkStroke, StrokeId

LEMMA PlainEditsAre ==
    ASSUME NEW es \in Seq(InkEdit)
    PROVE  /\ PlainEdits(es) \in Seq(Edit) /\ Len(PlainEdits(es)) = Len(es)
           /\ \A e \in InkEdit : PlainEdits(Append(es, e)) = Append(PlainEdits(es), PlainEdit(e))
           /\ es # << >> => /\ PlainEdits(es) # << >> /\ PlainEdits(Front(es)) = Front(PlainEdits(es))
                            /\ Last(PlainEdits(es)) = PlainEdit(Last(es)) /\ Last(es) \in InkEdit
           /\ PlainEdits(<< >>) = << >>
<1>1. Into(EditMap, InkEdit, Edit) /\ \A e \in InkEdit : EditMap[e] = PlainEdit(e)
  BY EditsInto, PlainEditIs
<1>2. PlainEdits(es) \in Seq(Edit) /\ Len(PlainEdits(es)) = Len(es)
  BY <1>1, MappedIs DEF PlainEdits
<1>3. ASSUME NEW e \in InkEdit PROVE PlainEdits(Append(es, e)) = Append(PlainEdits(es), PlainEdit(e))
  <2>1. Mapped(EditMap, Append(es, e)) = Append(Mapped(EditMap, es), EditMap[e])
    BY <1>1, MappedAppend
  <2>. QED
    BY <1>1, <2>1 DEF PlainEdits
<1>4. ASSUME es # << >>
      PROVE  /\ PlainEdits(es) # << >> /\ PlainEdits(Front(es)) = Front(PlainEdits(es))
             /\ Last(PlainEdits(es)) = PlainEdit(Last(es)) /\ Last(es) \in InkEdit
  <2>1. Last(es) \in InkEdit
    BY <1>4, LastIs
  <2>2. /\ Mapped(EditMap, es) # << >> /\ Mapped(EditMap, Front(es)) = Front(Mapped(EditMap, es))
        /\ Last(Mapped(EditMap, es)) = EditMap[Last(es)]
    BY <1>1, <1>4, MappedFront
  <2>. QED
    BY <1>1, <2>1, <2>2 DEF PlainEdits
<1>5. PlainEdits(<< >>) = << >>
  BY DEF PlainEdits, Mapped
<1>. QED
  BY <1>2, <1>3, <1>4, <1>5

LEMMA CommitStep ==
    ASSUME Types, Types', NEW e, Committed(e, state, state')
    PROVE  /\ Implemented!Commit(PlainEdit(e))
           /\ CanApply(PlainEdit(e), Each(PlainLayer, state.layers))
<1> DEFINE inv == InverseOf(e, state.layers, state.activeLayer)
           f == PlainEdit(e)
<1>1. /\ e \in InkEdit /\ CanApply(e, state.layers)
      /\ state'.layers = LayersAfter(e, state.layers)
      /\ state'.activeLayer = ActiveLayerAfter(e, state.layers, state.activeLayer)
      /\ state'.past = Append(state.past, inv) /\ state'.future = << >>
  BY DEF Committed
<1>2. state.layers \in Seq(InkLayer) /\ state.past \in Seq(InkEdit) /\ state.activeLayer \in LayerId
  BY StateParts DEF Types
<1>3. inv \in InkEdit
  BY <1>1, <1>2, InkEditTyped
<1>4. CanApply(f, PlainLayers(state.layers))
  BY <1>1, <1>2, PlainCanApply
<1>5. /\ PlainLayers(state'.layers) = LayersAfter(f, PlainLayers(state.layers))
      /\ state'.activeLayer = ActiveLayerAfter(f, PlainLayers(state.layers), state.activeLayer)
  BY <1>1, <1>2, PlainAfter, PlainActiveAfter
<1>6. PlainEdits(state'.past) = Append(PlainEdits(state.past), InverseOf(f, PlainLayers(state.layers), state.activeLayer))
  <2>1. InverseOf(f, PlainLayers(state.layers), state.activeLayer) = PlainEdit(inv)
    BY <1>1, <1>2, PlainInverse
  <2>2. PlainEdits(Append(state.past, inv)) = Append(PlainEdits(state.past), PlainEdit(inv))
    BY <1>2, <1>3, PlainEditsAre
  <2>. QED
    BY <1>1, <2>1, <2>2
<1>7. PlainEdits(state'.future) = << >>
  BY <1>1, <1>2, PlainEditsAre
<1> HIDE DEF f, inv
<1> DEFINE ls == Each(PlainLayer, state.layers)
<1>8. ls = PlainLayers(state.layers)
  BY Views
<1>9. CanApply(f, ls)
  BY <1>4, <1>8
<1>10. Each(PlainLayer, state.layers)' = LayersAfter(f, ls)
  BY <1>5, <1>8, Views
<1>11. state'.activeLayer = ActiveLayerAfter(f, ls, state.activeLayer)
  BY <1>5, <1>8
<1>12. Each(PlainEdit, state.past)' = Append(Each(PlainEdit, state.past), InverseOf(f, ls, state.activeLayer))
  <2>1. Each(PlainEdit, state.past) = PlainEdits(state.past) /\ Each(PlainEdit, state.past)' = PlainEdits(state'.past)
    BY Views
  <2>. QED
    BY <1>6, <1>8, <2>1, Zenon
<1>13. Each(PlainEdit, state.future)' = << >>
  BY <1>7, Views
<1>14. Implemented!Commit(f) <=>
           /\ Each(PlainLayer, state.layers)' = LayersAfter(f, ls)
           /\ state'.activeLayer = ActiveLayerAfter(f, ls, state.activeLayer)
           /\ Each(PlainEdit, state.past)' = Append(Each(PlainEdit, state.past), InverseOf(f, ls, state.activeLayer))
           /\ Each(PlainEdit, state.future)' = << >>
  BY SameOperators, Zenon DEF Implemented!Commit
<1> HIDE DEF ls
<1>15. Implemented!Commit(f)
  BY <1>10, <1>11, <1>12, <1>13, <1>14, Zenon DEF ls
<1>. QED
  BY <1>9, <1>15, Zenon DEF f, ls

LEMMA EndStrokeStep ==
    ASSUME Types, Types', Ended(state, state'), Len(state.past) < MaxSends, Begun' = Begun
    PROVE  Implemented!EndStroke(state.active.id)
<1> DEFINE a == Plain(state.active)
           e == AddStroke(state.active, state.activeStrokeLayer)
<1>1. /\ state.active \in InkStroke /\ Committed(e, state, state')
      /\ NoStrokeLeft(state') /\ SameIdCounter(state, state')
  BY DEF Ended
<1>2. /\ Implemented!Commit(PlainEdit(e)) /\ CanApply(PlainEdit(e), Each(PlainLayer, state.layers))
  BY <1>1, CommitStep
<1>3. e \in InkEdit /\ e.op = "AddStroke" /\ e.stroke = state.active /\ e.layer = state.activeStrokeLayer
  BY <1>1 DEF Committed, AddStroke
<1>4. PlainEdit(e) = AddStroke(a, state.activeStrokeLayer) /\ state.activeStrokeLayer # NoLayer
  BY <1>3, PlainEditIs, InkEditVariants DEF LayerId, NoLayer
<1>5. Implemented!StrokeTarget = state.activeStrokeLayer
  BY <1>4, SameConstructors DEF Implemented!StrokeTarget
<1>6. a # NoStroke /\ a.id = state.active.id
  BY <1>1, PlainOfNone
<1>7. Plain(state.active)' = NoStroke /\ state'.activeStrokeLayer = NoLayer
  BY <1>1, PlainOfNone DEF NoStrokeLeft
<1>8. state'.nextLayerId = state.nextLayerId
  BY <1>1 DEF SameIdCounter
<1>9. Len(Each(PlainEdit, state.past)) < MaxSends
  <2>1. state.past \in Seq(InkEdit)
    BY StateParts DEF Types
  <2>. QED
    BY <2>1, Views, PlainEditsAre
<1> HIDE DEF e
<1>10. Implemented!AddStroke(a, Implemented!StrokeTarget) = PlainEdit(e)
  BY <1>4, <1>5, SameConstructors
<1>11. Implemented!CanApply(PlainEdit(e), Each(PlainLayer, state.layers))
  BY <1>2, SameOperators
<1> HIDE DEF a
<1>. QED
  BY <1>2, <1>6, <1>7, <1>8, <1>9, <1>10, <1>11, SameConstructors
     DEF Implemented!EndStroke, Implemented!HasActiveStroke, Implemented!ids, a

LEMMA CancelStrokeStep ==
    ASSUME Types, Types', Cancelled(state, state'), Begun' = Begun
    PROVE  Implemented!CancelStroke(state.active.id)
<1>1. /\ state.active \in InkStroke /\ NoStrokeLeft(state')
      /\ SameDocument(state, state') /\ SameHistory(state, state') /\ SameIdCounter(state, state')
  BY DEF Cancelled
<1>2. Plain(state.active) # NoStroke /\ Plain(state.active).id = state.active.id
  BY <1>1, PlainOfNone
<1>3. Plain(state.active)' = NoStroke /\ state'.activeStrokeLayer = NoLayer
  BY <1>1, PlainOfNone DEF NoStrokeLeft
<1>. QED
  BY <1>1, <1>2, <1>3, Views, SameConstructors
     DEF SameDocument, SameHistory, SameIdCounter, Implemented!CancelStroke, Implemented!HasActiveStroke,
         Implemented!docVars, Implemented!history, Implemented!ids

LEMMA BeginStrokeStep ==
    ASSUME Types, Types', NEW c, Began(c, state, state'), c.id = Begun, Begun' = Begun + 1, Begun <= MaxSends
    PROVE  Implemented!BeginStroke(FreshSample(0))
<1>1. /\ state'.active = [id |-> Begun, samples |-> <<FreshSample(0)>>, brush |-> c.value]
      /\ state'.activeStrokeLayer = state.activeLayer
      /\ SameDocument(state, state') /\ SameHistory(state, state') /\ SameIdCounter(state, state')
  BY DEF Began
<1>2. Plain(state.active)' = [id |-> Begun, samples |-> <<FreshSample(0)>>]
  <2> DEFINE n == Begun
  <2> HIDE DEF n
  <2>1. Plain([id |-> n, samples |-> <<FreshSample(0)>>, brush |-> c.value]) = [id |-> n, samples |-> <<FreshSample(0)>>]
    BY DEF Plain
  <2>2. state'.active = [id |-> n, samples |-> <<FreshSample(0)>>, brush |-> c.value]
    BY <1>1 DEF n
  <2>. QED
    BY <2>1, <2>2, Views DEF n
<1>. QED
  BY <1>1, <1>2, Views
     DEF SameDocument, SameHistory, SameIdCounter, Implemented!BeginStroke, Implemented!docVars, Implemented!history

LEMMA AddSampleStep ==
    ASSUME Types, Types', Sampled(state, state'), Len(state.active.samples) < MaxSends, Begun' = Begun
    PROVE  Implemented!AddSample(state.active.id, FreshSample(0))
<1>1. /\ state.active \in InkStroke
      /\ state'.active = [state.active EXCEPT !.samples = Append(@, FreshSample(0))]
      /\ state'.activeStrokeLayer = state.activeStrokeLayer
      /\ SameDocument(state, state') /\ SameHistory(state, state') /\ SameIdCounter(state, state')
  BY DEF Sampled
<1>2. Plain(state.active) # NoStroke /\ Plain(state.active).id = state.active.id
  BY <1>1, PlainOfNone
<1>3. Plain(state.active)' = [Plain(state.active) EXCEPT !.samples = Append(@, FreshSample(0))]
  <2> DEFINE s == state.active
             x == FreshSample(0)
  <2>1. s \in InkStroke /\ state'.active = [s EXCEPT !.samples = Append(@, x)]
    BY <1>1
  <2> HIDE DEF s, x
  <2>2. Plain([s EXCEPT !.samples = Append(@, x)]) = [Plain(s) EXCEPT !.samples = Append(@, x)]
    <3> DEFINE w == Append(s.samples, x)
               u == [s EXCEPT !.samples = w]
    <3>1. u.id = s.id /\ u.samples = w
      <4> HIDE DEF w
      <4>. QED
        BY <2>1 DEF InkStroke
    <3>2. [s EXCEPT !.samples = Append(@, x)] = u /\ [Plain(s) EXCEPT !.samples = Append(@, x)] = [Plain(s) EXCEPT !.samples = w]
      BY DEF Plain
    <3> HIDE DEF u, w
    <3>3. Plain(u) = [id |-> s.id, samples |-> w] /\ [Plain(s) EXCEPT !.samples = w] = [id |-> s.id, samples |-> w]
      BY <3>1 DEF Plain
    <3>. QED
      BY <3>2, <3>3
  <2>. QED
    BY <2>1, <2>2, Views DEF s, x
<1>4. Plain(state.active).samples = state.active.samples
  BY DEF Plain
<1>. QED
  BY <1>1, <1>2, <1>3, <1>4, Views, SameConstructors
     DEF SameDocument, SameHistory, SameIdCounter, Implemented!AddSample, Implemented!HasActiveStroke,
         Implemented!docVars, Implemented!history, Implemented!ids

LEMMA RecordGuard == ASSUME Types, Types', Len(state.past) < MaxSends PROVE Len(Each(PlainEdit, state.past)) < MaxSends
<1>1. state.past \in Seq(InkEdit)
  BY StateParts DEF Types
<1>. QED
  BY <1>1, Views, PlainEditsAre

LEMMA NewTopLayerStep ==
    ASSUME Types, Types', ToppedUp(state, state'), Len(state.past) < MaxSends,
           state.nextLayerId <= MaxSends + 1, Begun' = Begun
    PROVE  Implemented!NewTopLayer
<1> DEFINE l == NewLayer(state.nextLayerId)
           n == Len(state.layers) + 1
           e == AddLayer(l, n, FALSE)
<1>1. Committed(e, state, state') /\ SameStroke(state, state') /\ state'.nextLayerId = state.nextLayerId + 1
  BY DEF ToppedUp
<1>2. Implemented!Commit(PlainEdit(e))
  BY <1>1, CommitStep
<1>3. e \in InkEdit /\ e.op = "AddLayer" /\ e.layer = l /\ e.index = n /\ e.wasActive = FALSE
  BY <1>1 DEF Committed, AddLayer
<1>4. PlainLayer(l) = l
  BY DEF PlainLayer, NewLayer
<1>5. PlainEdit(e) = AddLayer(l, n, FALSE)
  BY <1>3, <1>4, PlainEditIs
<1>6. Len(Each(PlainLayer, state.layers)) = Len(state.layers)
  <2>1. state.layers \in Seq(InkLayer)
    BY StateParts DEF Types
  <2>. QED
    BY <2>1, Views, PlainLayersAre
<1>7. Implemented!AddLayer(Implemented!NewLayer(state.nextLayerId), Len(Each(PlainLayer, state.layers)) + 1, FALSE) = PlainEdit(e)
  BY <1>5, <1>6, SameConstructors
<1> HIDE DEF e
<1>. QED
  BY <1>1, <1>2, <1>7, RecordGuard, Views
     DEF SameStroke, Implemented!NewTopLayer, Implemented!strokeVars

LEMMA DropLayerStep ==
    ASSUME Types, Types', NEW c, Dropped(c, state, state'), Len(state.past) < MaxSends, Begun' = Begun
    PROVE  Implemented!DropLayer(c.id)
<1> DEFINE e == RemoveLayer(c.id)
<1>1. /\ state.active = NoStroke /\ Committed(e, state, state')
      /\ SameStroke(state, state') /\ SameIdCounter(state, state')
  BY DEF Dropped
<1>2. Implemented!Commit(PlainEdit(e)) /\ CanApply(PlainEdit(e), Each(PlainLayer, state.layers))
  BY <1>1, CommitStep
<1>3. e \in InkEdit /\ e.op = "RemoveLayer"
  BY <1>1 DEF Committed, RemoveLayer
<1>4. PlainEdit(e) = Implemented!RemoveLayer(c.id)
  BY <1>3, PlainEditIs, SameConstructors
<1>5. Plain(state.active) = NoStroke
  BY <1>1, PlainOfNone
<1> HIDE DEF e
<1>. QED
  BY <1>1, <1>2, <1>4, <1>5, RecordGuard, Views, SameConstructors, SameOperators
     DEF SameStroke, SameIdCounter, Implemented!DropLayer, Implemented!HasActiveStroke,
         Implemented!strokeVars, Implemented!ids

\* The index of a command of the panel may be beyond the layers there are by
\* then: it means the top.
LEMMA ReorderLayerStep ==
    ASSUME Types, Types', NEW c, Reordered(c, state, state'), Len(state.past) < MaxSends, Begun' = Begun
    PROVE  \E index \in 1 .. Len(Each(PlainLayer, state.layers)) + 1 : Implemented!ReorderLayer(c.id, index)
<1> DEFINE n == Len(state.layers)
           k == AtMost(c.value, n + 1)
           d == MoveLayer(c.id, c.value)
           e == MoveLayer(c.id, k)
<1>1. /\ c.value \in Nat \ {0} /\ Committed(d, state, state')
      /\ SameStroke(state, state') /\ SameIdCounter(state, state')
  BY DEF Reordered
<1>2. n \in Nat /\ state.layers \in Seq(InkLayer)
  BY StateParts, LenProperties DEF Types
<1>3. k \in 1 .. n + 1 /\ AtMost(k, n) = AtMost(c.value, n)
  <2> HIDE DEF n
  <2>. QED
    BY <1>1, <1>2 DEF AtMost
<1>4. /\ d.op = "MoveLayer" /\ d.id = c.id /\ d.index = c.value
      /\ e.op = "MoveLayer" /\ e.id = c.id /\ e.index = k
  BY DEF MoveLayer
<1>5. d \in InkEdit /\ e \in InkEdit
  <2>1. d \in InkEdit /\ c.id \in LayerId
    BY <1>1, <1>4, InkEditVariants DEF Committed
  <2> HIDE DEF k, n
  <2>2. e \in InkEdit
    BY <1>2, <1>3, <2>1 DEF MoveLayer, InkEdit
  <2>. QED
    BY <2>1, <2>2
<1>6. /\ LayersAfter(e, state.layers) = LayersAfter(d, state.layers)
      /\ ActiveLayerAfter(e, state.layers, state.activeLayer) = ActiveLayerAfter(d, state.layers, state.activeLayer)
      /\ InverseOf(e, state.layers, state.activeLayer) = InverseOf(d, state.layers, state.activeLayer)
      /\ CanApply(e, state.layers) <=> CanApply(d, state.layers)
  <2>1. \A f : f.op = "MoveLayer" =>
            /\ LayersAfter(f, state.layers) =
                   LET at == Position(state.layers, f.id)
                   IN  InsertAt(RemoveAt(state.layers, at), AtMost(f.index, n), state.layers[at])
            /\ ActiveLayerAfter(f, state.layers, state.activeLayer) = state.activeLayer
            /\ InverseOf(f, state.layers, state.activeLayer) = MoveLayer(f.id, Position(state.layers, f.id))
            /\ CanApply(f, state.layers) <=> f.id \in Ids(state.layers)
    BY DEF LayersAfter, ActiveLayerAfter, InverseOf, CanApply
  <2> HIDE DEF d, e, k, n
  <2>. QED
    BY <1>3, <1>4, <2>1
<1>7. Committed(e, state, state')
  <2> HIDE DEF d, e
  <2>. QED
    BY <1>1, <1>5, <1>6 DEF Committed
<1>8. Implemented!Commit(PlainEdit(e)) /\ CanApply(PlainEdit(e), Each(PlainLayer, state.layers))
  BY <1>7, CommitStep
<1>9. PlainEdit(e) = Implemented!MoveLayer(c.id, k)
  BY <1>4, <1>5, PlainEditIs, SameConstructors
<1>10. k \in 1 .. Len(Each(PlainLayer, state.layers)) + 1
  BY <1>2, <1>3, Views, PlainLayersAre
<1> HIDE DEF d, e, k
<1>11. Implemented!ReorderLayer(c.id, k)
  BY <1>1, <1>8, <1>9, RecordGuard, Views, SameOperators
     DEF SameStroke, SameIdCounter, Implemented!ReorderLayer, Implemented!strokeVars, Implemented!ids
<1>. QED
  BY <1>10, <1>11

LEMMA SetActiveLayerStep ==
    ASSUME Types, Types', NEW c, Chosen(c, state, state'), Begun' = Begun
    PROVE  Implemented!SetActiveLayer(c.id)
<1>1. /\ c.id \in Ids(state.layers) /\ state'.activeLayer = c.id /\ state'.layers = state.layers
      /\ SameStroke(state, state') /\ SameHistory(state, state') /\ SameIdCounter(state, state')
  BY DEF Chosen
<1>2. c.id \in Implemented!Ids(Each(PlainLayer, state.layers))
  <2>1. state.layers \in Seq(InkLayer)
    BY StateParts DEF Types
  <2>. QED
    BY <1>1, <2>1, Views, PlainLayersAre, SameConstructors
<1>. QED
  BY <1>1, <1>2, Views
     DEF SameStroke, SameHistory, SameIdCounter, Implemented!SetActiveLayer,
         Implemented!strokeVars, Implemented!history, Implemented!ids

LEMMA SetLayerPropsStep ==
    ASSUME Types, Types', NEW c, Exposed(c, state, state'), Begun' = Begun
    PROVE  \E props \in LayerProps : Implemented!SetLayerProps(c.id, props)
<1> DEFINE ls == state.layers
           p == Position(ls, c.id)
           props == [ls[p].props EXCEPT !.visible = c.value]
           l == [ls[p] EXCEPT !.props = props]
<1>1. /\ c.id \in Ids(ls) /\ p \in 1 .. Len(ls) /\ props \in LayerProps /\ l \in InkLayer
      /\ state'.layers = [ls EXCEPT ![p] = l] /\ state'.activeLayer = state.activeLayer
      /\ SameStroke(state, state') /\ SameHistory(state, state') /\ SameIdCounter(state, state')
  BY Zenon DEF Exposed
<1> HIDE DEF props
<1>2. ls \in Seq(InkLayer) /\ ls[p] \in InkLayer
  BY <1>1, StateParts, InkLayerAt DEF Types
<1>3. PlainLayer(l) = [PlainLayer(ls[p]) EXCEPT !.props = props]
  <2> DEFINE k == ls[p]
             w == Mapped(StrokeMap, k.strokes)
  <2>1. k \in InkLayer /\ l = [k EXCEPT !.props = props]
    BY <1>2
  <2> HIDE DEF k, l
  <2>2. l.strokes = k.strokes
    BY <2>1 DEF InkLayer
  <2>3. PlainLayer(l) = [l EXCEPT !.strokes = w] /\ PlainLayer(k) = [k EXCEPT !.strokes = w]
    BY <1>1, <2>1, <2>2, PlainLayerIs
  <2> HIDE DEF w
  <2>4. [[k EXCEPT !.props = props] EXCEPT !.strokes = w] = [[k EXCEPT !.strokes = w] EXCEPT !.props = props]
    BY <2>1 DEF InkLayer
  <2>. QED
    BY <2>1, <2>3, <2>4 DEF k
<1>4. PlainLayers(state'.layers) = [PlainLayers(ls) EXCEPT ![p] = PlainLayer(l)]
  <2> HIDE DEF l, p, ls
  <2>1. Into(LayerMap, InkLayer, Layer) /\ LayerMap[l] = PlainLayer(l)
    BY <1>1, LayersInto, PlainLayerIs
  <2>2. Mapped(LayerMap, [ls EXCEPT ![p] = l]) = [Mapped(LayerMap, ls) EXCEPT ![p] = LayerMap[l]]
    BY <1>1, <1>2, <2>1, MappedExcept
  <2>. QED
    BY <1>1, <2>1, <2>2 DEF PlainLayers
<1>5. /\ PlainLayers(ls)[p] = PlainLayer(ls[p]) /\ Ids(PlainLayers(ls)) = Ids(ls)
      /\ Position(PlainLayers(ls), c.id) = p
  BY <1>1, <1>2, PlainLayersAre
<1>6. PlainLayers(state'.layers) = [PlainLayers(ls) EXCEPT ![Position(PlainLayers(ls), c.id)].props = props]
  <2> HIDE DEF l, p, ls
  <2>. QED
    BY <1>3, <1>4, <1>5
<1> HIDE DEF l, p
<1>7. Implemented!SetLayerProps(c.id, props)
  BY <1>1, <1>5, <1>6, Views, SameConstructors
     DEF SameStroke, SameHistory, SameIdCounter, Implemented!SetLayerProps,
         Implemented!strokeVars, Implemented!history, Implemented!ids
<1>. QED
  BY <1>1, <1>7

LEMMA UndoStep ==
    ASSUME Types, Types', Undone(state, state'), Begun' = Begun
    PROVE  Implemented!Undo
<1> DEFINE ls == state.layers
           e == Last(state.past)
           f == PlainEdit(e)
           inv == InverseOf(e, ls, state.activeLayer)
<1>1. /\ state.active = NoStroke /\ state.past # << >> /\ e \in InkEdit /\ state'.past = Front(state.past)
      /\ IF CanApply(e, ls)
         THEN /\ state'.layers = LayersAfter(e, ls)
              /\ state'.activeLayer = ActiveLayerAfter(e, ls, state.activeLayer)
              /\ state'.future = Append(state.future, inv)
         ELSE SameDocument(state, state') /\ state'.future = state.future
      /\ SameStroke(state, state') /\ SameIdCounter(state, state')
  BY DEF Undone
<1>2. /\ ls \in Seq(InkLayer) /\ state.past \in Seq(InkEdit) /\ state.future \in Seq(InkEdit)
      /\ state.activeLayer \in LayerId
  BY StateParts DEF Types
<1>3. /\ PlainEdits(state.past) # << >> /\ Last(PlainEdits(state.past)) = f
      /\ PlainEdits(state'.past) = Front(PlainEdits(state.past))
  BY <1>1, <1>2, PlainEditsAre
<1>4. CanApply(f, PlainLayers(ls)) <=> CanApply(e, ls)
  BY <1>1, <1>2, PlainCanApply
<1>5. Plain(state.active) = NoStroke
  BY <1>1, PlainOfNone
<1>6. IF CanApply(f, PlainLayers(ls))
      THEN /\ PlainLayers(state'.layers) = LayersAfter(f, PlainLayers(ls))
           /\ state'.activeLayer = ActiveLayerAfter(f, PlainLayers(ls), state.activeLayer)
           /\ PlainEdits(state'.future) = Append(PlainEdits(state.future), InverseOf(f, PlainLayers(ls), state.activeLayer))
      ELSE /\ PlainLayers(state'.layers) = PlainLayers(ls) /\ state'.activeLayer = state.activeLayer
           /\ PlainEdits(state'.future) = PlainEdits(state.future)
  <2>1. CASE CanApply(e, ls)
    <3>1. inv \in InkEdit
      BY <1>1, <1>2, <2>1, InkEditTyped
    <3>2. PlainEdits(Append(state.future, inv)) = Append(PlainEdits(state.future), PlainEdit(inv))
      BY <1>2, <3>1, PlainEditsAre
    <3>3. /\ LayersAfter(f, PlainLayers(ls)) = PlainLayers(LayersAfter(e, ls))
          /\ ActiveLayerAfter(f, PlainLayers(ls), state.activeLayer) = ActiveLayerAfter(e, ls, state.activeLayer)
          /\ InverseOf(f, PlainLayers(ls), state.activeLayer) = PlainEdit(inv)
      BY <1>1, <1>2, <2>1, PlainAfter, PlainActiveAfter, PlainInverse
    <3> HIDE DEF e, f, inv, ls
    <3>. QED
      BY <1>1, <1>4, <2>1, <3>2, <3>3
  <2>2. CASE ~CanApply(e, ls)
    <3> HIDE DEF e, f, inv
    <3>. QED
      BY <1>1, <1>4, <2>2 DEF SameDocument
  <2>. QED
    BY <2>1, <2>2
<1> HIDE DEF e, f, inv
<1>. QED
  BY <1>1, <1>3, <1>5, <1>6, Views, SameConstructors, SameOperators
     DEF SameStroke, SameIdCounter, Implemented!Undo, Implemented!HasActiveStroke,
         Implemented!docVars, Implemented!strokeVars, Implemented!ids

LEMMA RedoStep ==
    ASSUME Types, Types', Redone(state, state'), Begun' = Begun
    PROVE  Implemented!Redo
<1> DEFINE ls == state.layers
           e == Last(state.future)
           f == PlainEdit(e)
           inv == InverseOf(e, ls, state.activeLayer)
<1>1. /\ state.active = NoStroke /\ state.future # << >> /\ e \in InkEdit /\ state'.future = Front(state.future)
      /\ IF CanApply(e, ls)
         THEN /\ state'.layers = LayersAfter(e, ls)
              /\ state'.activeLayer = ActiveLayerAfter(e, ls, state.activeLayer)
              /\ state'.past = Append(state.past, inv)
         ELSE SameDocument(state, state') /\ state'.past = state.past
      /\ SameStroke(state, state') /\ SameIdCounter(state, state')
  BY DEF Redone
<1>2. /\ ls \in Seq(InkLayer) /\ state.future \in Seq(InkEdit) /\ state.past \in Seq(InkEdit)
      /\ state.activeLayer \in LayerId
  BY StateParts DEF Types
<1>3. /\ PlainEdits(state.future) # << >> /\ Last(PlainEdits(state.future)) = f
      /\ PlainEdits(state'.future) = Front(PlainEdits(state.future))
  BY <1>1, <1>2, PlainEditsAre
<1>4. CanApply(f, PlainLayers(ls)) <=> CanApply(e, ls)
  BY <1>1, <1>2, PlainCanApply
<1>5. Plain(state.active) = NoStroke
  BY <1>1, PlainOfNone
<1>6. IF CanApply(f, PlainLayers(ls))
      THEN /\ PlainLayers(state'.layers) = LayersAfter(f, PlainLayers(ls))
           /\ state'.activeLayer = ActiveLayerAfter(f, PlainLayers(ls), state.activeLayer)
           /\ PlainEdits(state'.past) = Append(PlainEdits(state.past), InverseOf(f, PlainLayers(ls), state.activeLayer))
      ELSE /\ PlainLayers(state'.layers) = PlainLayers(ls) /\ state'.activeLayer = state.activeLayer
           /\ PlainEdits(state'.past) = PlainEdits(state.past)
  <2>1. CASE CanApply(e, ls)
    <3>1. inv \in InkEdit
      BY <1>1, <1>2, <2>1, InkEditTyped
    <3>2. PlainEdits(Append(state.past, inv)) = Append(PlainEdits(state.past), PlainEdit(inv))
      BY <1>2, <3>1, PlainEditsAre
    <3>3. /\ LayersAfter(f, PlainLayers(ls)) = PlainLayers(LayersAfter(e, ls))
          /\ ActiveLayerAfter(f, PlainLayers(ls), state.activeLayer) = ActiveLayerAfter(e, ls, state.activeLayer)
          /\ InverseOf(f, PlainLayers(ls), state.activeLayer) = PlainEdit(inv)
      BY <1>1, <1>2, <2>1, PlainAfter, PlainActiveAfter, PlainInverse
    <3> HIDE DEF e, f, inv, ls
    <3>. QED
      BY <1>1, <1>4, <2>1, <3>2, <3>3
  <2>2. CASE ~CanApply(e, ls)
    <3> HIDE DEF e, f, inv
    <3>. QED
      BY <1>1, <1>4, <2>2 DEF SameDocument
  <2>. QED
    BY <2>1, <2>2
<1> HIDE DEF e, f, inv
<1>. QED
  BY <1>1, <1>3, <1>5, <1>6, Views, SameConstructors, SameOperators
     DEF SameStroke, SameIdCounter, Implemented!Redo, Implemented!HasActiveStroke,
         Implemented!docVars, Implemented!strokeVars, Implemented!ids

(***************************************************************************)
(* The channel: how many of its entries are of a kind.                     *)
(***************************************************************************)
HowMany(S, q) == Cardinality({i \in DOMAIN q : q[i] \in S})

LEMMA HowManyTyped ==
    ASSUME NEW T, NEW q \in Seq(T), NEW S
    PROVE  /\ IsFiniteSet({i \in DOMAIN q : q[i] \in S})
           /\ HowMany(S, q) \in Nat
           /\ (\E i \in 1 .. Len(q) : q[i] \in S) => HowMany(S, q) > 0
<1> DEFINE W == {i \in DOMAIN q : q[i] \in S}
<1>1. DOMAIN q = 1 .. Len(q) /\ Len(q) \in Nat
  BY LenProperties
<1>2. IsFiniteSet(1 .. Len(q))
  BY <1>1, FS_Interval
<1>3. IsFiniteSet(W) /\ W \subseteq 1 .. Len(q)
  BY <1>1, <1>2, FS_Subset
<1>4. Cardinality(W) \in Nat
  BY <1>3, FS_CardinalityType
<1>5. W # {} => Cardinality(W) # 0
  BY <1>3, FS_EmptySet
<1>6. (\E i \in 1 .. Len(q) : q[i] \in S) => W # {}
  BY <1>1
<1> HIDE DEF W
<1>7. HowMany(S, q) = Cardinality(W)
  BY DEF HowMany, W
<1>8. HowMany(S, q) \in Nat /\ ((\E i \in 1 .. Len(q) : q[i] \in S) => HowMany(S, q) > 0)
  BY <1>4, <1>5, <1>6, <1>7
<1>. QED
  BY <1>3, <1>8 DEF W

LEMMA HowManyAppend ==
    ASSUME NEW T, NEW q \in Seq(T), NEW x \in T, NEW S
    PROVE  HowMany(S, Append(q, x)) = HowMany(S, q) + (IF x \in S THEN 1 ELSE 0)
<1> DEFINE W == {i \in DOMAIN q : q[i] \in S}
           u == Append(q, x)
           V == {i \in DOMAIN u : u[i] \in S}
           n == Len(q) + 1
<1>1. /\ DOMAIN q = 1 .. Len(q) /\ Len(q) \in Nat /\ DOMAIN u = 1 .. n
      /\ \A i \in 1 .. n : u[i] = IF i = n THEN x ELSE q[i]
  BY AppendProperties, LenProperties
<1>2. IsFiniteSet(W) /\ HowMany(S, q) = Cardinality(W) /\ HowMany(S, q) \in Nat
  BY HowManyTyped DEF HowMany
<1>3. HowMany(S, u) = Cardinality(V)
  BY DEF HowMany
<1> HIDE DEF u
<1>4. CASE x \in S
  <2>1. V = W \cup {n} /\ n \notin W
    BY <1>1, <1>4
  <2> HIDE DEF V, W, n
  <2>2. Cardinality(W \cup {n}) = Cardinality(W) + 1
    BY <1>2, <2>1, FS_AddElement
  <2>. QED
    BY <1>2, <1>3, <1>4, <2>1, <2>2 DEF u
<1>5. CASE x \notin S
  <2>1. V = W
    BY <1>1, <1>5
  <2> HIDE DEF V, W
  <2>. QED
    BY <1>2, <1>3, <1>5, <2>1 DEF u
<1>. QED
  BY <1>4, <1>5

LEMMA HowManyTail ==
    ASSUME NEW T, NEW q \in Seq(T), q # << >>, NEW S
    PROVE  HowMany(S, q) = HowMany(S, Tail(q)) + (IF Head(q) \in S THEN 1 ELSE 0)
<1> DEFINE W == {i \in DOMAIN q : q[i] \in S}
           u == Tail(q)
           V == {i \in DOMAIN u : u[i] \in S}
           n == Len(q)
           X == W \ {1}
           f == [i \in V |-> i + 1]
<1>1. /\ u \in Seq(T) /\ Len(u) = n - 1 /\ n \in Nat \ {0} /\ Head(q) = q[1]
      /\ \A i \in 1 .. n - 1 : u[i] = q[i + 1]
  BY HeadTail
<1>2. DOMAIN q = 1 .. n /\ DOMAIN u = 1 .. n - 1
  BY <1>1, LenProperties
<1>3. IsFiniteSet(W) /\ HowMany(S, q) = Cardinality(W) /\ HowMany(S, q) \in Nat
  BY HowManyTyped DEF HowMany
<1>4. IsFiniteSet(V) /\ HowMany(S, u) = Cardinality(V) /\ HowMany(S, u) \in Nat
  BY <1>1, HowManyTyped DEF HowMany
<1> HIDE DEF u, n
<1>5. V \subseteq Int /\ \A i \in V : i + 1 \in X
  BY <1>1, <1>2
<1>6. \A j \in X : j - 1 \in V /\ j = (j - 1) + 1
  BY <1>1, <1>2
<1> HIDE DEF V, W, X
<1>7. f \in [V -> X]
  BY <1>5
<1>8. /\ \A i, j \in V : f[i] = f[j] => i = j
      /\ \A j \in X : f[j - 1] = j
  BY <1>5, <1>6
<1> HIDE DEF f
<1>9. f \in Bijection(V, X)
  <2>1. f \in Injection(V, X)
    BY <1>7, <1>8 DEF Injection, IsInjective
  <2>2. f \in Surjection(V, X)
    BY <1>6, <1>7, <1>8 DEF Surjection
  <2>. QED
    BY <2>1, <2>2 DEF Bijection
<1>10. Cardinality(X) = Cardinality(V)
  BY <1>4, <1>9, FS_Bijection DEF ExistsBijection
<1>11. Cardinality(X) = IF 1 \in W THEN Cardinality(W) - 1 ELSE Cardinality(W)
  BY <1>3, FS_RemoveElement DEF X
<1>12. 1 \in W <=> Head(q) \in S
  BY <1>1, <1>2 DEF W
<1>. QED
  BY <1>3, <1>4, <1>10, <1>11, <1>12 DEF u

(***************************************************************************)
(* The ids of the strokes on their way, and the bounds of the engine.      *)
(***************************************************************************)
Entry  == Command \cup {Shutdown}
Begins == {c \in Entry : c.op = "BeginStroke"}

\* The part of the channel from its entry i.
From(q, i) == [k \in 1 .. Len(q) - i + 1 |-> q[i + k - 1]]

\* The strokes on their way have the ids after those that were begun.
Numbered ==
    \A i \in 1 .. Len(channel) :
        channel[i] \in Begins => channel[i].id = nextStrokeId - HowMany(Begins, From(channel, i))

Pending == HowMany(Command, channel)

\* Every command sent was spent on one thing, or is pending.
Budget ==
    /\ Begun \in StrokeId /\ Begun + Pending <= sends + 1
    /\ Len(state.past) + Pending <= sends
    /\ state.nextLayerId + Pending <= sends + 2
    /\ state.active # NoStroke => Len(state.active.samples) + Pending <= sends

LEMMA BeginsAre ==
    ASSUME NEW q \in Seq(Entry)
    PROVE  Cardinality({i \in DOMAIN q : q[i].op = "BeginStroke"}) = HowMany(Begins, q)
<1>1. \A i \in DOMAIN q : q[i] \in Entry
  BY LenProperties, ElementOfSeq
<1>2. {i \in DOMAIN q : q[i].op = "BeginStroke"} = {i \in DOMAIN q : q[i] \in Begins}
  BY <1>1 DEF Begins
<1>. QED
  BY <1>2, Zenon DEF HowMany

LEMMA FromIs ==
    ASSUME NEW T, NEW q \in Seq(T), NEW i \in 1 .. Len(q) + 1
    PROVE  /\ From(q, i) \in Seq(T) /\ Len(From(q, i)) = Len(q) - i + 1
           /\ \A k \in 1 .. Len(q) - i + 1 : From(q, i)[k] = q[i + k - 1]
<1> DEFINE m == Len(q) - i + 1
           f == From(q, i)
<1>1. Len(q) \in Nat /\ m \in Nat /\ \A k \in 1 .. m : i + k - 1 \in 1 .. Len(q)
  BY LenProperties
<1>2. f \in [1 .. m -> T]
  <2>1. \A k \in 1 .. m : q[i + k - 1] \in T
    BY <1>1, ElementOfSeq
  <2>. QED
    BY <2>1 DEF From
<1>3. \A k \in 1 .. m : f[k] = q[i + k - 1]
  BY DEF From
<1> HIDE DEF f, m
<1>4. f \in Seq(T) /\ Len(f) = m
  BY <1>1, <1>2
<1>. QED
  BY <1>3, <1>4 DEF f, m

LEMMA FromAppend ==
    ASSUME NEW T, NEW q \in Seq(T), NEW x \in T, NEW i \in 1 .. Len(q) + 1
    PROVE  From(Append(q, x), i) = Append(From(q, i), x)
<1> DEFINE u == Append(q, x)
           g == From(q, i)
           n == Len(q)
           m == n - i + 1
           v == Append(g, x)
<1>1. /\ u \in Seq(T) /\ Len(u) = n + 1 /\ n \in Nat
      /\ \A k \in 1 .. n + 1 : u[k] = IF k = n + 1 THEN x ELSE q[k]
  BY AppendProperties, LenProperties
<1>2. g \in Seq(T) /\ Len(g) = m /\ \A k \in 1 .. m : g[k] = q[i + k - 1]
  BY FromIs
<1>3. /\ v \in Seq(T) /\ Len(v) = m + 1
      /\ \A k \in 1 .. m + 1 : v[k] = IF k = m + 1 THEN x ELSE g[k]
  <2>1. g \in Seq(T) /\ Len(g) = m
    BY <1>2
  <2> HIDE DEF g, m
  <2>2. /\ v \in Seq(T) /\ Len(v) = Len(g) + 1
        /\ \A k \in 1 .. Len(g) + 1 : v[k] = IF k = Len(g) + 1 THEN x ELSE g[k]
    BY <2>1, AppendProperties
  <2>. QED
    BY <2>1, <2>2
<1>4. i \in 1 .. n + 1 /\ i \in 1 .. (n + 1) + 1 /\ m \in Nat
  BY <1>1
<1> HIDE DEF u, v, g
<1>5. /\ From(u, i) \in Seq(T) /\ Len(From(u, i)) = m + 1
      /\ \A k \in 1 .. m + 1 : From(u, i)[k] = u[i + k - 1]
  <2>1. i \in 1 .. Len(u) + 1 /\ Len(u) - i + 1 = m + 1
    BY <1>1, <1>4
  <2>2. /\ From(u, i) \in Seq(T) /\ Len(From(u, i)) = Len(u) - i + 1
        /\ \A k \in 1 .. Len(u) - i + 1 : From(u, i)[k] = u[i + k - 1]
    BY <1>1, <2>1, FromIs
  <2>. QED
    BY <2>1, <2>2
<1>6. ASSUME NEW k \in 1 .. m + 1 PROVE From(u, i)[k] = v[k]
  <2>1. i + k - 1 \in 1 .. n + 1 /\ (i + k - 1 = n + 1 <=> k = m + 1) /\ (k # m + 1 => k \in 1 .. m)
    BY <1>1, <1>4
  <2> HIDE DEF n, m
  <2>. QED
    BY <1>1, <1>2, <1>3, <1>5, <1>6, <2>1
<1> HIDE DEF m
<1>7. From(u, i) = v
  BY <1>3, <1>5, <1>6, SameSeq
<1>. QED
  BY <1>7 DEF u, v, g

LEMMA FromTail ==
    ASSUME NEW T, NEW q \in Seq(T), q # << >>, NEW i \in 1 .. Len(Tail(q))
    PROVE  i + 1 \in 1 .. Len(q) /\ Tail(q)[i] = q[i + 1] /\ From(Tail(q), i) = From(q, i + 1)
<1> DEFINE u == Tail(q)
           n == Len(q)
           m == n - i
<1>1. /\ u \in Seq(T) /\ Len(u) = n - 1 /\ n \in Nat \ {0}
      /\ \A k \in 1 .. n - 1 : u[k] = q[k + 1]
  BY HeadTail
<1>2. i \in 1 .. n - 1
  BY <1>1
<1> HIDE DEF u
<1>3. /\ From(u, i) \in Seq(T) /\ Len(From(u, i)) = m
      /\ \A k \in 1 .. m : From(u, i)[k] = u[i + k - 1]
  <2>1. i \in 1 .. Len(u) + 1 /\ Len(u) - i + 1 = m
    BY <1>1, <1>2
  <2>2. /\ From(u, i) \in Seq(T) /\ Len(From(u, i)) = Len(u) - i + 1
        /\ \A k \in 1 .. Len(u) - i + 1 : From(u, i)[k] = u[i + k - 1]
    BY <1>1, <2>1, FromIs
  <2>. QED
    BY <2>1, <2>2
<1>4. /\ From(q, i + 1) \in Seq(T) /\ Len(From(q, i + 1)) = m
      /\ \A k \in 1 .. m : From(q, i + 1)[k] = q[(i + 1) + k - 1]
  <2>1. i + 1 \in 1 .. Len(q) + 1 /\ Len(q) - (i + 1) + 1 = m
    BY <1>1, <1>2
  <2>2. /\ From(q, i + 1) \in Seq(T) /\ Len(From(q, i + 1)) = Len(q) - (i + 1) + 1
        /\ \A k \in 1 .. Len(q) - (i + 1) + 1 : From(q, i + 1)[k] = q[(i + 1) + k - 1]
    BY <2>1, FromIs
  <2>. QED
    BY <2>1, <2>2
<1>5. ASSUME NEW k \in 1 .. m PROVE From(u, i)[k] = From(q, i + 1)[k]
  <2>1. i + k - 1 \in 1 .. n - 1 /\ (i + k - 1) + 1 = (i + 1) + k - 1
    BY <1>1, <1>2
  <2> HIDE DEF n, m
  <2>. QED
    BY <1>1, <1>3, <1>4, <1>5, <2>1
<1> HIDE DEF m
<1>6. From(u, i) = From(q, i + 1)
  BY <1>3, <1>4, <1>5, SameSeq
<1>. QED
  BY <1>1, <1>2, <1>6 DEF u

LEMMA FromFirst == ASSUME NEW T, NEW q \in Seq(T) PROVE From(q, 1) = q
<1>1. Len(q) \in Nat
  BY LenProperties
<1>2. 1 \in 1 .. Len(q) + 1 /\ Len(q) - 1 + 1 = Len(q)
  BY <1>1
<1>3. /\ From(q, 1) \in Seq(T) /\ Len(From(q, 1)) = Len(q) - 1 + 1
      /\ \A k \in 1 .. Len(q) - 1 + 1 : From(q, 1)[k] = q[1 + k - 1]
  BY <1>2, FromIs
<1>4. /\ Len(From(q, 1)) = Len(q)
      /\ \A k \in 1 .. Len(q) : From(q, 1)[k] = q[k]
  BY <1>1, <1>2, <1>3
<1>. QED
  BY <1>3, <1>4, SameSeq

\* What a command taken changes of what the bounds are about.
LEMMA Grows ==
    ASSUME NEW s \in EngineState, NEW t \in EngineState, NEW c, Changes(c, s, t)
    PROVE  /\ Len(t.past) <= Len(s.past) + 1
           /\ t.nextLayerId <= s.nextLayerId + 1
           /\ t.active # NoStroke => \/ Len(t.active.samples) = 1
                                     \/ /\ s.active # NoStroke
                                        /\ Len(t.active.samples) <= Len(s.active.samples) + 1
<1>1. /\ Len(s.past) \in Nat /\ Len(t.past) \in Nat /\ s.past \in Seq(InkEdit)
      /\ s.nextLayerId \in Nat /\ t.nextLayerId \in Nat
  BY StateParts, LenProperties DEF LayerId
<1>2. \A e \in {s.active} : e # NoStroke => e.samples \in Seq(Sample) /\ Len(e.samples) \in Nat
  BY StateParts, LenProperties DEF InkStroke
<1>3. \A x : Len(Append(s.past, x)) = Len(s.past) + 1
  BY <1>1
<1>4. s.past # << >> => Len(Front(s.past)) = Len(s.past) - 1
  BY <1>1, LastIs
<1> DEFINE Counted == t.past = s.past /\ t.nextLayerId = s.nextLayerId
           Still == t.active = s.active
<1>5. CASE Unaffected(s, t) \/ Chosen(c, s, t) \/ Exposed(c, s, t)
  <2>1. Counted /\ Still
    BY <1>5, Zenon DEF Unaffected, Chosen, Exposed, SameStroke, SameHistory, SameIdCounter
  <2>. QED
    BY <1>1, <1>2, <2>1
<1>6. CASE Began(c, s, t)
  <2>1. Counted /\ t.active.samples = <<FreshSample(0)>>
    BY <1>6 DEF Began, SameHistory, SameIdCounter
  <2>2. Len(<<FreshSample(0)>>) = 1
    OBVIOUS
  <2>. QED
    BY <1>1, <2>1, <2>2
<1>7. CASE Sampled(s, t)
  <2>1. Counted /\ s.active \in InkStroke
    BY <1>7 DEF Sampled, SameHistory, SameIdCounter
  <2>2. s.active # NoStroke /\ s.active.samples \in Seq(Sample)
    BY <2>1 DEF InkStroke, NoStroke, StrokeId
  <2>3. t.active.samples = Append(s.active.samples, FreshSample(0))
    <3> DEFINE a == s.active
               w == Append(a.samples, FreshSample(0))
    <3>1. a \in InkStroke /\ t.active = [a EXCEPT !.samples = w]
      BY <1>7 DEF Sampled
    <3> HIDE DEF a, w
    <3>2. t.active.samples = w
      BY <3>1 DEF InkStroke
    <3>. QED
      BY <3>2 DEF a, w
  <2>4. Len(Append(s.active.samples, FreshSample(0))) = Len(s.active.samples) + 1 /\ Len(s.active.samples) \in Nat
    BY <2>2, LenProperties
  <2>. QED
    BY <1>1, <2>1, <2>2, <2>3, <2>4
<1>8. CASE Ended(s, t) \/ Cancelled(s, t)
  <2>1. t.active = NoStroke /\ t.nextLayerId = s.nextLayerId
    BY <1>8 DEF Ended, Cancelled, NoStrokeLeft, SameIdCounter
  <2>2. t.past = s.past \/ \E x : t.past = Append(s.past, x)
    BY <1>8 DEF Ended, Cancelled, Committed, SameHistory
  <2>. QED
    BY <1>1, <1>3, <2>1, <2>2
<1>9. CASE ToppedUp(s, t) \/ Dropped(c, s, t) \/ Reordered(c, s, t)
  <2>1. Still /\ t.nextLayerId \in {s.nextLayerId, s.nextLayerId + 1}
    BY <1>9 DEF ToppedUp, Dropped, Reordered, SameStroke, SameIdCounter
  <2>2. \E x : t.past = Append(s.past, x)
    BY <1>9 DEF ToppedUp, Dropped, Reordered, Committed
  <2>3. Len(t.past) = Len(s.past) + 1
    BY <1>3, <2>2
  <2>4. t.active # NoStroke => s.active # NoStroke /\ Len(t.active.samples) <= Len(s.active.samples) + 1
    BY <1>2, <2>1
  <2>5. t.nextLayerId <= s.nextLayerId + 1
    BY <1>1, <2>1
  <2>. QED
    BY <1>1, <2>3, <2>4, <2>5
<1>10. CASE Undone(s, t) \/ Redone(s, t)
  <2>1. Still /\ t.nextLayerId = s.nextLayerId
    BY <1>10 DEF Undone, Redone, SameStroke, SameIdCounter
  <2>2. \/ t.past = s.past \/ \E x : t.past = Append(s.past, x)
        \/ s.past # << >> /\ t.past = Front(s.past)
    BY <1>10 DEF Undone, Redone
  <2>3. Len(t.past) <= Len(s.past) + 1
    BY <1>1, <1>3, <1>4, <2>2
  <2>. QED
    BY <1>1, <1>2, <2>1, <2>3
<1>. QED
  BY <1>5, <1>6, <1>7, <1>8, <1>9, <1>10 DEF Changes

\* What a step does to the numbers of the channel.
LEMMA CountsNext ==
    ASSUME Types, Types'
    PROVE  /\ \A c \in Entry : channel' = Append(channel, c) =>
                 /\ Pending' = Pending + (IF c \in Command THEN 1 ELSE 0)
                 /\ Begun' = nextStrokeId' - HowMany(Begins, channel) - (IF c \in Begins THEN 1 ELSE 0)
           /\ channel # << >> /\ channel' = Tail(channel) =>
                 /\ Pending = IF Head(channel) \in Command THEN Pending' + 1 ELSE Pending'
                 /\ Begun' = nextStrokeId' - HowMany(Begins, channel) + (IF Head(channel) \in Begins THEN 1 ELSE 0)
           /\ UNCHANGED <<channel, nextStrokeId>> => Pending' = Pending /\ Begun' = Begun
           /\ Pending \in Nat /\ HowMany(Begins, channel) \in Nat
           /\ Begun = nextStrokeId - HowMany(Begins, channel)
<1>0. channel \in Seq(Entry) /\ nextStrokeId \in Nat /\ nextStrokeId' \in Nat
  BY DEF Types, Entry, StrokeId
<1>1. Pending \in Nat /\ HowMany(Begins, channel) \in Nat /\ Begun = nextStrokeId - HowMany(Begins, channel)
  BY <1>0, HowManyTyped, BeginsAre DEF Pending, Begun
<1>2. ASSUME NEW c \in Entry, channel' = Append(channel, c)
      PROVE  /\ Pending' = Pending + (IF c \in Command THEN 1 ELSE 0)
             /\ Begun' = nextStrokeId' - HowMany(Begins, channel) - (IF c \in Begins THEN 1 ELSE 0)
  <2>1. channel' \in Seq(Entry)
    BY <1>0, <1>2, AppendProperties
  <2>2. Begun' = nextStrokeId' - HowMany(Begins, channel')
    BY <2>1, BeginsAre DEF Begun
  <2>3. /\ HowMany(Command, channel') = HowMany(Command, channel) + (IF c \in Command THEN 1 ELSE 0)
        /\ HowMany(Begins, channel') = HowMany(Begins, channel) + (IF c \in Begins THEN 1 ELSE 0)
    BY <1>0, <1>2, HowManyAppend
  <2>. QED
    BY <1>0, <1>1, <2>2, <2>3 DEF Pending
<1>3. ASSUME channel # << >>, channel' = Tail(channel)
      PROVE  /\ Pending = IF Head(channel) \in Command THEN Pending' + 1 ELSE Pending'
             /\ Begun' = nextStrokeId' - HowMany(Begins, channel) + (IF Head(channel) \in Begins THEN 1 ELSE 0)
  <2>1. channel' \in Seq(Entry)
    BY <1>0, <1>3, HeadTail
  <2>2. Begun' = nextStrokeId' - HowMany(Begins, channel')
    BY <2>1, BeginsAre DEF Begun
  <2>3. /\ HowMany(Command, channel) = HowMany(Command, channel') + (IF Head(channel) \in Command THEN 1 ELSE 0)
        /\ HowMany(Begins, channel) = HowMany(Begins, channel') + (IF Head(channel) \in Begins THEN 1 ELSE 0)
    BY <1>0, <1>3, HowManyTail
  <2>4. HowMany(Begins, channel') \in Nat /\ HowMany(Command, channel') \in Nat
    BY <2>1, HowManyTyped
  <2>. QED
    BY <1>0, <1>1, <2>2, <2>3, <2>4 DEF Pending
<1>4. UNCHANGED <<channel, nextStrokeId>> => Pending' = Pending /\ Begun' = Begun
  BY DEF Pending, Begun
<1>. QED
  BY <1>1, <1>2, <1>3, <1>4

LEMMA BeginsIs ==
    /\ \A c \in Command : c \in Begins <=> c.op = "BeginStroke"
    /\ Begins \subseteq Command /\ Shutdown \notin Begins /\ Shutdown \in Entry /\ Command \subseteq Entry
BY DEF Begins, Entry, Shutdown, Do

LEMMA CountsPrimed == ASSUME Types' PROVE Pending' \in Nat
<1>1. channel' \in Seq(Entry)
  BY DEF Types, Entry
<1>. QED
  BY <1>1, HowManyTyped DEF Pending

LEMMA NumberedNext ==
    ASSUME Types, Types', Numbered,
           PostsOther \/ PostsBegin \/ Idles \/ Drops \/ Joins \/ Takes \/ Wraps
    PROVE  Numbered'
<1> DEFINE n == Len(channel)
<1>0. /\ channel \in Seq(Entry) /\ channel' \in Seq(Entry) /\ n \in Nat
      /\ nextStrokeId \in Nat /\ nextStrokeId' \in Nat
  BY LenProperties DEF Types, Entry, StrokeId
<1>1. ASSUME NEW c \in Entry, channel' = Append(channel, c),
             nextStrokeId' = nextStrokeId + (IF c \in Begins THEN 1 ELSE 0),
             c \in Begins => c.id = nextStrokeId
      PROVE  Numbered'
  <2>1. ASSUME NEW i \in 1 .. n + 1, channel'[i] \in Begins
        PROVE  channel'[i].id = nextStrokeId' - HowMany(Begins, From(channel', i))
    <3>1. From(channel', i) = Append(From(channel, i), c)
      BY <1>0, <1>1, FromAppend
    <3>2. From(channel, i) \in Seq(Entry) /\ Len(From(channel, i)) = n - i + 1
      BY <1>0, FromIs
    <3>3. /\ HowMany(Begins, From(channel', i)) = HowMany(Begins, From(channel, i)) + (IF c \in Begins THEN 1 ELSE 0)
          /\ HowMany(Begins, From(channel, i)) \in Nat
      <4> DEFINE q == From(channel, i)
      <4>1. q \in Seq(Entry)
        BY <3>2
      <4>2. From(channel', i) = Append(q, c)
        BY <3>1
      <4> HIDE DEF q
      <4>3. HowMany(Begins, Append(q, c)) = HowMany(Begins, q) + (IF c \in Begins THEN 1 ELSE 0)
        BY <1>1, <4>1, HowManyAppend
      <4>4. HowMany(Begins, q) \in Nat
        BY <4>1, HowManyTyped
      <4>. QED
        BY <4>2, <4>3, <4>4 DEF q
    <3>4. channel'[i] = IF i = n + 1 THEN c ELSE channel[i]
      BY <1>0, <1>1, AppendProperties
    <3>5. CASE i = n + 1
      <4>1. From(channel, i) = << >>
        <5>1. Len(From(channel, i)) = 0
          BY <1>0, <3>2, <3>5
        <5>. QED
          BY <3>2, <5>1, EmptySeq
      <4>2. HowMany(Begins, << >>) = 0
        <5>1. {j \in DOMAIN << >> : << >>[j] \in Begins} = {}
          OBVIOUS
        <5>. QED
          BY <5>1, FS_EmptySet DEF HowMany
      <4>3. c \in Begins /\ c.id = nextStrokeId /\ channel'[i] = c /\ nextStrokeId' = nextStrokeId + 1
        BY <1>1, <2>1, <3>4, <3>5
      <4>4. HowMany(Begins, From(channel', i)) = 1
        BY <3>3, <4>1, <4>2, <4>3
      <4>. QED
        BY <1>0, <4>3, <4>4
    <3>6. CASE i # n + 1
      <4>1. i \in 1 .. n /\ channel'[i] = channel[i]
        BY <1>0, <3>4, <3>6
      <4>2. channel[i].id = nextStrokeId - HowMany(Begins, From(channel, i))
        BY <2>1, <4>1 DEF Numbered
      <4>. QED
        BY <1>0, <1>1, <3>3, <4>1, <4>2
    <3>. QED
      BY <3>5, <3>6
  <2>2. Len(channel') = n + 1
    BY <1>0, <1>1, AppendProperties
  <2>. QED
    BY <2>1, <2>2 DEF Numbered
<1>2. CASE PostsOther
  <2>1. PICK cmd \in Command : cmd.op # "BeginStroke" /\ Posts(cmd) /\ UNCHANGED nextStrokeId
    BY <1>2 DEF PostsOther
  <2>2. cmd \in Entry /\ cmd \notin Begins /\ channel' = Append(channel, cmd) /\ nextStrokeId' = nextStrokeId + 0
    BY <1>0, <2>1, BeginsIs DEF Posts
  <2>. QED
    BY <1>1, <2>2
<1>3. CASE PostsBegin
  <2> DEFINE c == Begin(nextStrokeId, snapshot.brush)
  <2>1. c \in Command /\ Posts(c) /\ nextStrokeId' = nextStrokeId + 1 /\ c.id = nextStrokeId /\ c.op = "BeginStroke"
    BY <1>3 DEF PostsBegin, Begin, SetOn
  <2> HIDE DEF c
  <2>2. c \in Entry /\ c \in Begins /\ channel' = Append(channel, c)
    BY <2>1, BeginsIs DEF Posts
  <2>. QED
    BY <1>1, <2>1, <2>2
<1>4. CASE Drops
  <2>1. Shutdown \in Entry /\ Shutdown \notin Begins /\ channel' = Append(channel, Shutdown) /\ nextStrokeId' = nextStrokeId + 0
    BY <1>0, <1>4, BeginsIs DEF Drops
  <2>. QED
    BY <1>1, <2>1
<1>5. CASE Idles \/ Joins \/ Wraps
  BY <1>5 DEF Idles, Joins, Wraps, Numbered
<1>6. CASE Takes
  <2>1. channel # << >> /\ channel' = Tail(channel) /\ nextStrokeId' = nextStrokeId
    BY <1>6 DEF Takes
  <2>2. ASSUME NEW i \in 1 .. Len(channel'), channel'[i] \in Begins
        PROVE  channel'[i].id = nextStrokeId' - HowMany(Begins, From(channel', i))
    <3>1. i + 1 \in 1 .. Len(channel) /\ channel'[i] = channel[i + 1] /\ From(channel', i) = From(channel, i + 1)
      BY <1>0, <2>1, FromTail
    <3>2. channel[i + 1].id = nextStrokeId - HowMany(Begins, From(channel, i + 1))
      BY <2>2, <3>1 DEF Numbered
    <3>. QED
      BY <2>1, <3>1, <3>2
  <2>. QED
    BY <2>2 DEF Numbered
<1>. QED
  BY <1>2, <1>3, <1>4, <1>5, <1>6

\* What the thread takes: a stroke that begins has the next id, and all is
\* within the bounds of the engine.
LEMMA Taken ==
    ASSUME Types, Types', Numbered, Budget, Takes, Head(channel) # Shutdown
    PROVE  LET c == Head(channel)
           IN  /\ c \in Command /\ state' = ApplyCommand(c, state)
               /\ c.op = "BeginStroke" => c.id = Begun /\ Begun' = Begun + 1
               /\ c.op # "BeginStroke" => Begun' = Begun
               /\ Pending = Pending' + 1
               /\ Len(state.past) < MaxSends /\ state.nextLayerId <= MaxSends + 1 /\ Begun <= MaxSends
               /\ state.active # NoStroke => Len(state.active.samples) < MaxSends
<1> DEFINE c == Head(channel)
<1>0. /\ channel \in Seq(Entry) /\ sends \in Nat /\ sends <= MaxSends /\ MaxSends \in Nat
      /\ nextStrokeId \in Nat /\ UNCHANGED nextStrokeId
      /\ channel # << >> /\ channel' = Tail(channel) /\ state' = ApplyCommand(c, state)
  BY SendsAssumption DEF Types, Entry, Takes, StrokeId
<1>1. /\ c \in Entry /\ c = channel[1] /\ 1 \in 1 .. Len(channel)
  BY <1>0, HeadTail
<1>2. c \in Command /\ (c \in Begins <=> c.op = "BeginStroke")
  <2>1. c \in Command
    BY <1>1 DEF Entry
  <2>. QED
    BY <2>1, BeginsIs
<1>3. /\ Pending = Pending' + 1 /\ Pending \in Nat /\ HowMany(Begins, channel) \in Nat
      /\ Begun' = nextStrokeId' - HowMany(Begins, channel) + (IF c \in Begins THEN 1 ELSE 0)
      /\ Begun = nextStrokeId - HowMany(Begins, channel)
  BY <1>0, <1>2, CountsNext
<1>4. Pending > 0
  BY <1>0, <1>1, <1>2, HowManyTyped DEF Pending
<1> HIDE DEF c
<1>5. c \in Begins => c.id = Begun
  <2>1. c \in Begins => c.id = nextStrokeId - HowMany(Begins, From(channel, 1))
    BY <1>1 DEF Numbered
  <2>. QED
    BY <1>0, <1>3, <2>1, FromFirst
<1>6. state.nextLayerId \in Nat /\ Len(state.past) \in Nat
      /\ (state.active # NoStroke => Len(state.active.samples) \in Nat)
  <2>1. state \in EngineState
    BY DEF Types
  <2>. QED
    BY <2>1, StateParts, LenProperties DEF LayerId, InkStroke
<1>7. /\ Begun \in Nat /\ Begun + Pending <= sends + 1
      /\ Len(state.past) + Pending <= sends
      /\ state.nextLayerId + Pending <= sends + 2
      /\ state.active # NoStroke => Len(state.active.samples) + Pending <= sends
  BY DEF Budget, StrokeId
<1>8. /\ Len(state.past) < MaxSends /\ state.nextLayerId <= MaxSends + 1 /\ Begun <= MaxSends
      /\ state.active # NoStroke => Len(state.active.samples) < MaxSends
  <2>1. \A m \in Nat : m + Pending <= sends => m < MaxSends
    BY <1>0, <1>3, <1>4
  <2>2. \A m \in Nat : m + Pending <= sends + 2 => m <= MaxSends + 1
    BY <1>0, <1>3, <1>4
  <2>3. \A m \in Nat : m + Pending <= sends + 1 => m <= MaxSends
    BY <1>0, <1>3, <1>4
  <2>. QED
    BY <1>6, <1>7, <2>1, <2>2, <2>3, Zenon
<1>9. /\ c.op = "BeginStroke" => c.id = Begun /\ Begun' = Begun + 1
      /\ c.op # "BeginStroke" => Begun' = Begun
  BY <1>0, <1>2, <1>3, <1>5
<1>. QED
  BY <1>0, <1>2, <1>3, <1>8, <1>9 DEF c

LEMMA BudgetNext ==
    ASSUME Ready, Types', Numbered, Budget,
           PostsOther \/ PostsBegin \/ Idles \/ Drops \/ Joins \/ Takes \/ Wraps
    PROVE  Budget'
<1>0. /\ Types /\ Targeted(state) /\ channel \in Seq(Entry) /\ sends \in Nat
      /\ nextStrokeId \in Nat /\ state \in EngineState /\ state' \in EngineState
  BY DEF Ready, Types, Entry, StrokeId
<1>1. /\ state.nextLayerId \in Nat /\ Len(state.past) \in Nat
      /\ (state.active # NoStroke => Len(state.active.samples) \in Nat)
      /\ state'.nextLayerId \in Nat /\ Len(state'.past) \in Nat
      /\ (state'.active # NoStroke => Len(state'.active.samples) \in Nat)
  BY <1>0, StateParts, LenProperties DEF LayerId, InkStroke
<1>2. /\ Pending \in Nat /\ HowMany(Begins, channel) \in Nat
      /\ Begun = nextStrokeId - HowMany(Begins, channel)
  BY <1>0, CountsNext
<1>3. /\ Begun \in Nat \ {0} /\ Begun + Pending <= sends + 1
      /\ Len(state.past) + Pending <= sends
      /\ state.nextLayerId + Pending <= sends + 2
      /\ state.active # NoStroke => Len(state.active.samples) + Pending <= sends
  BY DEF Budget, StrokeId
<1>4. ASSUME Begun' = Begun, UNCHANGED state,
             \/ Pending' = Pending /\ sends' = sends
             \/ Pending' = Pending + 1 /\ sends' = sends + 1
      PROVE  Budget'
  <2> DEFINE d == sends' - sends
  <2>1. d \in Nat /\ Pending' = Pending + d /\ sends' = sends + d
    BY <1>0, <1>2, <1>4
  <2> HIDE DEF d
  <2>2. \A m \in Nat : \A k \in 0 .. 2 : m + Pending <= sends + k => m + Pending' <= sends' + k
    BY <1>0, <1>2, <2>1
  <2>3. \A m \in Nat : m + Pending <= sends => m + Pending' <= sends'
    BY <1>0, <1>2, <2>1
  <2>4. /\ Begun' \in Nat \ {0} /\ Begun' + Pending' <= sends' + 1
        /\ state.nextLayerId + Pending' <= sends' + 2
    BY <1>1, <1>3, <1>4, <2>2
  <2>5. Len(state.past) + Pending' <= sends' /\ (state.active # NoStroke => Len(state.active.samples) + Pending' <= sends')
    BY <1>1, <1>3, <2>3
  <2>. QED
    BY <1>4, <2>4, <2>5 DEF Budget, StrokeId
<1>5. CASE PostsOther
  <2>1. PICK cmd \in Command : cmd.op # "BeginStroke" /\ Posts(cmd) /\ UNCHANGED nextStrokeId
    BY <1>5 DEF PostsOther
  <2>2. cmd \in Entry /\ cmd \notin Begins
    BY <2>1, BeginsIs
  <2>3. Pending' = Pending + 1 /\ Begun' = nextStrokeId' - HowMany(Begins, channel) - 0
    BY <1>0, <2>1, <2>2, CountsNext DEF Posts
  <2>4. Begun' = Begun
    BY <1>0, <1>2, <2>1, <2>3
  <2>. QED
    BY <1>4, <2>1, <2>3, <2>4 DEF Posts
<1>6. CASE PostsBegin
  <2> DEFINE c == Begin(nextStrokeId, snapshot.brush)
  <2>1. c \in Command /\ Posts(c) /\ nextStrokeId' = nextStrokeId + 1 /\ c.op = "BeginStroke"
    BY <1>6 DEF PostsBegin, Begin, SetOn
  <2> HIDE DEF c
  <2>2. c \in Entry /\ c \in Begins
    BY <2>1, BeginsIs
  <2>3. Pending' = Pending + 1 /\ Begun' = nextStrokeId' - HowMany(Begins, channel) - 1
    BY <1>0, <2>1, <2>2, CountsNext DEF Posts
  <2>4. Begun' = Begun
    BY <1>0, <1>2, <2>1, <2>3
  <2>. QED
    BY <1>4, <2>1, <2>3, <2>4 DEF Posts
<1>7. CASE Drops
  <2>1. Shutdown \in Entry /\ Shutdown \notin Begins /\ Shutdown \notin Command
    BY BeginsIs, ShutdownIsNone
  <2>2. Pending' = Pending + 0 /\ Begun' = nextStrokeId' - HowMany(Begins, channel) - 0
    BY <1>0, <1>7, <2>1, CountsNext DEF Drops
  <2>3. Begun' = Begun /\ Pending' = Pending
    BY <1>0, <1>2, <1>7, <2>2 DEF Drops
  <2>. QED
    <3>1. UNCHANGED state /\ Pending' = Pending /\ sends' = sends
      BY <1>7, <2>3 DEF Drops
    <3>. QED
      BY <1>4, <2>3, <3>1, Zenon
<1>8. CASE Idles \/ Joins \/ Wraps
  <2>1. Pending' = Pending /\ Begun' = Begun
    BY <1>0, <1>8, CountsNext DEF Idles, Joins, Wraps
  <2>. QED
    <3>1. UNCHANGED state /\ Pending' = Pending /\ sends' = sends
      BY <1>8, <2>1 DEF Idles, Joins, Wraps
    <3>. QED
      BY <1>4, <2>1, <3>1, Zenon
<1>9. CASE Takes /\ Head(channel) = Shutdown
  <2>1. Shutdown \notin Begins /\ Shutdown \notin Command
    BY BeginsIs, ShutdownIsNone
  <2>2. channel # << >> /\ channel' = Tail(channel) /\ UNCHANGED <<state, sends, nextStrokeId>>
    BY <1>9 DEF Takes
  <2>3. Pending = Pending' /\ Begun' = nextStrokeId' - HowMany(Begins, channel) + 0
    BY <1>0, <1>9, <2>1, <2>2, CountsNext
  <2>4. Pending' = Pending
    BY <2>3
  <2>5. Begun' = Begun
    BY <1>0, <1>2, <2>2, <2>3
  <2>6. Pending' = Pending /\ sends' = sends
    BY <2>2, <2>4
  <2>. QED
    <3>1. UNCHANGED state
      BY <2>2
    <3>. QED
      BY <1>4, <2>5, <2>6, <3>1, Zenon
<1>10. CASE Takes /\ Head(channel) # Shutdown
  <2> DEFINE c == Head(channel)
  <2>1. /\ c \in Command /\ state' = ApplyCommand(c, state)
        /\ Begun' \in {Begun, Begun + 1} /\ Pending = Pending' + 1
    BY <1>0, <1>10, Taken
  <2>2. Changes(c, state, state') /\ sends' = sends
    BY <1>0, <1>10, <2>1, ApplyIs DEF Takes
  <2> HIDE DEF c
  <2>3. /\ Len(state'.past) <= Len(state.past) + 1
        /\ state'.nextLayerId <= state.nextLayerId + 1
        /\ state'.active # NoStroke => \/ Len(state'.active.samples) = 1
                                       \/ /\ state.active # NoStroke
                                          /\ Len(state'.active.samples) <= Len(state.active.samples) + 1
    BY <1>0, <2>2, Grows
  <2>4. Pending' \in Nat
    BY CountsPrimed
  <2> DEFINE b == Pending'
  <2>0. Pending = b + 1 /\ b \in Nat /\ sends' = sends
    BY <2>1, <2>2, <2>4
  <2> HIDE DEF b
  <2>5. \A m \in Nat : \A k \in Nat : \A j \in 0 .. 2 :
            m + Pending <= sends + j /\ k <= m + 1 => k + b <= sends + j
    BY <1>0, <2>0
  <2>6. \A m \in Nat : \A k \in Nat : m + Pending <= sends /\ k <= m + 1 => k + b <= sends
    BY <1>0, <2>0
  <2>7. Begun' \in Nat \ {0} /\ Begun' + b <= sends + 1
    BY <1>3, <2>1, <2>5
  <2>8. Len(state'.past) + b <= sends /\ state'.nextLayerId + b <= sends + 2
    BY <1>1, <1>3, <2>3, <2>5, <2>6
  <2>9. ASSUME state'.active # NoStroke PROVE Len(state'.active.samples) + b <= sends
    <3>1. CASE Len(state'.active.samples) = 1
      <4>1. 0 + Pending <= sends
        BY <1>0, <1>1, <1>2, <1>3
      <4>. QED
        BY <1>1, <2>6, <3>1, <4>1
    <3>2. CASE /\ state.active # NoStroke
               /\ Len(state'.active.samples) <= Len(state.active.samples) + 1
      BY <1>1, <1>3, <2>6, <2>9, <3>2
    <3>. QED
      BY <2>3, <2>9, <3>1, <3>2
  <2>. QED
    BY <2>0, <2>7, <2>8, <2>9 DEF b, Budget, StrokeId
<1>. QED
  BY <1>5, <1>6, <1>7, <1>8, <1>9, <1>10

(***************************************************************************)
(* Where strokes are, and what an edit does to them.                       *)
(***************************************************************************)
StrokesOn(l) == ToSet(l.strokes)

LEMMA StrokesOfLayers ==
    ASSUME NEW ls \in Seq(InkLayer)
    PROVE  /\ \A x : x \in StrokesOf(ls) <=> \E p \in 1 .. Len(ls) : x \in StrokesOn(ls[p])
           /\ \A p \in 1 .. Len(ls) : StrokesOn(ls[p]) \subseteq StrokesOf(ls)
           /\ StrokesOf(ls) \subseteq InkStroke
<1>1. DOMAIN ls = 1 .. Len(ls)
  BY LenProperties
<1>2. \A x : x \in StrokesOf(ls) <=> \E p \in 1 .. Len(ls) : x \in StrokesOn(ls[p])
  BY <1>1 DEF StrokesOf, StrokesOn, ToSet
<1>3. ASSUME NEW p \in 1 .. Len(ls) PROVE StrokesOn(ls[p]) \subseteq InkStroke
  <2>1. ls[p].strokes \in Seq(InkStroke)
    BY InkLayerAt
  <2>. QED
    BY <2>1, LenProperties, ElementOfSeq DEF StrokesOn, ToSet
<1>. QED
  BY <1>2, <1>3

LEMMA StrokesOfOne == ASSUME NEW l \in InkLayer PROVE StrokesOf(<<l>>) = StrokesOn(l)
<1> DEFINE q == <<l>>
<1>1. q \in Seq(InkLayer) /\ Len(q) = 1 /\ q[1] = l
  OBVIOUS
<1> HIDE DEF q
<1>2. \A x : x \in StrokesOf(q) <=> \E p \in 1 .. Len(q) : x \in StrokesOn(q[p])
  BY <1>1, StrokesOfLayers
<1>3. 1 .. Len(q) = {1}
  BY <1>1
<1>4. \A x : x \in StrokesOf(q) <=> x \in StrokesOn(l)
  BY <1>1, <1>2, <1>3
<1>5. StrokesOf(q) = StrokesOn(l)
  <2> DEFINE a == StrokesOf(q)
             b == StrokesOn(l)
  <2>1. \A x : x \in a <=> x \in b
    BY <1>4
  <2>2. a = UNION {{q[p].strokes[i] : i \in DOMAIN q[p].strokes} : p \in DOMAIN q}
    BY DEF StrokesOf
  <2>3. b = {l.strokes[i] : i \in DOMAIN l.strokes}
    BY DEF StrokesOn, ToSet
  <2>4. a \subseteq b /\ b \subseteq a
    BY <2>1
  <2> HIDE DEF a, b
  <2>5. a = b
    BY <2>2, <2>3, <2>4
  <2>. QED
    BY <2>5 DEF a, b
<1>. QED
  BY <1>5 DEF q

LEMMA StrokesInserted ==
    ASSUME NEW ls \in Seq(InkLayer), NEW l \in InkLayer, NEW i \in 1 .. Len(ls) + 1
    PROVE  StrokesOf(InsertAt(ls, i, l)) \subseteq StrokesOf(ls) \cup StrokesOn(l)
<1> DEFINE u == InsertAt(ls, i, l)
<1>1. /\ u \in Seq(InkLayer) /\ Len(u) = Len(ls) + 1 /\ Len(ls) \in Nat
      /\ \A k \in 1 .. Len(ls) + 1 : u[k] = IF k < i THEN ls[k] ELSE IF k = i THEN l ELSE ls[k - 1]
  BY InsertAtProperties, LenProperties
<1> HIDE DEF u
<1>2. ASSUME NEW k \in 1 .. Len(u) PROVE StrokesOn(u[k]) \subseteq StrokesOf(ls) \cup StrokesOn(l)
  <2>1. u[k] = l \/ \E p \in 1 .. Len(ls) : u[k] = ls[p]
    BY <1>1
  <2>. QED
    BY <2>1, StrokesOfLayers
<1>3. StrokesOf(u) \subseteq StrokesOf(ls) \cup StrokesOn(l)
  BY <1>1, <1>2, StrokesOfLayers
<1>. QED
  BY <1>3 DEF u

LEMMA StrokesRemoved ==
    ASSUME NEW ls \in Seq(InkLayer), NEW i \in 1 .. Len(ls)
    PROVE  StrokesOf(RemoveAt(ls, i)) \subseteq StrokesOf(ls)
<1> DEFINE u == RemoveAt(ls, i)
<1>1. /\ u \in Seq(InkLayer) /\ Len(u) = Len(ls) - 1 /\ Len(ls) \in Nat
      /\ \A k \in 1 .. Len(ls) - 1 : u[k] = IF k < i THEN ls[k] ELSE ls[k + 1]
  BY RemoveAtProperties, LenProperties
<1> HIDE DEF u
<1>2. ASSUME NEW k \in 1 .. Len(u) PROVE StrokesOn(u[k]) \subseteq StrokesOf(ls)
  <2>1. \E p \in 1 .. Len(ls) : u[k] = ls[p]
    BY <1>1
  <2>. QED
    BY <2>1, StrokesOfLayers
<1>3. StrokesOf(u) \subseteq StrokesOf(ls)
  BY <1>1, <1>2, StrokesOfLayers
<1>. QED
  BY <1>3 DEF u

LEMMA StrokesChanged ==
    ASSUME NEW ls \in Seq(InkLayer), NEW l \in InkLayer, NEW p \in 1 .. Len(ls)
    PROVE  StrokesOf([ls EXCEPT ![p] = l]) \subseteq StrokesOf(ls) \cup StrokesOn(l)
<1> DEFINE u == [ls EXCEPT ![p] = l]
<1>1. /\ u \in Seq(InkLayer) /\ Len(u) = Len(ls)
      /\ \A k \in 1 .. Len(ls) : u[k] = IF k = p THEN l ELSE ls[k]
  BY ExceptSeq
<1> HIDE DEF u
<1>2. ASSUME NEW k \in 1 .. Len(u) PROVE StrokesOn(u[k]) \subseteq StrokesOf(ls) \cup StrokesOn(l)
  <2>1. u[k] = l \/ \E j \in 1 .. Len(ls) : u[k] = ls[j]
    BY <1>1
  <2>. QED
    BY <2>1, StrokesOfLayers
<1>3. StrokesOf(u) \subseteq StrokesOf(ls) \cup StrokesOn(l)
  BY <1>1, <1>2, StrokesOfLayers
<1>. QED
  BY <1>3 DEF u

LEMMA StrokesReplacedOn ==
    ASSUME NEW ls \in Seq(InkLayer), NEW p \in 1 .. Len(ls), NEW ss \in Seq(InkStroke)
    PROVE  StrokesOf(WithStrokes(ls, p, ss)) \subseteq StrokesOf(ls) \cup ToSet(ss)
<1> DEFINE l == [ls[p] EXCEPT !.strokes = ss]
<1>1. l \in InkLayer /\ WithStrokes(ls, p, ss) = [ls EXCEPT ![p] = l]
  BY InkStrokesReplaced
<1>2. ls[p] \in InkLayer /\ l.strokes = ss
  BY InkLayerAt DEF InkLayer
<1> HIDE DEF l
<1>3. StrokesOn(l) = ToSet(ss)
  BY <1>2 DEF StrokesOn
<1>. QED
  BY <1>1, <1>3, StrokesChanged

\* An edit and its inverse put nothing on a layer but what was there or what
\* the edit carries.
LEMMA StrokesEdited ==
    ASSUME NEW ls \in Seq(InkLayer), NEW e \in InkEdit, CanApply(e, ls), NEW a \in LayerId
    PROVE  /\ StrokesOf(LayersAfter(e, ls)) \subseteq StrokesOf(ls) \cup StrokesIn(e)
           /\ StrokesIn(InverseOf(e, ls, a)) \subseteq StrokesOf(ls) \cup StrokesIn(e)
<1>1. CASE e.op = "AddStroke"
  <2> DEFINE p == Position(ls, e.layer)
             ss == Append(ls[p].strokes, e.stroke)
  <2>1. /\ p \in 1 .. Len(ls) /\ ls[p].strokes \in Seq(InkStroke) /\ e.stroke \in InkStroke
        /\ ss \in Seq(InkStroke) /\ LayersAfter(e, ls) = WithStrokes(ls, p, ss)
    BY <1>1, InkAddStroke
  <2>2. ToSet(ss) \subseteq StrokesOf(ls) \cup {e.stroke}
    <3> DEFINE d == ls[p].strokes
    <3>1. d \in Seq(InkStroke) /\ ToSet(d) \subseteq StrokesOf(ls)
      BY <2>1, StrokesOfLayers DEF StrokesOn
    <3> HIDE DEF d
    <3>2. /\ Len(Append(d, e.stroke)) = Len(d) + 1 /\ Len(d) \in Nat
          /\ \A i \in 1 .. Len(d) + 1 : Append(d, e.stroke)[i] = IF i = Len(d) + 1 THEN e.stroke ELSE d[i]
          /\ DOMAIN Append(d, e.stroke) = 1 .. Len(d) + 1 /\ DOMAIN d = 1 .. Len(d)
      BY <2>1, <3>1, AppendProperties, LenProperties
    <3>3. ToSet(Append(d, e.stroke)) \subseteq ToSet(d) \cup {e.stroke}
      BY <3>2 DEF ToSet
    <3>. QED
      BY <3>1, <3>3 DEF d
  <2> HIDE DEF ss, p
  <2>3. StrokesIn(e) = {e.stroke}
    BY <1>1 DEF StrokesIn
  <2>4. StrokesIn(InverseOf(e, ls, a)) = {}
    BY <1>1 DEF StrokesIn, InverseOf, RemoveStroke
  <2>. QED
    BY <2>1, <2>2, <2>3, <2>4, StrokesReplacedOn
<1>2. CASE e.op = "RemoveStroke"
  <2> DEFINE p == Position(ls, e.layer)
             d == ls[p].strokes
             i == Position(d, e.id)
             ss == RemoveAt(d, i)
  <2>1. /\ p \in 1 .. Len(ls) /\ d \in Seq(InkStroke) /\ i \in 1 .. Len(d) /\ d[i] \in InkStroke
        /\ ss \in Seq(InkStroke) /\ LayersAfter(e, ls) = WithStrokes(ls, p, ss)
    BY <1>2, InkRemoveStroke
  <2>2. ToSet(d) \subseteq StrokesOf(ls)
    BY <2>1, StrokesOfLayers DEF StrokesOn
  <2>3. InverseOf(e, ls, a) = AddStroke(d[i], e.layer)
    BY <1>2 DEF InverseOf
  <2> HIDE DEF i, d, p
  <2>4. ToSet(ss) \subseteq ToSet(d) /\ d[i] \in ToSet(d)
    <3>1. /\ Len(ss) = Len(d) - 1 /\ Len(d) \in Nat
          /\ \A k \in 1 .. Len(d) - 1 : ss[k] = IF k < i THEN d[k] ELSE d[k + 1]
          /\ DOMAIN ss = 1 .. Len(ss) /\ DOMAIN d = 1 .. Len(d)
      BY <2>1, RemoveAtProperties, LenProperties
    <3> HIDE DEF ss
    <3>. QED
      BY <2>1, <3>1 DEF ToSet
  <2>5. StrokesIn(InverseOf(e, ls, a)) = {d[i]}
    BY <2>3 DEF StrokesIn, AddStroke
  <2> HIDE DEF ss
  <2>. QED
    BY <2>1, <2>2, <2>4, <2>5, StrokesReplacedOn
<1>3. CASE e.op = "AddLayer"
  <2> DEFINE i == AtMost(e.index, Len(ls) + 1)
  <2>1. i \in 1 .. Len(ls) + 1 /\ e.layer \in InkLayer /\ LayersAfter(e, ls) = InsertAt(ls, i, e.layer)
    BY <1>3, InkAddLayer
  <2> HIDE DEF i
  <2>2. StrokesIn(e) = StrokesOn(e.layer)
    BY <1>3, <2>1, StrokesOfOne DEF StrokesIn
  <2>3. StrokesIn(InverseOf(e, ls, a)) = {}
    BY <1>3 DEF StrokesIn, InverseOf, RemoveLayer
  <2>. QED
    BY <2>1, <2>2, <2>3, StrokesInserted
<1>4. CASE e.op = "RemoveLayer"
  <2> DEFINE p == Position(ls, e.id)
  <2>1. p \in 1 .. Len(ls) /\ ls[p] \in InkLayer /\ LayersAfter(e, ls) = RemoveAt(ls, p)
    BY <1>4, InkRemoveLayer
  <2>2. InverseOf(e, ls, a) = AddLayer(ls[p], p, e.id = a)
    BY <1>4 DEF InverseOf
  <2> HIDE DEF p
  <2>3. StrokesIn(InverseOf(e, ls, a)) = StrokesOn(ls[p])
    BY <2>1, <2>2, StrokesOfOne DEF StrokesIn, AddLayer
  <2>. QED
    BY <2>1, <2>3, StrokesRemoved, StrokesOfLayers
<1>5. CASE e.op = "MoveLayer"
  <2> DEFINE p == Position(ls, e.id)
             rest == RemoveAt(ls, p)
             i == AtMost(e.index, Len(ls))
  <2>1. /\ p \in 1 .. Len(ls) /\ ls[p] \in InkLayer /\ rest \in Seq(InkLayer) /\ i \in 1 .. Len(rest) + 1
        /\ LayersAfter(e, ls) = InsertAt(rest, i, ls[p])
    BY <1>5, InkMoveLayer
  <2> HIDE DEF p, i
  <2>2. StrokesOf(rest) \subseteq StrokesOf(ls) /\ StrokesOn(ls[p]) \subseteq StrokesOf(ls)
    BY <2>1, StrokesRemoved, StrokesOfLayers
  <2> HIDE DEF rest
  <2>3. StrokesOf(InsertAt(rest, i, ls[p])) \subseteq StrokesOf(rest) \cup StrokesOn(ls[p])
    BY <2>1, StrokesInserted
  <2>4. StrokesIn(InverseOf(e, ls, a)) = {}
    BY <1>5 DEF StrokesIn, InverseOf, MoveLayer
  <2>. QED
    BY <2>1, <2>2, <2>3, <2>4
<1>. QED
  BY <1>1, <1>2, <1>3, <1>4, <1>5, InkEditVariants

(***************************************************************************)
(* The brush of a stroke. A mark is the id of a stroke with its brush.     *)
(***************************************************************************)
Kept(es)  == UNION {StrokesIn(es[i]) : i \in DOMAIN es}
Held(s)   == ({s.active} \ {NoStroke}) \cup StrokesOf(s.layers) \cup Kept(s.past) \cup Kept(s.future)
Marks(ss) == {<<x.id, x.brush>> : x \in ss}
Mark(c)   == <<c.id, c.value>>
Sent(q)   == {Mark(c) : c \in {q[i] : i \in {j \in DOMAIN q : q[j].op = "BeginStroke"}}}

MarkOf(snap) == Marks(StrokesOf(snap.scene.layers))

LEMMA MarksJoin == \A A, B, C : Marks(A \cup B \cup C) = Marks(A) \cup Marks(B) \cup Marks(C)
BY DEF Marks

LEMMA StampsAre ==
    /\ Stamps = Marks(Held(state)) \cup MarkOf(snapshot) \cup MarkOf(shown) \cup Sent(channel)
    /\ Stamps' = Marks(Held(state')) \cup MarkOf(snapshot') \cup MarkOf(shown') \cup Sent(channel')
<1> DEFINE all(s, p, q) == Held(s) \cup StrokesOf(p.scene.layers) \cup StrokesOf(q.scene.layers)
<1>1. \A s, p, q : Marks(all(s, p, q)) = Marks(Held(s)) \cup MarkOf(p) \cup MarkOf(q)
  BY MarksJoin DEF MarkOf
<1>2. Stamps = Marks(all(state, snapshot, shown)) \cup Sent(channel)
  BY DEF Stamps, Marks, Held, Kept, Sent, Mark
<1>3. Stamps' = Marks(all(state', snapshot', shown')) \cup Sent(channel')
  BY DEF Stamps, Marks, Held, Kept, Sent, Mark
<1> HIDE DEF all
<1>. QED
  BY <1>1, <1>2, <1>3

LEMMA MarksGrow == \A A, B : A \subseteq B => Marks(A) \subseteq Marks(B)
BY DEF Marks

LEMMA OneMoreMark == \A A, B, x : A \subseteq B \cup {x} => Marks(A) \subseteq Marks(B) \cup {<<x.id, x.brush>>}
BY DEF Marks

LEMMA KeptAppend ==
    ASSUME NEW es \in Seq(InkEdit), NEW e \in InkEdit
    PROVE  Kept(Append(es, e)) \subseteq Kept(es) \cup StrokesIn(e)
<1> DEFINE u == Append(es, e)
<1>1. /\ DOMAIN u = 1 .. Len(es) + 1 /\ DOMAIN es = 1 .. Len(es) /\ Len(es) \in Nat
      /\ \A i \in 1 .. Len(es) + 1 : u[i] = IF i = Len(es) + 1 THEN e ELSE es[i]
  BY AppendProperties, LenProperties
<1> HIDE DEF u
<1>2. ASSUME NEW i \in DOMAIN u PROVE StrokesIn(u[i]) \subseteq Kept(es) \cup StrokesIn(e)
  <2>1. u[i] = e \/ \E j \in DOMAIN es : u[i] = es[j]
    BY <1>1
  <2>2. \A j \in DOMAIN es : StrokesIn(es[j]) \subseteq Kept(es)
    BY DEF Kept
  <2>. QED
    BY <2>1, <2>2
<1>3. Kept(u) \subseteq Kept(es) \cup StrokesIn(e)
  BY <1>2 DEF Kept
<1>. QED
  BY <1>3 DEF u

LEMMA KeptFront ==
    ASSUME NEW es \in Seq(InkEdit), es # << >>
    PROVE  Kept(Front(es)) \subseteq Kept(es) /\ StrokesIn(Last(es)) \subseteq Kept(es)
<1> DEFINE u == Front(es)
<1>1. /\ Len(es) \in Nat \ {0} /\ Last(es) = es[Len(es)] /\ u \in Seq(InkEdit) /\ Len(u) = Len(es) - 1
      /\ \A i \in 1 .. Len(es) - 1 : u[i] = es[i]
  BY LastIs
<1>2. DOMAIN es = 1 .. Len(es) /\ DOMAIN u = 1 .. Len(u)
  BY <1>1, LenProperties
<1> HIDE DEF u
<1>3. \A i \in DOMAIN es : StrokesIn(es[i]) \subseteq Kept(es)
  BY DEF Kept
<1>4. ASSUME NEW i \in DOMAIN u PROVE StrokesIn(u[i]) \subseteq Kept(es)
  <2>1. i \in DOMAIN es /\ u[i] = es[i]
    BY <1>1, <1>2
  <2>. QED
    BY <1>3, <2>1
<1>5. Kept(u) \subseteq Kept(es)
  BY <1>4 DEF Kept
<1>6. StrokesIn(Last(es)) \subseteq Kept(es)
  BY <1>1, <1>2, <1>3
<1>. QED
  BY <1>5, <1>6 DEF u

LEMMA KeptNone == Kept(<< >>) = {}
BY DEF Kept

\* What the committed edit carries stays, and so does what its inverse does.
LEMMA HeldCommitted ==
    ASSUME NEW s \in EngineState, NEW t \in EngineState, NEW e, Committed(e, s, t),
           StrokesIn(e) \subseteq Held(s), t.active = NoStroke \/ t.active = s.active
    PROVE  Held(t) \subseteq Held(s)
<1> DEFINE f == InverseOf(e, s.layers, s.activeLayer)
<1>0. /\ s.layers \in Seq(InkLayer) /\ s.activeLayer \in LayerId /\ s.past \in Seq(InkEdit)
      /\ e \in InkEdit /\ CanApply(e, s.layers)
      /\ t.layers = LayersAfter(e, s.layers) /\ t.past = Append(s.past, f) /\ t.future = << >>
  BY StateParts DEF Committed
<1>1. f \in InkEdit
  BY <1>0, InkEditTyped
<1>2. /\ StrokesOf(t.layers) \subseteq StrokesOf(s.layers) \cup StrokesIn(e)
      /\ StrokesIn(f) \subseteq StrokesOf(s.layers) \cup StrokesIn(e)
  BY <1>0, StrokesEdited
<1> HIDE DEF f
<1>3. Kept(t.past) \subseteq Kept(s.past) \cup StrokesIn(f)
  BY <1>0, <1>1, KeptAppend
<1>4. Kept(t.future) = {}
  BY <1>0, KeptNone
<1>5. ({t.active} \ {NoStroke}) \subseteq ({s.active} \ {NoStroke})
  OBVIOUS
<1>. QED
  BY <1>2, <1>3, <1>4, <1>5 DEF Held

LEMMA HeldSame ==
    ASSUME NEW s, NEW t, t.layers = s.layers, SameHistory(s, t),
           t.active = NoStroke \/ t.active = s.active
    PROVE  Held(t) \subseteq Held(s)
BY DEF Held, SameHistory

\* Undo and redo move what an entry carries between the stacks and the layers.
LEMMA HeldPopped ==
    ASSUME NEW s \in EngineState, NEW t \in EngineState, Undone(s, t) \/ Redone(s, t)
    PROVE  Held(t) \subseteq Held(s)
<1> DEFINE MovesFrom(from, to, toAfter, e) ==
               /\ from # << >> /\ e = Last(from) /\ e \in InkEdit
               /\ \/ /\ CanApply(e, s.layers) /\ t.layers = LayersAfter(e, s.layers)
                     /\ toAfter = Append(to, InverseOf(e, s.layers, s.activeLayer))
                  \/ t.layers = s.layers /\ toAfter = to
<1>0. /\ s.layers \in Seq(InkLayer) /\ s.activeLayer \in LayerId
      /\ s.past \in Seq(InkEdit) /\ s.future \in Seq(InkEdit)
  BY StateParts
<1>1. ASSUME NEW from \in Seq(InkEdit), NEW to \in Seq(InkEdit), NEW toAfter, NEW e, MovesFrom(from, to, toAfter, e)
      PROVE  LET all == StrokesOf(s.layers) \cup Kept(from) \cup Kept(to)
             IN  StrokesOf(t.layers) \subseteq all /\ Kept(Front(from)) \subseteq all /\ Kept(toAfter) \subseteq all
  <2>1. Kept(Front(from)) \subseteq Kept(from) /\ StrokesIn(e) \subseteq Kept(from)
    BY <1>1, KeptFront
  <2>2. CASE t.layers = s.layers /\ toAfter = to
    BY <2>1, <2>2
  <2>3. CASE /\ CanApply(e, s.layers) /\ t.layers = LayersAfter(e, s.layers)
             /\ toAfter = Append(to, InverseOf(e, s.layers, s.activeLayer))
    <3> DEFINE f == InverseOf(e, s.layers, s.activeLayer)
    <3>1. /\ f \in InkEdit
          /\ StrokesOf(t.layers) \subseteq StrokesOf(s.layers) \cup StrokesIn(e)
          /\ StrokesIn(f) \subseteq StrokesOf(s.layers) \cup StrokesIn(e)
      BY <1>0, <1>1, <2>3, InkEditTyped, StrokesEdited
    <3>2. toAfter = Append(to, f)
      BY <2>3
    <3> HIDE DEF f
    <3>3. Kept(toAfter) \subseteq Kept(to) \cup StrokesIn(f)
      BY <3>1, <3>2, KeptAppend
    <3>. QED
      BY <2>1, <3>1, <3>3
  <2>. QED
    BY <1>1, <2>2, <2>3
<1>2. t.active = s.active
  BY DEF Undone, Redone, SameStroke
<1>3. CASE Undone(s, t)
  <2>1. t.past = Front(s.past) /\ MovesFrom(s.past, s.future, t.future, Last(s.past))
    BY <1>3 DEF Undone, SameDocument
  <2> HIDE DEF MovesFrom
  <2>2. LET all == StrokesOf(s.layers) \cup Kept(s.past) \cup Kept(s.future)
        IN  StrokesOf(t.layers) \subseteq all /\ Kept(t.past) \subseteq all /\ Kept(t.future) \subseteq all
    BY <1>0, <1>1, <2>1
  <2>. QED
    BY <1>2, <2>2 DEF Held
<1>4. CASE Redone(s, t)
  <2>1. t.future = Front(s.future) /\ MovesFrom(s.future, s.past, t.past, Last(s.future))
    BY <1>4 DEF Redone, SameDocument
  <2> HIDE DEF MovesFrom
  <2>2. LET all == StrokesOf(s.layers) \cup Kept(s.future) \cup Kept(s.past)
        IN  StrokesOf(t.layers) \subseteq all /\ Kept(t.future) \subseteq all /\ Kept(t.past) \subseteq all
    BY <1>0, <1>1, <2>1
  <2>. QED
    BY <1>2, <2>2 DEF Held
<1>. QED
  BY <1>3, <1>4

LEMMA HeldExposed ==
    ASSUME NEW s \in EngineState, NEW t \in EngineState, NEW c, Exposed(c, s, t)
    PROVE  Held(t) \subseteq Held(s)
<1> DEFINE p == Position(s.layers, c.id)
           l == [s.layers[p] EXCEPT !.props = [s.layers[p].props EXCEPT !.visible = c.value]]
<1>1. /\ p \in 1 .. Len(s.layers) /\ l \in InkLayer /\ t.layers = [s.layers EXCEPT ![p] = l]
      /\ SameStroke(s, t) /\ SameHistory(s, t) /\ s.layers \in Seq(InkLayer)
  BY StateParts DEF Exposed
<1>2. s.layers[p] \in InkLayer
  BY <1>1, InkLayerAt
<1>3. l.strokes = s.layers[p].strokes
  BY <1>2 DEF InkLayer
<1> HIDE DEF l, p
<1>4. StrokesOn(l) \subseteq StrokesOf(s.layers)
  BY <1>1, <1>3, StrokesOfLayers DEF StrokesOn
<1>5. StrokesOf(t.layers) \subseteq StrokesOf(s.layers)
  BY <1>1, <1>4, StrokesChanged
<1>. QED
  BY <1>1, <1>5 DEF Held, SameStroke, SameHistory

\* No command but BeginStroke brings a mark that is not held already.
LEMMA HeldChanges ==
    ASSUME NEW s \in EngineState, NEW t \in EngineState, NEW c, Changes(c, s, t)
    PROVE  \/ Marks(Held(t)) \subseteq Marks(Held(s))
           \/ c.op = "BeginStroke" /\ Marks(Held(t)) \subseteq Marks(Held(s)) \cup {Mark(c)}
<1>0. /\ s.layers \in Seq(InkLayer) /\ s.activeLayer \in LayerId /\ s.nextLayerId \in LayerId
  BY StateParts
<1>1. CASE Unaffected(s, t) \/ Cancelled(s, t) \/ Chosen(c, s, t)
  <2>1. /\ t.layers = s.layers /\ SameHistory(s, t)
        /\ t.active = NoStroke \/ t.active = s.active
    BY <1>1 DEF Unaffected, Cancelled, Chosen, SameDocument, SameStroke, NoStrokeLeft
  <2>. QED
    BY <2>1, HeldSame, MarksGrow
<1>2. CASE Began(c, s, t)
  <2>1. /\ t.active \in InkStroke /\ t.active.id = c.id /\ t.active.brush = c.value
        /\ t.layers = s.layers /\ t.past = s.past /\ t.future = s.future /\ c.op = "BeginStroke"
    BY <1>2 DEF Began, SameDocument, SameHistory
  <2>2. Held(t) \subseteq Held(s) \cup {t.active}
    BY <2>1 DEF Held
  <2>3. Marks(Held(t)) \subseteq Marks(Held(s)) \cup {<<t.active.id, t.active.brush>>}
    BY <2>2, OneMoreMark
  <2>. QED
    BY <2>1, <2>3 DEF Mark
<1>3. CASE Sampled(s, t)
  <2>1. /\ s.active \in InkStroke /\ t.active = [s.active EXCEPT !.samples = Append(@, FreshSample(0))]
        /\ t.layers = s.layers /\ t.past = s.past /\ t.future = s.future
    BY <1>3 DEF Sampled, SameDocument, SameHistory
  <2>2. t.active.id = s.active.id /\ t.active.brush = s.active.brush
    BY <2>1 DEF InkStroke
  <2>3. s.active # NoStroke
    BY <2>1, PlainOfNone
  <2>4. Held(t) \subseteq Held(s) \cup {t.active} /\ s.active \in Held(s)
    BY <2>1, <2>3 DEF Held
  <2>5. Marks(Held(t)) \subseteq Marks(Held(s)) \cup {<<t.active.id, t.active.brush>>}
    BY <2>4, OneMoreMark
  <2>6. <<s.active.id, s.active.brush>> \in Marks(Held(s))
    BY <2>4 DEF Marks
  <2>. QED
    BY <2>2, <2>5, <2>6
<1>4. CASE Ended(s, t)
  <2>1. s.active \in InkStroke /\ Committed(AddStroke(s.active, s.activeStrokeLayer), s, t) /\ t.active = NoStroke
    BY <1>4 DEF Ended, NoStrokeLeft
  <2>2. s.active # NoStroke
    BY <2>1, PlainOfNone
  <2>3. StrokesIn(AddStroke(s.active, s.activeStrokeLayer)) = {s.active}
    BY DEF StrokesIn, AddStroke
  <2>4. StrokesIn(AddStroke(s.active, s.activeStrokeLayer)) \subseteq Held(s)
    BY <2>2, <2>3 DEF Held
  <2>. QED
    BY <2>1, <2>4, HeldCommitted, MarksGrow
<1>5. CASE ToppedUp(s, t)
  <2> DEFINE n == NewLayer(s.nextLayerId)
  <2>1. Committed(AddLayer(n, Len(s.layers) + 1, FALSE), s, t) /\ t.active = s.active
    BY <1>5 DEF ToppedUp, SameStroke
  <2>2. n.strokes = << >>
    BY DEF NewLayer
  <2>3. n \in InkLayer
    BY <1>0, DefaultPropsAssumption DEF NewLayer, InkLayer
  <2> HIDE DEF n
  <2>4. StrokesIn(AddLayer(n, Len(s.layers) + 1, FALSE)) = StrokesOf(<<n>>)
    BY DEF StrokesIn, AddLayer
  <2>5. StrokesOf(<<n>>) = {}
    BY <2>2, <2>3, StrokesOfOne DEF StrokesOn, ToSet
  <2> DEFINE e == AddLayer(n, Len(s.layers) + 1, FALSE)
  <2>6. Committed(e, s, t) /\ StrokesIn(e) \subseteq Held(s)
    BY <2>1, <2>4, <2>5
  <2> HIDE DEF e
  <2>7. Held(t) \subseteq Held(s)
    BY <2>1, <2>6, HeldCommitted
  <2>. QED
    BY <2>7, MarksGrow
<1>6. CASE Dropped(c, s, t)
  <2>1. Committed(RemoveLayer(c.id), s, t) /\ t.active = s.active
    BY <1>6 DEF Dropped, SameStroke
  <2>2. StrokesIn(RemoveLayer(c.id)) = {}
    BY DEF StrokesIn, RemoveLayer
  <2>. QED
    BY <2>1, <2>2, HeldCommitted, MarksGrow
<1>7. CASE Reordered(c, s, t)
  <2>1. Committed(MoveLayer(c.id, c.value), s, t) /\ t.active = s.active
    BY <1>7 DEF Reordered, SameStroke
  <2>2. StrokesIn(MoveLayer(c.id, c.value)) = {}
    BY DEF StrokesIn, MoveLayer
  <2>. QED
    BY <2>1, <2>2, HeldCommitted, MarksGrow
<1>8. CASE Exposed(c, s, t)
  BY <1>8, HeldExposed, MarksGrow
<1>9. CASE Undone(s, t) \/ Redone(s, t)
  BY <1>9, HeldPopped, MarksGrow
<1>. QED
  BY <1>1, <1>2, <1>3, <1>4, <1>5, <1>6, <1>7, <1>8, <1>9 DEF Changes

\* The scene of a snapshot shows nothing the state does not hold.
LEMMA SceneHeld ==
    ASSUME NEW s \in EngineState
    PROVE  MarkOf(SnapshotOf(s)) \subseteq Marks(Held(s))
<1> DEFINE scene == SnapshotOf(s).scene
           e     == AddStroke(s.active, scene.activeStrokeLayer)
<1>0. s.layers \in Seq(InkLayer) /\ s.activeLayer \in LayerId
  BY StateParts
<1>1. \/ scene.layers = s.layers
      \/ s.active \in InkStroke /\ e \in InkEdit /\ CanApply(e, s.layers) /\ scene.layers = LayersAfter(e, s.layers)
  BY SceneIs
<1>2. StrokesIn(e) = {s.active}
  BY DEF StrokesIn, AddStroke
<1> HIDE DEF scene, e
<1>3. CASE scene.layers = s.layers
  BY <1>3, MarksGrow DEF MarkOf, Held, scene
<1>4. CASE s.active \in InkStroke /\ e \in InkEdit /\ CanApply(e, s.layers) /\ scene.layers = LayersAfter(e, s.layers)
  <2>1. StrokesOf(scene.layers) \subseteq StrokesOf(s.layers) \cup {s.active}
    BY <1>0, <1>2, <1>4, StrokesEdited
  <2>2. s.active # NoStroke
    BY <1>4, PlainOfNone
  <2>3. StrokesOf(scene.layers) \subseteq Held(s)
    BY <2>1, <2>2 DEF Held
  <2>. QED
    BY <2>3, MarksGrow DEF MarkOf, scene
<1>. QED
  BY <1>1, <1>3, <1>4

LEMMA SentAppend ==
    ASSUME NEW q \in Seq(Entry), NEW c \in Entry
    PROVE  Sent(Append(q, c)) \subseteq Sent(q) \cup (IF c.op = "BeginStroke" THEN {Mark(c)} ELSE {})
<1> DEFINE u == Append(q, c)
<1>1. /\ DOMAIN u = 1 .. Len(q) + 1 /\ DOMAIN q = 1 .. Len(q) /\ Len(q) \in Nat
      /\ \A i \in 1 .. Len(q) + 1 : u[i] = IF i = Len(q) + 1 THEN c ELSE q[i]
  BY AppendProperties, LenProperties
<1> HIDE DEF u
<1>2. ASSUME NEW i \in DOMAIN u, u[i].op = "BeginStroke"
      PROVE  Mark(u[i]) \in Sent(q) \cup (IF c.op = "BeginStroke" THEN {Mark(c)} ELSE {})
  <2>1. u[i] = c \/ \E j \in DOMAIN q : u[i] = q[j]
    BY <1>1
  <2>2. \A j \in DOMAIN q : q[j].op = "BeginStroke" => Mark(q[j]) \in Sent(q)
    BY DEF Sent
  <2>. QED
    BY <1>2, <2>1, <2>2
<1>3. Sent(u) \subseteq Sent(q) \cup (IF c.op = "BeginStroke" THEN {Mark(c)} ELSE {})
  BY <1>2 DEF Sent
<1>. QED
  BY <1>3 DEF u

LEMMA SentTail ==
    ASSUME NEW q \in Seq(Entry), q # << >>
    PROVE  /\ Sent(Tail(q)) \subseteq Sent(q)
           /\ Head(q).op = "BeginStroke" => Mark(Head(q)) \in Sent(q)
<1> DEFINE u == Tail(q)
<1>1. /\ Len(q) \in Nat \ {0} /\ Head(q) = q[1] /\ u \in Seq(Entry) /\ Len(u) = Len(q) - 1
      /\ \A i \in 1 .. Len(q) - 1 : u[i] = q[i + 1]
  BY HeadTail
<1>2. DOMAIN q = 1 .. Len(q) /\ DOMAIN u = 1 .. Len(u)
  BY <1>1, LenProperties
<1> HIDE DEF u
<1>3. \A j \in DOMAIN q : q[j].op = "BeginStroke" => Mark(q[j]) \in Sent(q)
  BY DEF Sent
<1>4. ASSUME NEW i \in DOMAIN u, u[i].op = "BeginStroke" PROVE Mark(u[i]) \in Sent(q)
  <2>1. i + 1 \in DOMAIN q /\ u[i] = q[i + 1]
    BY <1>1, <1>2
  <2>. QED
    BY <1>3, <1>4, <2>1
<1>5. Sent(u) \subseteq Sent(q)
  BY <1>4 DEF Sent
<1>6. Head(q).op = "BeginStroke" => Mark(Head(q)) \in Sent(q)
  BY <1>1, <1>2, <1>3
<1>. QED
  BY <1>5, <1>6 DEF u

(***************************************************************************)
(* The painting of a frame. Its folds are over the strokes of a layer, the *)
(* layers to paint and the layers to blend; the picture it should show is  *)
(* a fold over the layers too. Loop is the step of each.                   *)
(***************************************************************************)
PaintLayer(c, layer) ==
    Painter!FoldLeft(LAMBDA b, stroke : Painter!ApplyStroke(b, stroke, layer.id), c, layer.strokes)

Seen(below, scene, l) ==
    IF l.props.visible \/ l.id = scene.activeStrokeLayer
    THEN Append(below, [paint |-> l.strokes, props |-> l.props])
    ELSE below

Loop(kind, about, x, y) ==
    IF kind = "strokes" THEN Painter!ApplyStroke(x, y, about)
    ELSE IF kind = "layers" THEN PaintLayer(x, y)
    ELSE IF kind = "blend" THEN Painter!CompositeLayer(x, about, y)
    ELSE Seen(x, about, y)

LoopTo(kind, about, base, seq, g, S) ==
    IF S = {} THEN base ELSE Loop(kind, about, g[S \ {Max(S)}], seq[Max(S)])

Folded(kind, about, base, seq, n, g) == g = [S \in SUBSET (1 .. n) |-> LoopTo(kind, about, base, seq, g, S)]

\* v is the step applied to base and each of seq in turn.
FoldOf(kind, about, base, seq, v) ==
    \E g : Folded(kind, about, base, seq, Len(seq), g) /\ v = g[1 .. Len(seq)]

\* Induction, from the well-foundedness of < on Nat: a set that has 0, and
\* the successor of all it has, has all natural numbers.
LEMMA SetInduction ==
    ASSUME NEW T \in SUBSET Nat, 0 \in T, \A n \in T : n + 1 \in T
    PROVE  T = Nat
<1> DEFINE U == Nat \ T
           R == OpToRel(<, Nat)
<1>1. SUFFICES ASSUME U # {} PROVE FALSE
  OBVIOUS
<1>2. \A x, y \in Nat : x < y => <<x, y>> \in R
  BY DEF OpToRel
<1>3. IsWellFoundedOn(R, Nat)
  BY NatLessThanWellFounded
<1> HIDE DEF R
<1>4. PICK x \in U : \A y \in U : ~(<<y, x>> \in R)
  <2> HIDE DEF U
  <2>1. U \subseteq Nat
    BY DEF U
  <2>. QED
    BY <1>1, <1>3, <2>1, WFMin, Zenon
<1>5. x # 0 /\ x \in Nat
  OBVIOUS
<1>6. x - 1 \in Nat /\ x - 1 < x
  BY <1>5
<1>7. x - 1 \in T
  BY <1>2, <1>4, <1>5, <1>6
<1>. QED
  BY <1>5, <1>6, <1>7

LEMMA MaxIsLast ==
    ASSUME NEW n \in Nat, NEW S \in SUBSET (1 .. n + 1), n + 1 \in S
    PROVE  Max(S) = n + 1
<1>1. \A y \in S : n + 1 >= y
  OBVIOUS
<1>2. \A x \in S : (\A y \in S : x >= y) => x = n + 1
  OBVIOUS
<1>3. Max(S) \in S /\ \A y \in S : Max(S) >= y
  BY <1>1 DEF Max
<1>. QED
  BY <1>2, <1>3

LEMMA FoldGrows ==
    ASSUME NEW kind, NEW about, NEW base, NEW seq, NEW n \in Nat, NEW g, Folded(kind, about, base, seq, n, g)
    PROVE  \E f : Folded(kind, about, base, seq, n + 1, f)
<1> DEFINE m == n + 1
           top(S) == Loop(kind, about, g[S \ {m}], seq[m])
           f == [S \in SUBSET (1 .. m) |-> IF m \in S THEN top(S) ELSE g[S]]
           to(S) == LoopTo(kind, about, base, seq, f, S)
<1>1. \A S \in SUBSET (1 .. n) : g[S] = LoopTo(kind, about, base, seq, g, S)
  BY Zenon DEF Folded
<1>2. \A S \in SUBSET (1 .. m) :
         /\ S \ {m} \in SUBSET (1 .. m) /\ m \notin S \ {m}
         /\ m \notin S => S \in SUBSET (1 .. n)
  OBVIOUS
<1>3. ASSUME NEW S \in SUBSET (1 .. m), m \in S PROVE to(S) = top(S)
  <2>1. Max(S) = m /\ S # {}
    BY <1>3, MaxIsLast
  <2>2. f[S \ {m}] = g[S \ {m}]
    BY <1>2
  <2> HIDE DEF f, m
  <2>. QED
    BY <2>1, <2>2 DEF LoopTo
<1>4. ASSUME NEW S \in SUBSET (1 .. m), m \notin S PROVE to(S) = g[S]
  <2>1. g[S] = LoopTo(kind, about, base, seq, g, S)
    BY <1>1, <1>2, <1>4
  <2>2. S \ {Max(S)} \in SUBSET (1 .. m) /\ m \notin S \ {Max(S)}
    BY <1>4
  <2>3. f[S \ {Max(S)}] = g[S \ {Max(S)}]
    BY <2>2
  <2> HIDE DEF f
  <2>. QED
    BY <2>1, <2>3 DEF LoopTo
<1> HIDE DEF top
<1>5. \A S \in SUBSET (1 .. m) : f[S] = IF m \in S THEN top(S) ELSE g[S]
  OBVIOUS
<1>6. f = [S \in SUBSET (1 .. m) |-> f[S]]
  OBVIOUS
<1> HIDE DEF to, f
<1>7. \A S \in SUBSET (1 .. m) : f[S] = to(S)
  <2> HIDE DEF m
  <2>. QED
    BY <1>3, <1>4, <1>5
<1>8. f = [S \in SUBSET (1 .. m) |-> to(S)]
  BY <1>6, <1>7
<1>. QED
  BY <1>8 DEF Folded, to

LEMMA FoldExists ==
    ASSUME NEW kind, NEW about, NEW base, NEW seq, NEW n \in Nat
    PROVE  \E g : Folded(kind, about, base, seq, n, g)
<1> DEFINE T == {k \in Nat : \E g : Folded(kind, about, base, seq, k, g)}
<1>1. 0 \in T
  <2> DEFINE f == [S \in SUBSET (1 .. 0) |-> base]
             h == [S \in SUBSET (1 .. 0) |-> LoopTo(kind, about, base, seq, f, S)]
  <2>1. 1 .. 0 = {}
    OBVIOUS
  <2>2. ASSUME NEW S \in SUBSET (1 .. 0) PROVE LoopTo(kind, about, base, seq, f, S) = base
    BY <2>1, <2>2 DEF LoopTo
  <2>3. f = h
    BY <2>2
  <2>4. Folded(kind, about, base, seq, 0, f)
    BY <2>3 DEF Folded
  <2>. QED
    BY <2>4
<1>2. ASSUME NEW k \in T PROVE k + 1 \in T
  BY FoldGrows
<1> HIDE DEF T
<1>3. T \in SUBSET Nat
  BY DEF T
<1>4. T = Nat
  BY <1>1, <1>2, <1>3, SetInduction
<1>. QED
  BY <1>4 DEF T

\* g has the steps of the fold.
Steps(kind, about, base, seq, n, g) ==
    /\ g[1 .. 0] = base
    /\ \A k \in 0 .. (n - 1) : g[1 .. (k + 1)] = Loop(kind, about, g[1 .. k], seq[k + 1])

LEMMA FoldSteps ==
    ASSUME NEW kind, NEW about, NEW base, NEW seq, NEW n \in Nat, NEW g, Folded(kind, about, base, seq, n, g)
    PROVE  Steps(kind, about, base, seq, n, g)
<1>1. \A S \in SUBSET (1 .. n) : g[S] = LoopTo(kind, about, base, seq, g, S)
  BY Zenon DEF Folded
<1>2. g[1 .. 0] = base
  <2>1. 1 .. 0 = {} /\ {} \in SUBSET (1 .. n)
    OBVIOUS
  <2>. QED
    BY <1>1, <2>1 DEF LoopTo
<1>3. ASSUME NEW k \in 0 .. (n - 1)
      PROVE  g[1 .. (k + 1)] = Loop(kind, about, g[1 .. k], seq[k + 1])
  <2> DEFINE S == 1 .. (k + 1)
  <2>1. /\ S \in SUBSET (1 .. n) /\ S # {} /\ k \in Nat /\ k + 1 \in S
        /\ S \in SUBSET (1 .. k + 1) /\ S \ {k + 1} = 1 .. k
    OBVIOUS
  <2> HIDE DEF S
  <2>2. Max(S) = k + 1
    BY <2>1, MaxIsLast
  <2>3. g[S] = Loop(kind, about, g[S \ {k + 1}], seq[k + 1])
    BY <1>1, <2>1, <2>2 DEF LoopTo
  <2>. QED
    BY <2>1, <2>3 DEF S
<1>. QED
  BY <1>2, <1>3 DEF Steps

\* What the fold has made of each prefix of the sequence.
Values(kind, about, base, seq, h) ==
    /\ h[0] = base
    /\ \A k \in 0 .. (Len(seq) - 1) : h[k + 1] = Loop(kind, about, h[k], seq[k + 1])

LEMMA FoldValues ==
    ASSUME NEW kind, NEW about, NEW base, NEW S, NEW seq \in Seq(S), NEW v, FoldOf(kind, about, base, seq, v)
    PROVE  \E h : Values(kind, about, base, seq, h) /\ h[Len(seq)] = v
<1>0. Len(seq) \in Nat
  BY LenProperties
<1>1. PICK g : Folded(kind, about, base, seq, Len(seq), g) /\ v = g[1 .. Len(seq)]
  BY DEF FoldOf
<1>2. Steps(kind, about, base, seq, Len(seq), g)
  BY <1>0, <1>1, FoldSteps, Zenon
<1> DEFINE n == Len(seq)
           h == [k \in 0 .. n |-> g[1 .. k]]
<1> HIDE DEF n
<1>3. n \in Nat
  BY <1>0 DEF n
<1>4. h[0] = base /\ h[n] = v
  BY <1>1, <1>2, <1>3 DEF n, Steps
<1>5. ASSUME NEW k \in 0 .. (n - 1) PROVE h[k + 1] = Loop(kind, about, h[k], seq[k + 1])
  <2>1. k \in 0 .. n /\ k + 1 \in 0 .. n
    BY <1>3
  <2>2. h[k] = g[1 .. k] /\ h[k + 1] = g[1 .. (k + 1)]
    BY <2>1
  <2>3. g[1 .. (k + 1)] = Loop(kind, about, g[1 .. k], seq[k + 1])
    BY <1>2 DEF n, Steps
  <2>. QED
    BY <2>2, <2>3
<1> HIDE DEF h
<1>. QED
  BY <1>4, <1>5 DEF n, Values

LEMMA SameMax == \A S : Painter!Max(S) = Max(S)
BY DEF Painter!Max, Max

\* The painting of all layers, their blending, and the picture.
Painted(c, ls)       == Painter!FoldLeft(LAMBDA a, layer : PaintLayer(a, layer), c, ls)
Blended(c, scene, ls) == Painter!FoldLeft(LAMBDA a, layer : Painter!CompositeLayer(a, scene, layer), c, ls)
PictureOf(scene, ls) == FoldLeft(LAMBDA below, l : Seen(below, scene, l), << >>, ls)

\* The strokes of a layer are deposited in turn.
LEMMA StrokesFold ==
    ASSUME NEW l, l.strokes \in Seq(InkStroke), NEW base
    PROVE  FoldOf("strokes", l.id, base, l.strokes, PaintLayer(base, l))
<1> DEFINE v == PaintLayer(base, l)
           D == DOMAIN l.strokes
           step(x, y) == Painter!ApplyStroke(x, y, l.id)
           next(g, s) == IF s = {} THEN base ELSE LET i == Painter!Max(s) IN step(g[s \ {i}], l.strokes[i])
           folded(g) == g = [s \in SUBSET D |-> next(g, s)]
           r == CHOOSE g : folded(g)
<1>1. v = r[D]
  BY Zenon DEF Painter!FoldLeft, Painter!MapThenFoldSet, PaintLayer
<1>2. D = 1 .. Len(l.strokes) /\ Len(l.strokes) \in Nat
  BY LenProperties
<1>3. \A x, y : Loop("strokes", l.id, x, y) = step(x, y)
  BY DEF Loop
<1> HIDE DEF step, v, D
<1>4. \A g, s : LoopTo("strokes", l.id, base, l.strokes, g, s) = next(g, s)
  BY <1>3, SameMax DEF LoopTo
<1> HIDE DEF next
<1>5. \A g : folded(g) <=> Folded("strokes", l.id, base, l.strokes, Len(l.strokes), g)
  BY <1>2, <1>4 DEF Folded
<1>6. \E g : folded(g)
  BY <1>2, <1>5, FoldExists
<1> HIDE DEF folded
<1>7. folded(r)
  BY <1>6
<1> HIDE DEF r
<1>8. Folded("strokes", l.id, base, l.strokes, Len(l.strokes), r) /\ v = r[1 .. Len(l.strokes)]
  BY <1>1, <1>2, <1>5, <1>7
<1>9. FoldOf("strokes", l.id, base, l.strokes, v)
  BY <1>8 DEF FoldOf
<1>. QED
  BY <1>9 DEF v

\* The layers are painted in turn.
LEMMA LayersFold ==
    ASSUME NEW seq \in Seq(InkLayer), NEW base
    PROVE  FoldOf("layers", 0, base, seq, Painted(base, seq))
<1> DEFINE v == Painted(base, seq)
           D == DOMAIN seq
           step(x, y) == PaintLayer(x, y)
           next(g, s) == IF s = {} THEN base ELSE LET i == Painter!Max(s) IN step(g[s \ {i}], seq[i])
           folded(g) == g = [s \in SUBSET D |-> next(g, s)]
           r == CHOOSE g : folded(g)
<1>1. v = r[D]
  BY Zenon DEF Painter!FoldLeft, Painter!MapThenFoldSet, Painted
<1>2. D = 1 .. Len(seq) /\ Len(seq) \in Nat
  BY LenProperties
<1>3. \A x, y : Loop("layers", 0, x, y) = step(x, y)
  BY DEF Loop
<1> HIDE DEF step, v, D
<1>4. \A g, s : LoopTo("layers", 0, base, seq, g, s) = next(g, s)
  BY <1>3, SameMax DEF LoopTo
<1> HIDE DEF next
<1>5. \A g : folded(g) <=> Folded("layers", 0, base, seq, Len(seq), g)
  BY <1>2, <1>4 DEF Folded
<1>6. \E g : folded(g)
  BY <1>2, <1>5, FoldExists
<1> HIDE DEF folded
<1>7. folded(r)
  BY <1>6
<1> HIDE DEF r
<1>8. Folded("layers", 0, base, seq, Len(seq), r) /\ v = r[1 .. Len(seq)]
  BY <1>1, <1>2, <1>5, <1>7
<1>9. FoldOf("layers", 0, base, seq, v)
  BY <1>8 DEF FoldOf
<1>. QED
  BY <1>9 DEF v

\* The layers are blended in turn.
LEMMA BlendFold ==
    ASSUME NEW seq \in Seq(InkLayer), NEW base, NEW scene
    PROVE  FoldOf("blend", scene, base, seq, Blended(base, scene, seq))
<1> DEFINE v == Blended(base, scene, seq)
           D == DOMAIN seq
           step(x, y) == Painter!CompositeLayer(x, scene, y)
           next(g, s) == IF s = {} THEN base ELSE LET i == Painter!Max(s) IN step(g[s \ {i}], seq[i])
           folded(g) == g = [s \in SUBSET D |-> next(g, s)]
           r == CHOOSE g : folded(g)
<1>1. v = r[D]
  BY Zenon DEF Painter!FoldLeft, Painter!MapThenFoldSet, Blended
<1>2. D = 1 .. Len(seq) /\ Len(seq) \in Nat
  BY LenProperties
<1>3. \A x, y : Loop("blend", scene, x, y) = step(x, y)
  BY DEF Loop
<1> HIDE DEF step, v, D
<1>4. \A g, s : LoopTo("blend", scene, base, seq, g, s) = next(g, s)
  BY <1>3, SameMax DEF LoopTo
<1> HIDE DEF next
<1>5. \A g : folded(g) <=> Folded("blend", scene, base, seq, Len(seq), g)
  BY <1>2, <1>4 DEF Folded
<1>6. \E g : folded(g)
  BY <1>2, <1>5, FoldExists
<1> HIDE DEF folded
<1>7. folded(r)
  BY <1>6
<1> HIDE DEF r
<1>8. Folded("blend", scene, base, seq, Len(seq), r) /\ v = r[1 .. Len(seq)]
  BY <1>1, <1>2, <1>5, <1>7
<1>9. FoldOf("blend", scene, base, seq, v)
  BY <1>8 DEF FoldOf
<1>. QED
  BY <1>9 DEF v

\* The picture is built in turn.
LEMMA SeenFold ==
    ASSUME NEW seq \in Seq(InkLayer), NEW scene
    PROVE  FoldOf("seen", scene, << >>, seq, PictureOf(scene, seq))
<1> DEFINE v == PictureOf(scene, seq)
           D == DOMAIN seq
           step(x, y) == Seen(x, scene, y)
           next(g, s) == IF s = {} THEN << >> ELSE LET i == Max(s) IN step(g[s \ {i}], seq[i])
           folded(g) == g = [s \in SUBSET D |-> next(g, s)]
           r == CHOOSE g : folded(g)
<1>1. v = r[D]
  BY Zenon DEF FoldLeft, MapThenFoldSet, PictureOf
<1>2. D = 1 .. Len(seq) /\ Len(seq) \in Nat
  BY LenProperties
<1>3. \A x, y : Loop("seen", scene, x, y) = step(x, y)
  BY DEF Loop
<1> HIDE DEF step, v, D
<1>4. \A g, s : LoopTo("seen", scene, << >>, seq, g, s) = next(g, s)
  BY <1>3 DEF LoopTo
<1> HIDE DEF next
<1>5. \A g : folded(g) <=> Folded("seen", scene, << >>, seq, Len(seq), g)
  BY <1>2, <1>4 DEF Folded
<1>6. \E g : folded(g)
  BY <1>2, <1>5, FoldExists
<1> HIDE DEF folded
<1>7. folded(r)
  BY <1>6
<1> HIDE DEF r
<1>8. Folded("seen", scene, << >>, seq, Len(seq), r) /\ v = r[1 .. Len(seq)]
  BY <1>1, <1>2, <1>5, <1>7
<1>9. FoldOf("seen", scene, << >>, seq, v)
  BY <1>8 DEF FoldOf
<1>. QED
  BY <1>9 DEF v

\* A pair of textures, and the state of the compositor.
IsPair(p) ==
    /\ p = [sides |-> p.sides, front |-> p.front]
    /\ p.front \in {0, 1} /\ p.sides = [s \in {0, 1} |-> p.sides[s]]

IsCompositor(c) ==
    /\ c = [size |-> c.size, substrates |-> c.substrates, composite |-> c.composite]
    /\ IsPair(c.composite)
    /\ c.substrates = [id \in DOMAIN c.substrates |-> c.substrates[id]]
    /\ \A id \in DOMAIN c.substrates : IsPair(c.substrates[id])

\* The substrate of the layer, as it is read.
Laid(c, id) == Painter!Face(c.substrates[id])

LEMMA DepositIs ==
    ASSUME NEW p, IsPair(p), NEW x
    PROVE  /\ IsPair(Painter!Deposit(p, x))
           /\ Painter!Face(Painter!Deposit(p, x)) = Append(Painter!Face(p), x)
<1> DEFINE f == p.front
           y == Append(Painter!Face(p), x)
           d == [sides |-> [s \in {0, 1} |-> IF s = 1 - f THEN y ELSE p.sides[s]], front |-> 1 - f]
<1>1. f \in {0, 1} /\ 1 - f \in {0, 1}
  BY DEF IsPair
<1>2. Painter!Deposit(p, x) = d
  <2> DEFINE q == p.sides
  <2>1. q = [s \in {0, 1} |-> q[s]]
    BY DEF IsPair
  <2>2. Painter!Deposit(p, x) = [sides |-> [q EXCEPT ![1 - f] = y], front |-> 1 - f]
    BY DEF Painter!Deposit
  <2> HIDE DEF q, y
  <2>3. [q EXCEPT ![1 - f] = y] = [s \in {0, 1} |-> IF s = 1 - f THEN y ELSE q[s]]
    BY <1>1, <2>1
  <2>. QED
    BY <2>2, <2>3 DEF q
<1> HIDE DEF y
<1>3. IsPair(d) /\ d.sides[d.front] = y
  BY <1>1 DEF IsPair
<1> HIDE DEF d
<1>. QED
  BY <1>2, <1>3 DEF Painter!Face, y

LEMMA ClearedIs ==
    /\ IsPair(Painter!NewPair) /\ Painter!Face(Painter!NewPair) = << >>
    /\ \A p : IsPair(p) => IsPair(Painter!Cleared(p)) /\ Painter!Face(Painter!Cleared(p)) = << >>
<1> DEFINE n == [sides |-> [s \in {0, 1} |-> << >>], front |-> 0]
<1>1. Painter!NewPair = n
  BY DEF Painter!NewPair, Painter!Sides, Painter!Clear
<1>2. ASSUME NEW p, IsPair(p) PROVE Painter!Cleared(p) = n
  <2>1. p = [sides |-> p.sides, front |-> p.front]
    BY <1>2 DEF IsPair
  <2>. QED
    BY <2>1 DEF Painter!Cleared, Painter!Sides, Painter!Clear
<1>3. IsPair(n) /\ n.sides[n.front] = << >>
  BY DEF IsPair
<1> HIDE DEF n
<1>. QED
  BY <1>1, <1>2, <1>3 DEF Painter!Face

\* begin_frame: whatever was painted before, all textures are clear.
LEMMA FrameBegun ==
    ASSUME NEW c, IsCompositor(c), NEW win, NEW keep
    PROVE  LET b == Painter!BeginFrame(Painter!Resize(c, win), keep)
           IN  /\ IsCompositor(b) /\ DOMAIN b.substrates = keep
               /\ \A id \in keep : Laid(b, id) = << >>
               /\ Painter!Face(b.composite) = << >>
<1> DEFINE d == Painter!Resize(c, win)
           b == Painter!BeginFrame(d, keep)
<1>1. IsCompositor(d)
  <2> DEFINE n == [size |-> win, substrates |-> << >>, composite |-> Painter!NewPair]
  <2>1. IsCompositor(n)
    <3>1. DOMAIN << >> = {} /\ << >> = [id \in DOMAIN << >> |-> << >>[id]]
      OBVIOUS
    <3>. QED
      BY <3>1, ClearedIs DEF IsCompositor
  <2>. QED
    BY <2>1 DEF Painter!Resize, Painter!NewCompositor
<1> HIDE DEF d
<1> DEFINE sub == [id \in keep |-> IF id \in DOMAIN d.substrates THEN Painter!Cleared(d.substrates[id])
                                   ELSE Painter!NewPair]
<1>2. b = [size |-> d.size, substrates |-> sub, composite |-> Painter!Cleared(d.composite)]
  <2>1. d = [size |-> d.size, substrates |-> d.substrates, composite |-> d.composite]
    BY <1>1 DEF IsCompositor
  <2>2. b = [d EXCEPT !.substrates = sub, !.composite = Painter!Cleared(d.composite)]
    BY DEF Painter!BeginFrame
  <2> HIDE DEF b, sub
  <2>. QED
    BY <2>1, <2>2
<1>3. \A id \in keep : IsPair(sub[id]) /\ Painter!Face(sub[id]) = << >>
  BY <1>1, ClearedIs DEF IsCompositor
<1>4. IsPair(Painter!Cleared(d.composite)) /\ Painter!Face(Painter!Cleared(d.composite)) = << >>
  BY <1>1, ClearedIs DEF IsCompositor
<1>5. DOMAIN sub = keep /\ sub = [id \in DOMAIN sub |-> sub[id]]
  OBVIOUS
<1> HIDE DEF b, sub
<1>6. /\ b.size = d.size /\ b.substrates = sub /\ b.composite = Painter!Cleared(d.composite)
  BY <1>2
<1>7. IsCompositor(b)
  BY <1>2, <1>3, <1>4, <1>5, <1>6 DEF IsCompositor
<1>. QED
  BY <1>3, <1>4, <1>5, <1>6, <1>7 DEF b, d, Laid

\* Nothing but the substrate of that layer differs.
OnlyOn(id, c, d) ==
    /\ IsCompositor(d) /\ DOMAIN d.substrates = DOMAIN c.substrates /\ d.composite = c.composite
    /\ \A j \in DOMAIN c.substrates : j # id => d.substrates[j] = c.substrates[j]

LEMMA StrokeApplied ==
    ASSUME NEW c, IsCompositor(c), NEW id \in DOMAIN c.substrates, NEW x
    PROVE  LET d == Painter!ApplyStroke(c, x, id)
           IN  OnlyOn(id, c, d) /\ Laid(d, id) = Append(Laid(c, id), x)
<1> DEFINE p == Painter!Deposit(c.substrates[id], x)
           sub == [j \in DOMAIN c.substrates |-> IF j = id THEN p ELSE c.substrates[j]]
           d == Painter!ApplyStroke(c, x, id)
<1>1. IsPair(c.substrates[id])
  BY DEF IsCompositor
<1>2. IsPair(p) /\ Painter!Face(p) = Append(Laid(c, id), x)
  BY <1>1, DepositIs DEF Laid
<1>3. d = [c EXCEPT !.substrates = [@ EXCEPT ![id] = p]]
  BY DEF Painter!ApplyStroke
<1> HIDE DEF p, d
<1>4. d = [size |-> c.size, substrates |-> sub, composite |-> c.composite]
  <2>1. /\ c = [size |-> c.size, substrates |-> c.substrates, composite |-> c.composite]
        /\ c.substrates = [j \in DOMAIN c.substrates |-> c.substrates[j]]
    BY DEF IsCompositor
  <2>2. [c.substrates EXCEPT ![id] = p] = sub
    BY <2>1
  <2> HIDE DEF sub
  <2>. QED
    BY <1>3, <2>1, <2>2
<1>5. /\ DOMAIN sub = DOMAIN c.substrates /\ sub = [j \in DOMAIN sub |-> sub[j]] /\ sub[id] = p
      /\ \A j \in DOMAIN c.substrates : j # id => sub[j] = c.substrates[j]
  OBVIOUS
<1> HIDE DEF sub
<1>6. d.size = c.size /\ d.substrates = sub /\ d.composite = c.composite
  BY <1>4
<1>7. \A j \in DOMAIN sub : IsPair(sub[j])
  BY <1>2, <1>5 DEF IsCompositor
<1>8. IsCompositor(d)
  BY <1>4, <1>5, <1>6, <1>7 DEF IsCompositor
<1>. QED
  BY <1>2, <1>5, <1>6, <1>8 DEF OnlyOn, Laid, d

\* A layer's strokes, deposited in turn on a clear substrate, are what is on it.
LEMMA LayerPainted ==
    ASSUME NEW c, IsCompositor(c), NEW l \in InkLayer, l.id \in DOMAIN c.substrates, Laid(c, l.id) = << >>
    PROVE  LET d == PaintLayer(c, l) IN OnlyOn(l.id, c, d) /\ Laid(d, l.id) = l.strokes
<1> DEFINE id == l.id
           q  == l.strokes
           d  == PaintLayer(c, l)
<1>1. q \in Seq(InkStroke) /\ Len(q) \in Nat
  BY LenProperties DEF InkLayer
<1>2. FoldOf("strokes", id, c, q, d)
  BY <1>1, StrokesFold
<1> HIDE DEF d, q
<1>3. PICK h : Values("strokes", id, c, q, h) /\ h[Len(q)] = d
  BY <1>1, <1>2, FoldValues
<1> DEFINE P(k) == /\ OnlyOn(id, c, h[k])
                   /\ Laid(h[k], id) \in Seq(InkStroke) /\ Len(Laid(h[k], id)) = k
                   /\ \A i \in 1 .. k : Laid(h[k], id)[i] = q[i]
           T    == {k \in Nat : k <= Len(q) => P(k)}
<1>4. id \in DOMAIN c.substrates
  OBVIOUS
<1> HIDE DEF id
<1>5. P(0)
  <2>1. OnlyOn(id, c, c)
    BY DEF OnlyOn
  <2>2. Laid(c, id) = << >>
    BY DEF id
  <2>3. h[0] = c
    BY <1>3 DEF Values
  <2>. QED
    BY <2>1, <2>2, <2>3, EmptySeq
<1>6. ASSUME NEW k \in Nat, k < Len(q), P(k) PROVE P(k + 1)
  <2> DEFINE a == h[k]
             b == h[k + 1]
  <2>1. b = Painter!ApplyStroke(a, q[k + 1], id)
    <3>1. k \in 0 .. (Len(q) - 1)
      BY <1>1, <1>6
    <3>. QED
      BY <1>3, <3>1 DEF Values, Loop
  <2>2. /\ OnlyOn(id, c, a) /\ Laid(a, id) \in Seq(InkStroke) /\ Len(Laid(a, id)) = k
        /\ \A i \in 1 .. k : Laid(a, id)[i] = q[i]
    BY <1>6
  <2> HIDE DEF a, b
  <2>3. IsCompositor(a) /\ id \in DOMAIN a.substrates
    BY <1>4, <2>2 DEF OnlyOn
  <2>4. OnlyOn(id, a, b) /\ Laid(b, id) = Append(Laid(a, id), q[k + 1])
    BY <2>1, <2>3, StrokeApplied
  <2>5. OnlyOn(id, c, b)
    BY <2>2, <2>4 DEF OnlyOn
  <2>6. q[k + 1] \in InkStroke
    BY <1>1, <1>6, ElementOfSeq
  <2> DEFINE s == Laid(a, id)
             t == Laid(b, id)
  <2>7. /\ s \in Seq(InkStroke) /\ Len(s) = k /\ t = Append(s, q[k + 1])
        /\ \A i \in 1 .. k : s[i] = q[i]
    BY <2>2, <2>4
  <2> HIDE DEF s, t
  <2>8. /\ t \in Seq(InkStroke) /\ Len(t) = k + 1
        /\ \A i \in 1 .. k + 1 : t[i] = q[i]
    BY <1>6, <2>6, <2>7, AppendProperties
  <2>. QED
    BY <2>5, <2>8 DEF t, b
<1> HIDE DEF P
<1>7. T = Nat
  <2>1. 0 \in T
    BY <1>5
  <2>2. ASSUME NEW k \in T PROVE k + 1 \in T
    BY <1>1, <1>6
  <2> HIDE DEF T
  <2>3. T \in SUBSET Nat
    BY DEF T
  <2>. QED
    BY <2>1, <2>2, <2>3, SetInduction
<1>8. P(Len(q))
  BY <1>1, <1>7
<1>9. OnlyOn(id, c, d) /\ Laid(d, id) \in Seq(InkStroke) /\ Len(Laid(d, id)) = Len(q) /\ \A i \in 1 .. Len(q) : Laid(d, id)[i] = q[i]
  BY <1>3, <1>8 DEF P
<1>10. Laid(d, id) = q
  <2> DEFINE s == Laid(d, id)
  <2>1. s \in Seq(InkStroke) /\ Len(s) = Len(q) /\ \A i \in 1 .. Len(s) : s[i] = q[i]
    BY <1>9
  <2> HIDE DEF s
  <2>2. s = q
    BY <1>1, <2>1, SameSeq
  <2>. QED
    BY <2>2 DEF s
<1>. QED
  BY <1>9, <1>10 DEF d, q, id

\* No two layers have one id.
Distinct(ls) == \A i, j \in 1 .. Len(ls) : ls[i].id = ls[j].id => i = j

\* Each layer has a substrate, with its strokes on it up to layer k.
PaintedTo(c, ls, k) ==
    /\ IsCompositor(c)
    /\ \A p \in 1 .. Len(ls) : /\ ls[p].id \in DOMAIN c.substrates
                               /\ Laid(c, ls[p].id) = IF p <= k THEN ls[p].strokes ELSE << >>

LEMMA LayersPainted ==
    ASSUME NEW ls \in Seq(InkLayer), Distinct(ls), NEW c, PaintedTo(c, ls, 0)
    PROVE  /\ PaintedTo(Painted(c, ls), ls, Len(ls))
           /\ Painted(c, ls).composite = c.composite
<1> DEFINE d == Painted(c, ls)
<1>1. Len(ls) \in Nat /\ \A p \in 1 .. Len(ls) : ls[p] \in InkLayer
  BY LenProperties, ElementOfSeq
<1>2. FoldOf("layers", 0, c, ls, d)
  BY LayersFold
<1> HIDE DEF d
<1>3. PICK h : Values("layers", 0, c, ls, h) /\ h[Len(ls)] = d
  BY <1>2, FoldValues
<1> DEFINE P(k) == PaintedTo(h[k], ls, k) /\ h[k].composite = c.composite
           T    == {k \in Nat : k <= Len(ls) => P(k)}
<1>4. P(0)
  BY <1>3 DEF Values
<1>5. ASSUME NEW k \in Nat, k < Len(ls), P(k) PROVE P(k + 1)
  <2> DEFINE a == h[k]
             b == h[k + 1]
             l == ls[k + 1]
  <2>1. b = PaintLayer(a, l)
    <3>1. k \in 0 .. (Len(ls) - 1)
      BY <1>1, <1>5
    <3>. QED
      BY <1>3, <3>1 DEF Values, Loop
  <2>2. PaintedTo(a, ls, k) /\ a.composite = c.composite
    BY <1>5
  <2> HIDE DEF a, b
  <2>3. k + 1 \in 1 .. Len(ls) /\ ~ (k + 1 <= k)
    BY <1>1, <1>5
  <2>4. l \in InkLayer /\ l.id \in DOMAIN a.substrates /\ Laid(a, l.id) = << >> /\ IsCompositor(a)
    BY <1>1, <2>2, <2>3 DEF PaintedTo
  <2> HIDE DEF l
  <2>5. OnlyOn(l.id, a, b) /\ Laid(b, l.id) = l.strokes
    BY <2>1, <2>4, LayerPainted
  <2>6. ASSUME NEW p \in 1 .. Len(ls)
        PROVE  /\ ls[p].id \in DOMAIN b.substrates
               /\ Laid(b, ls[p].id) = IF p <= k + 1 THEN ls[p].strokes ELSE << >>
    <3>1. ls[p].id \in DOMAIN a.substrates /\ Laid(a, ls[p].id) = IF p <= k THEN ls[p].strokes ELSE << >>
      BY <2>2 DEF PaintedTo
    <3>2. CASE p = k + 1
      BY <2>5, <3>1, <3>2 DEF OnlyOn, l
    <3>3. CASE p # k + 1
      <4>1. ls[p].id # l.id
        BY <2>3, <3>3 DEF Distinct, l
      <4>2. b.substrates[ls[p].id] = a.substrates[ls[p].id]
        BY <2>5, <3>1, <4>1 DEF OnlyOn
      <4>3. Laid(b, ls[p].id) = Laid(a, ls[p].id)
        BY <4>2 DEF Laid
      <4>4. p <= k <=> p <= k + 1
        BY <3>3
      <4>. QED
        BY <2>5, <3>1, <4>3, <4>4 DEF OnlyOn
    <3>. QED
      BY <3>2, <3>3
  <2>7. PaintedTo(b, ls, k + 1) /\ b.composite = c.composite
    BY <2>2, <2>5, <2>6 DEF PaintedTo, OnlyOn
  <2>. QED
    BY <2>7 DEF b
<1> HIDE DEF P
<1>6. T = Nat
  <2>1. 0 \in T
    BY <1>4
  <2>2. ASSUME NEW k \in T PROVE k + 1 \in T
    BY <1>1, <1>5
  <2> HIDE DEF T
  <2>3. T \in SUBSET Nat
    BY DEF T
  <2>. QED
    BY <2>1, <2>2, <2>3, SetInduction
<1>7. P(Len(ls))
  BY <1>1, <1>6
<1>. QED
  BY <1>3, <1>7 DEF P, d

\* A layer whose substrate holds its strokes is blended as the picture has it.
LEMMA LayerBlended ==
    ASSUME NEW c, IsCompositor(c), NEW scene, NEW l, l.id \in DOMAIN c.substrates, Laid(c, l.id) = l.strokes
    PROVE  LET d == Painter!CompositeLayer(c, scene, l)
           IN  /\ IsCompositor(d) /\ d.substrates = c.substrates
               /\ Painter!Face(d.composite) = Seen(Painter!Face(c.composite), scene, l)
<1> DEFINE d    == Painter!CompositeLayer(c, scene, l)
           item == [paint |-> l.strokes, props |-> l.props]
           p    == Painter!Deposit(c.composite, item)
<1>1. IsPair(p) /\ Painter!Face(p) = Append(Painter!Face(c.composite), item)
  BY DepositIs DEF IsCompositor
<1>2. Painter!EffectivelyVisible(scene, l) <=> (l.props.visible \/ l.id = scene.activeStrokeLayer)
  BY DEF Painter!EffectivelyVisible
<1>3. CASE Painter!EffectivelyVisible(scene, l)
  <2>1. d = [c EXCEPT !.composite = p]
    BY <1>3 DEF Painter!CompositeLayer, Laid
  <2> HIDE DEF d, p, item
  <2>2. c = [size |-> c.size, substrates |-> c.substrates, composite |-> c.composite]
    BY DEF IsCompositor
  <2>3. d = [size |-> c.size, substrates |-> c.substrates, composite |-> p]
    BY <2>1, <2>2
  <2>4. d.size = c.size /\ d.substrates = c.substrates /\ d.composite = p
    BY <2>3
  <2>5. IsCompositor(d)
    BY <1>1, <2>3, <2>4 DEF IsCompositor
  <2>6. Seen(Painter!Face(c.composite), scene, l) = Append(Painter!Face(c.composite), item)
    BY <1>2, <1>3 DEF Seen, item
  <2>. QED
    BY <1>1, <2>4, <2>5, <2>6 DEF d
<1>4. CASE ~ Painter!EffectivelyVisible(scene, l)
  <2>1. d = c
    BY <1>4 DEF Painter!CompositeLayer
  <2>2. Seen(Painter!Face(c.composite), scene, l) = Painter!Face(c.composite)
    BY <1>2, <1>4 DEF Seen
  <2>. QED
    BY <2>1, <2>2
<1>. QED
  BY <1>3, <1>4

LEMMA LayersBlended ==
    ASSUME NEW ls \in Seq(InkLayer), NEW scene, NEW c, PaintedTo(c, ls, Len(ls)), Painter!Face(c.composite) = << >>
    PROVE  /\ IsCompositor(Blended(c, scene, ls))
           /\ Painter!Face(Blended(c, scene, ls).composite) = PictureOf(scene, ls)
<1> DEFINE d == Blended(c, scene, ls)
           v == PictureOf(scene, ls)
<1>1. Len(ls) \in Nat
  BY LenProperties
<1>2. FoldOf("blend", scene, c, ls, d) /\ FoldOf("seen", scene, << >>, ls, v)
  BY BlendFold, SeenFold
<1> HIDE DEF d, v
<1>3. PICK h : Values("blend", scene, c, ls, h) /\ h[Len(ls)] = d
  BY <1>2, FoldValues
<1>4. PICK w : Values("seen", scene, << >>, ls, w) /\ w[Len(ls)] = v
  BY <1>2, FoldValues
<1> DEFINE P(k) == IsCompositor(h[k]) /\ h[k].substrates = c.substrates /\ Painter!Face(h[k].composite) = w[k]
           T    == {k \in Nat : k <= Len(ls) => P(k)}
<1>5. P(0)
  <2>1. h[0] = c /\ w[0] = << >>
    BY <1>3, <1>4 DEF Values
  <2>. QED
    BY <2>1 DEF PaintedTo
<1>6. ASSUME NEW k \in Nat, k < Len(ls), P(k) PROVE P(k + 1)
  <2> DEFINE a == h[k]
             b == h[k + 1]
             l == ls[k + 1]
  <2>1. b = Painter!CompositeLayer(a, scene, l) /\ w[k + 1] = Seen(w[k], scene, l)
    <3>1. k \in 0 .. (Len(ls) - 1)
      BY <1>1, <1>6
    <3>2. \A x, y, z : /\ Loop("blend", z, x, y) = Painter!CompositeLayer(x, z, y)
                       /\ Loop("seen", z, x, y) = Seen(x, z, y)
      BY DEF Loop
    <3>. QED
      BY <1>3, <1>4, <3>1, <3>2 DEF Values
  <2>2. IsCompositor(a) /\ a.substrates = c.substrates /\ Painter!Face(a.composite) = w[k]
    BY <1>6
  <2> HIDE DEF a, b
  <2>3. k + 1 \in 1 .. Len(ls)
    BY <1>1, <1>6
  <2>4. l.id \in DOMAIN a.substrates /\ Laid(a, l.id) = l.strokes
    BY <2>2, <2>3 DEF PaintedTo, Laid
  <2> HIDE DEF l
  <2>5. /\ IsCompositor(b) /\ b.substrates = a.substrates
        /\ Painter!Face(b.composite) = Seen(Painter!Face(a.composite), scene, l)
    BY <2>1, <2>2, <2>4, LayerBlended
  <2>. QED
    BY <2>1, <2>2, <2>5 DEF b
<1> HIDE DEF P
<1>7. T = Nat
  <2>1. 0 \in T
    BY <1>5
  <2>2. ASSUME NEW k \in T PROVE k + 1 \in T
    BY <1>1, <1>6
  <2> HIDE DEF T
  <2>3. T \in SUBSET Nat
    BY DEF T
  <2>. QED
    BY <2>1, <2>2, <2>3, SetInduction
<1>8. P(Len(ls))
  BY <1>1, <1>7
<1>. QED
  BY <1>3, <1>4, <1>8 DEF P, d, v

\* What is presented of a scene is its picture, whatever the textures held.
LEMMA RenderShows ==
    ASSUME NEW c, IsCompositor(c), NEW scene, NEW win,
           scene.layers \in Seq(InkLayer), Distinct(scene.layers)
    PROVE  /\ IsCompositor(Painter!Render(c, scene, win))
           /\ Painter!Canvas(Painter!Render(c, scene, win)) = Picture(scene)
<1> DEFINE ls    == scene.layers
           keep  == Painter!Ids(ls) \cup ({scene.activeStrokeLayer} \ {Painter!NoLayer})
           begun == Painter!BeginFrame(Painter!Resize(c, win), keep)
<1>1. Painter!Render(c, scene, win) = Blended(Painted(begun, ls), scene, ls)
  BY Zenon DEF Painter!Render, Blended, Painted, PaintLayer
<1>2. Picture(scene) = PictureOf(scene, ls)
  BY Zenon DEF Picture, PictureOf, Seen
<1>3. \A p \in 1 .. Len(ls) : ls[p].id \in keep
  <2>1. DOMAIN ls = 1 .. Len(ls)
    BY LenProperties
  <2>. QED
    BY <2>1 DEF Painter!Ids
<1> HIDE DEF keep
<1>4. /\ IsCompositor(begun) /\ DOMAIN begun.substrates = keep
      /\ \A id \in keep : Laid(begun, id) = << >>
      /\ Painter!Face(begun.composite) = << >>
  BY FrameBegun
<1> HIDE DEF begun, ls
<1>5. PaintedTo(begun, ls, 0)
  <2>1. \A p \in 1 .. Len(ls) : ~ (p <= 0)
    OBVIOUS
  <2>. QED
    BY <1>3, <1>4, <2>1 DEF PaintedTo
<1> DEFINE mid == Painted(begun, ls)
<1>6. ls \in Seq(InkLayer) /\ Distinct(ls)
  BY DEF ls
<1>7. PaintedTo(mid, ls, Len(ls)) /\ Painter!Face(mid.composite) = << >>
  BY <1>4, <1>5, <1>6, LayersPainted
<1> HIDE DEF mid
<1>8. /\ IsCompositor(Blended(mid, scene, ls))
      /\ Painter!Face(Blended(mid, scene, ls).composite) = PictureOf(scene, ls)
  BY <1>6, <1>7, LayersBlended
<1>. QED
  BY <1>1, <1>2, <1>8 DEF mid, Painter!Canvas
\* What is proved of Engine, for the engine that Frontend implements.
Proved == INSTANCE EngineProofs WITH
    MaxStrokes <- MaxSends, MaxLayers <- MaxSends + 1,
    MaxSamples <- MaxSends, MaxHistory <- MaxSends,
    layers <- Each(PlainLayer, state.layers), activeLayer <- state.activeLayer,
    active <- Plain(state.active), activeStrokeLayer <- state.activeStrokeLayer,
    past <- Each(PlainEdit, state.past), future <- Each(PlainEdit, state.future),
    nextStrokeId <- Begun, nextLayerId <- state.nextLayerId, panicked <- FALSE


(***************************************************************************)
(* What is proved of the engine holds of the engine implemented here.      *)
(***************************************************************************)
LEMMA InstanceAssumptions ==
    Proved!UpdateIndexesAssumption /\ Proved!DefaultPropsAssumption /\ Proved!BoundsAssumption
BY UpdateIndexesAssumption, DefaultPropsAssumption, SendsAssumption
   DEF Proved!UpdateIndexesAssumption, Proved!DefaultPropsAssumption, Proved!BoundsAssumption

LEMMA SameVars ==
    /\ Implemented!vars = Proved!vars /\ Implemented!ids = Proved!ids
    /\ Implemented!docVars = Proved!docVars /\ Implemented!history = Proved!history
    /\ Implemented!strokeVars = Proved!strokeVars
BY DEF Implemented!vars, Proved!vars, Implemented!ids, Proved!ids, Implemented!docVars, Proved!docVars,
       Implemented!history, Proved!history, Implemented!strokeVars, Proved!strokeVars

LEMMA ProvedOperators ==
    /\ \A e, l, a : /\ Proved!LayersAfter(e, l) = LayersAfter(e, l)
                    /\ Proved!ActiveLayerAfter(e, l, a) = ActiveLayerAfter(e, l, a)
                    /\ Proved!InverseOf(e, l, a) = InverseOf(e, l, a)
                    /\ Proved!CanApply(e, l) = CanApply(e, l)
    /\ \A s, l : Proved!AddStroke(s, l) = AddStroke(s, l)
    /\ \A l, i, w : Proved!AddLayer(l, i, w) = AddLayer(l, i, w)
    /\ \A i : Proved!RemoveLayer(i) = RemoveLayer(i)
    /\ \A i, k : Proved!MoveLayer(i, k) = MoveLayer(i, k)
    /\ \A i : Proved!NewLayer(i) = NewLayer(i) /\ Proved!FreshSample(i) = FreshSample(i)
    /\ \A q : Proved!Ids(q) = Ids(q) /\ Proved!Last(q) = Last(q) /\ Proved!Front(q) = Front(q)
    /\ \A q, i : Proved!Position(q, i) = Position(q, i)
    /\ Proved!NoStroke = NoStroke /\ Proved!NoLayer = NoLayer
BY DEF Proved!LayersAfter, LayersAfter, Proved!ActiveLayerAfter, ActiveLayerAfter,
       Proved!InverseOf, InverseOf, Proved!CanApply, CanApply,
       Proved!AddStroke, AddStroke, Proved!RemoveStroke, RemoveStroke,
       Proved!AddLayer, AddLayer, Proved!RemoveLayer, RemoveLayer, Proved!MoveLayer, MoveLayer,
       Proved!Ids, Ids, Proved!Position, Position, Proved!AtMost, AtMost,
       Proved!SelectInSeq, SelectInSeq, Proved!InsertAt, InsertAt, Proved!RemoveAt, RemoveAt,
       Proved!Min, Min, Proved!NewLayer, NewLayer, Proved!FreshSample, FreshSample,
       Proved!NoStroke, NoStroke, Proved!NoLayer, NoLayer, Proved!Last, Last, Proved!Front, Front

LEMMA SameCommit == \A e : Implemented!Commit(e) <=> Proved!Commit(e)
BY SameOperators, ProvedOperators DEF Implemented!Commit, Proved!Commit

\* Each arm of the one is the arm of the other.
LEMMA SameArms ==
    /\ \A x : Implemented!BeginStroke(x) <=> Proved!BeginStroke(x)
    /\ \A i, x : Implemented!AddSample(i, x) <=> Proved!AddSample(i, x)
    /\ \A i : Implemented!EndStroke(i) <=> Proved!EndStroke(i)
    /\ \A i : Implemented!CancelStroke(i) <=> Proved!CancelStroke(i)
    /\ Implemented!NewTopLayer <=> Proved!NewTopLayer
    /\ \A i : Implemented!DropLayer(i) <=> Proved!DropLayer(i)
    /\ \A i, k : Implemented!ReorderLayer(i, k) <=> Proved!ReorderLayer(i, k)
    /\ \A i : Implemented!SetActiveLayer(i) <=> Proved!SetActiveLayer(i)
    /\ \A i, x : Implemented!SetLayerProps(i, x) <=> Proved!SetLayerProps(i, x)
    /\ Implemented!Undo <=> Proved!Undo
    /\ Implemented!Redo <=> Proved!Redo
<1>1. \A x : Implemented!BeginStroke(x) <=> Proved!BeginStroke(x)
  BY DEF Implemented!BeginStroke, Proved!BeginStroke, Implemented!ids, Proved!ids, Implemented!docVars, Proved!docVars,
         Implemented!history, Proved!history, Implemented!strokeVars, Proved!strokeVars
<1>2. \A i, x : Implemented!AddSample(i, x) <=> Proved!AddSample(i, x)
  BY SameConstructors, ProvedOperators
     DEF Implemented!AddSample, Proved!AddSample, Implemented!HasActiveStroke, Proved!HasActiveStroke, Implemented!ids, Proved!ids, Implemented!docVars, Proved!docVars,
         Implemented!history, Proved!history, Implemented!strokeVars, Proved!strokeVars
<1>3. \A i : Implemented!EndStroke(i) <=> Proved!EndStroke(i)
  BY SameConstructors, SameOperators, ProvedOperators, SameCommit
     DEF Implemented!EndStroke, Proved!EndStroke, Implemented!HasActiveStroke, Proved!HasActiveStroke,
         Implemented!StrokeTarget, Proved!StrokeTarget, Implemented!ids, Proved!ids, Implemented!docVars, Proved!docVars,
         Implemented!history, Proved!history, Implemented!strokeVars, Proved!strokeVars
<1>4. \A i : Implemented!CancelStroke(i) <=> Proved!CancelStroke(i)
  BY SameConstructors, ProvedOperators
     DEF Implemented!CancelStroke, Proved!CancelStroke, Implemented!HasActiveStroke, Proved!HasActiveStroke, Implemented!ids, Proved!ids, Implemented!docVars, Proved!docVars,
         Implemented!history, Proved!history, Implemented!strokeVars, Proved!strokeVars
<1>5. Implemented!NewTopLayer <=> Proved!NewTopLayer
  BY SameConstructors, ProvedOperators, SameCommit DEF Implemented!NewTopLayer, Proved!NewTopLayer, Implemented!ids, Proved!ids, Implemented!docVars, Proved!docVars,
         Implemented!history, Proved!history, Implemented!strokeVars, Proved!strokeVars
<1>6. \A i : Implemented!DropLayer(i) <=> Proved!DropLayer(i)
  BY SameConstructors, SameOperators, ProvedOperators, SameCommit
     DEF Implemented!DropLayer, Proved!DropLayer, Implemented!HasActiveStroke, Proved!HasActiveStroke, Implemented!ids, Proved!ids, Implemented!docVars, Proved!docVars,
         Implemented!history, Proved!history, Implemented!strokeVars, Proved!strokeVars
<1>7. \A i, k : Implemented!ReorderLayer(i, k) <=> Proved!ReorderLayer(i, k)
  BY SameConstructors, SameOperators, ProvedOperators, SameCommit
     DEF Implemented!ReorderLayer, Proved!ReorderLayer, Implemented!ids, Proved!ids, Implemented!docVars, Proved!docVars,
         Implemented!history, Proved!history, Implemented!strokeVars, Proved!strokeVars
<1>8. \A i : Implemented!SetActiveLayer(i) <=> Proved!SetActiveLayer(i)
  BY SameConstructors, ProvedOperators DEF Implemented!SetActiveLayer, Proved!SetActiveLayer, Implemented!ids, Proved!ids, Implemented!docVars, Proved!docVars,
         Implemented!history, Proved!history, Implemented!strokeVars, Proved!strokeVars
<1>9. \A i, x : Implemented!SetLayerProps(i, x) <=> Proved!SetLayerProps(i, x)
  BY SameConstructors, ProvedOperators DEF Implemented!SetLayerProps, Proved!SetLayerProps, Implemented!ids, Proved!ids, Implemented!docVars, Proved!docVars,
         Implemented!history, Proved!history, Implemented!strokeVars, Proved!strokeVars
<1>10. Implemented!Undo <=> Proved!Undo
  BY SameConstructors, SameOperators, ProvedOperators
     DEF Implemented!Undo, Proved!Undo, Implemented!HasActiveStroke, Proved!HasActiveStroke, Implemented!ids, Proved!ids, Implemented!docVars, Proved!docVars,
         Implemented!history, Proved!history, Implemented!strokeVars, Proved!strokeVars
<1>11. Implemented!Redo <=> Proved!Redo
  BY SameConstructors, SameOperators, ProvedOperators
     DEF Implemented!Redo, Proved!Redo, Implemented!HasActiveStroke, Proved!HasActiveStroke, Implemented!ids, Proved!ids, Implemented!docVars, Proved!docVars,
         Implemented!history, Proved!history, Implemented!strokeVars, Proved!strokeVars
<1>. QED
  BY <1>1, <1>2, <1>3, <1>4, <1>5, <1>6, <1>7, <1>8, <1>9, <1>10, <1>11

LEMMA EngineKnown ==
    ASSUME Types, Proved!HInv
    PROVE  /\ Ids(state.layers) \subseteq 1 .. (state.nextLayerId - 1)
           /\ state.active # NoStroke => state.active.id \in 1 .. (Begun - 1)
           /\ Ready
           /\ \A i, j \in DOMAIN state.layers : state.layers[i].id = state.layers[j].id => i = j
<1>0. state \in EngineState /\ state.layers \in Seq(InkLayer) /\ state.active \in InkStroke \cup {NoStroke}
  BY StateParts DEF Types
<1> DEFINE ls == PlainLayers(state.layers)
<1>1. Each(PlainLayer, state.layers) = ls
  BY <1>0, EachIs
<1>2. /\ Proved!Ids(ls) \subseteq Proved!KnownLayers
      /\ Proved!HasActiveStroke => /\ Plain(state.active).id \in Proved!KnownStrokes
                                   /\ state.activeStrokeLayer \in Proved!Ids(ls)
      /\ Proved!NoDuplicates(ls)
  BY <1>1, InstanceAssumptions, Proved!KnownIds
<1>3. /\ Ids(ls) = Ids(state.layers) /\ Len(ls) = Len(state.layers) /\ ls \in Seq(Layer)
      /\ \A p \in 1 .. Len(state.layers) : ls[p].id = state.layers[p].id
  BY <1>0, PlainLayersAre
<1> HIDE DEF ls
<1>4. state.active # NoStroke => Proved!HasActiveStroke /\ Plain(state.active).id = state.active.id
  BY <1>0, PlainOfNone, ProvedOperators DEF Proved!HasActiveStroke
<1>5. \A i, j \in DOMAIN state.layers : state.layers[i].id = state.layers[j].id => i = j
  <2>1. DOMAIN ls = 1 .. Len(ls) /\ DOMAIN state.layers = 1 .. Len(ls)
    BY <1>0, <1>3, LenProperties
  <2>. QED
    BY <1>2, <1>3, <2>1 DEF Proved!NoDuplicates
<1>. QED
  BY <1>2, <1>3, <1>4, <1>5, ProvedOperators DEF Ready, Targeted, Proved!KnownLayers, Proved!KnownStrokes

(***************************************************************************)
(* A command taken is a step of the engine, or changes nothing of it.      *)
(***************************************************************************)
LEMMA EngineUnchanged ==
    ASSUME Types, Types', Unaffected(state, state'), Begun' = Begun
    PROVE  UNCHANGED Implemented!vars /\ UNCHANGED Proved!vars
<1>1. /\ state'.layers = state.layers /\ state'.activeLayer = state.activeLayer
      /\ state'.active = state.active /\ state'.activeStrokeLayer = state.activeStrokeLayer
      /\ state'.past = state.past /\ state'.future = state.future /\ state'.nextLayerId = state.nextLayerId
  BY DEF Unaffected, SameDocument, SameStroke, SameHistory, SameIdCounter
<1>2. /\ Each(PlainLayer, state.layers)' = Each(PlainLayer, state.layers)
      /\ Each(PlainEdit, state.past)' = Each(PlainEdit, state.past)
      /\ Each(PlainEdit, state.future)' = Each(PlainEdit, state.future)
      /\ Plain(state.active)' = Plain(state.active)
  BY <1>1, Views
<1>. QED
  BY <1>1, <1>2 DEF Implemented!vars, Proved!vars

LEMMA TakenIsEngineStep ==
    ASSUME Types, Types', Numbered, Budget, Proved!HInv, Takes
    PROVE  /\ Implemented!Next \/ UNCHANGED Implemented!vars
           /\ Proved!Next \/ UNCHANGED Proved!vars
<1>0. Ready /\ state \in EngineState /\ state' \in EngineState
  BY EngineKnown DEF Types
<1>1. CASE Head(channel) = Shutdown
  <2>1. channel # << >> /\ channel' = Tail(channel) /\ UNCHANGED <<state, nextStrokeId>>
    BY <1>1 DEF Takes
  <2>2. HowMany(Begins, channel) \in Nat /\ nextStrokeId \in Nat
    BY CountsNext DEF Types, StrokeId
  <2>3. Begun' = Begun
    BY <1>1, <2>1, <2>2, CountsNext, BeginsIs
  <2>4. Unaffected(state, state')
    BY <2>1 DEF Unaffected, SameDocument, SameStroke, SameHistory, SameIdCounter
  <2>. QED
    BY <2>3, <2>4, EngineUnchanged
<1>2. CASE Head(channel) # Shutdown
  <2> DEFINE c == Head(channel)
  <2>1. /\ c \in Command /\ state' = ApplyCommand(c, state)
        /\ c.op = "BeginStroke" => c.id = Begun /\ Begun' = Begun + 1
        /\ c.op # "BeginStroke" => Begun' = Begun
        /\ Len(state.past) < MaxSends /\ state.nextLayerId <= MaxSends + 1 /\ Begun <= MaxSends
        /\ state.active # NoStroke => Len(state.active.samples) < MaxSends
    BY <1>2, Taken
  <2>2. Changes(c, state, state')
    BY <1>0, <2>1, ApplyIs DEF Ready
  <2> HIDE DEF c
  <2>3. /\ \A id \in Ids(state.layers) : id \in Implemented!KnownLayers /\ id \in Proved!KnownLayers
        /\ state.active # NoStroke => state.active.id \in Implemented!KnownStrokes /\ state.active.id \in Proved!KnownStrokes
    BY EngineKnown DEF Implemented!KnownLayers, Proved!KnownLayers, Implemented!KnownStrokes, Proved!KnownStrokes
  <2>4. FreshSample(0) \in Implemented!NewSamples /\ FreshSample(0) \in Proved!NewSamples
    BY SameConstructors, ProvedOperators DEF Implemented!NewSamples, Proved!NewSamples
  <2>5. \A s \in InkStroke : s # NoStroke
    BY PlainOfNone
  <2>6. \A k : CanApply(RemoveLayer(c.id), state.layers) \/ CanApply(MoveLayer(c.id, k), state.layers)
                   => c.id \in Ids(state.layers)
    BY DEF CanApply, RemoveLayer, MoveLayer
  <2>7. \/ Implemented!Record \/ Implemented!DrawOrSet \/ Implemented!Undo \/ Implemented!Redo => Implemented!Next
    BY DEF Implemented!Next
  <2>8. \/ Proved!Record \/ Proved!DrawOrSet \/ Proved!Undo \/ Proved!Redo => Proved!Next
    BY DEF Proved!Next
  <2>10. CASE Began(c, state, state')
    <3>1. Implemented!BeginStroke(FreshSample(0))
      BY <2>1, <2>10, BeginStrokeStep DEF Began
    <3>. QED
      BY <2>4, <2>7, <2>8, <3>1, SameArms DEF Implemented!DrawOrSet, Proved!DrawOrSet
  <2>11. ASSUME c.op # "BeginStroke" PROVE /\ Implemented!Next \/ UNCHANGED Implemented!vars
                                           /\ Proved!Next \/ UNCHANGED Proved!vars
    <3>0. Begun' = Begun
      BY <2>1, <2>11
    <3>1. CASE Unaffected(state, state')
      BY <3>0, <3>1, EngineUnchanged
    <3>2. CASE Sampled(state, state')
      <4>1. state.active # NoStroke
        BY <2>5, <3>2 DEF Sampled
      <4>2. Implemented!AddSample(state.active.id, FreshSample(0))
        BY <2>1, <3>0, <3>2, <4>1, AddSampleStep
      <4>. QED
        BY <2>3, <2>4, <2>7, <2>8, <4>1, <4>2, SameArms DEF Implemented!DrawOrSet, Proved!DrawOrSet
    <3>3. CASE Ended(state, state')
      <4>1. state.active # NoStroke
        BY <2>5, <3>3 DEF Ended
      <4>2. Implemented!EndStroke(state.active.id)
        BY <2>1, <3>0, <3>3, EndStrokeStep
      <4>. QED
        BY <2>3, <2>7, <2>8, <4>1, <4>2, SameArms DEF Implemented!Record, Proved!Record
    <3>4. CASE Cancelled(state, state')
      <4>1. state.active # NoStroke
        BY <2>5, <3>4 DEF Cancelled
      <4>2. Implemented!CancelStroke(state.active.id)
        BY <3>0, <3>4, CancelStrokeStep
      <4>. QED
        BY <2>3, <2>7, <2>8, <4>1, <4>2, SameArms DEF Implemented!DrawOrSet, Proved!DrawOrSet
    <3>5. CASE ToppedUp(state, state')
      <4>1. Implemented!NewTopLayer
        BY <2>1, <3>0, <3>5, NewTopLayerStep
      <4>. QED
        BY <2>7, <2>8, <4>1, SameArms DEF Implemented!Record, Proved!Record
    <3>6. CASE Dropped(c, state, state')
      <4>1. Implemented!DropLayer(c.id)
        BY <2>1, <3>0, <3>6, DropLayerStep
      <4>2. c.id \in Ids(state.layers)
        BY <2>6, <3>6 DEF Dropped, Committed
      <4>. QED
        BY <2>3, <2>7, <2>8, <4>1, <4>2, SameArms DEF Implemented!Record, Proved!Record
    <3>7. CASE Reordered(c, state, state')
      <4>1. \E index \in 1 .. Len(Each(PlainLayer, state.layers)) + 1 : Implemented!ReorderLayer(c.id, index)
        BY <2>1, <3>0, <3>7, ReorderLayerStep
      <4>2. c.id \in Ids(state.layers)
        BY <2>6, <3>7 DEF Reordered, Committed
      <4>. QED
        BY <2>3, <2>7, <2>8, <4>1, <4>2, SameArms DEF Implemented!Record, Proved!Record
    <3>8. CASE Chosen(c, state, state')
      <4>1. Implemented!SetActiveLayer(c.id) /\ c.id \in Ids(state.layers)
        BY <3>0, <3>8, SetActiveLayerStep DEF Chosen
      <4>. QED
        BY <2>3, <2>7, <2>8, <4>1, SameArms DEF Implemented!DrawOrSet, Proved!DrawOrSet
    <3>9. CASE Exposed(c, state, state')
      <4>1. \E props \in LayerProps : Implemented!SetLayerProps(c.id, props)
        BY <3>0, <3>9, SetLayerPropsStep
      <4>2. c.id \in Ids(state.layers)
        BY <3>9 DEF Exposed
      <4>. QED
        BY <2>3, <2>7, <2>8, <4>1, <4>2, SameArms DEF Implemented!DrawOrSet, Proved!DrawOrSet
    <3>10. CASE Undone(state, state')
      BY <2>7, <2>8, <3>0, <3>10, UndoStep, SameArms
    <3>11. CASE Redone(state, state')
      BY <2>7, <2>8, <3>0, <3>11, RedoStep, SameArms
    <3>12. CASE Began(c, state, state')
      BY <2>11, <3>12 DEF Began
    <3>. QED
      BY <2>2, <3>1, <3>2, <3>3, <3>4, <3>5, <3>6, <3>7, <3>8, <3>9, <3>10, <3>11, <3>12 DEF Changes
  <2>12. CASE c.op = "BeginStroke"
    <3>1. c.id \in StrokeId /\ c.value \in Brush
      BY <2>1, <2>12, CommandVariants
    <3>2. Began(c, state, state')
      BY <1>0, <2>1, <2>12, <3>1, BeginStrokeIs DEF Began, SameDocument, SameHistory, SameIdCounter
    <3>. QED
      BY <2>10, <3>2
  <2>. QED
    BY <2>11, <2>12
<1>. QED
  BY <1>1, <1>2

\* Only the thread's taking of a command touches the engine.
LEMMA IsEngineStep ==
    ASSUME Types, Types', Numbered, Budget, Proved!HInv,
           PostsOther \/ PostsBegin \/ Idles \/ Drops \/ Joins \/ Takes \/ Wraps
    PROVE  /\ Implemented!Next \/ UNCHANGED Implemented!vars
           /\ Proved!Next \/ UNCHANGED Proved!vars
<1>1. CASE Takes
  BY <1>1, TakenIsEngineStep
<1>2. CASE ~Takes
  <2>0. HowMany(Begins, channel) \in Nat /\ nextStrokeId \in Nat
        /\ Begun = nextStrokeId - HowMany(Begins, channel) /\ nextStrokeId' \in Nat
    BY CountsNext DEF Types, StrokeId
  <2>1. Begun' = Begun
    <3>1. CASE PostsOther
      <4>1. PICK cmd \in Command : cmd.op # "BeginStroke" /\ Posts(cmd) /\ UNCHANGED nextStrokeId
        BY <3>1 DEF PostsOther
      <4>2. cmd \in Entry /\ cmd \notin Begins /\ channel' = Append(channel, cmd)
        BY <4>1, BeginsIs DEF Posts
      <4>. QED
        BY <2>0, <4>1, <4>2, CountsNext
    <3>2. CASE PostsBegin
      <4> DEFINE c == Begin(nextStrokeId, snapshot.brush)
      <4>1. c \in Command /\ Posts(c) /\ nextStrokeId' = nextStrokeId + 1 /\ c.op = "BeginStroke"
        BY <3>2 DEF PostsBegin, Begin, SetOn
      <4> HIDE DEF c
      <4>2. c \in Entry /\ c \in Begins /\ channel' = Append(channel, c)
        BY <4>1, BeginsIs DEF Posts
      <4>. QED
        BY <2>0, <4>1, <4>2, CountsNext
    <3>3. CASE Drops
      <4>1. Shutdown \in Entry /\ Shutdown \notin Begins /\ channel' = Append(channel, Shutdown) /\ UNCHANGED nextStrokeId
        BY <3>3, BeginsIs DEF Drops
      <4>. QED
        BY <2>0, <4>1, CountsNext
    <3>4. CASE Idles \/ Joins \/ Wraps
      BY <3>4, CountsNext DEF Idles, Joins, Wraps
    <3>. QED
      BY <1>2, <3>1, <3>2, <3>3, <3>4
  <2>2. UNCHANGED state
    BY <1>2 DEF PostsOther, PostsBegin, Posts, Idles, Drops, Joins, Wraps
  <2>3. Unaffected(state, state')
    BY <2>2 DEF Unaffected, SameDocument, SameStroke, SameHistory, SameIdCounter
  <2>. QED
    BY <2>1, <2>3, EngineUnchanged
<1>. QED
  BY <1>1, <1>2

(***************************************************************************)
(* The inductive invariant.                                                *)
(***************************************************************************)

\* The engine's own invariant (HInv of EngineProofs) is part of it: it keeps
\* the layer of the stroke in flight, which the types of a snapshot rest on,
\* and it holds the ids of what is drawn and shown below the counters.
FInv == Types /\ Numbered /\ Budget /\ Proved!HInv

LEMMA InitEngine == Init => Implemented!Init /\ Proved!Init
<1> SUFFICES ASSUME Init PROVE Implemented!Init /\ Proved!Init
  OBVIOUS
<1>1. state = NewEngine /\ channel = << >> /\ nextStrokeId = 1
  BY DEF Init, Thread!Init
<1>2. Plain(NoStroke) = NoStroke
  BY PlainOfNone
<1>3. Each(PlainLayer, <<NewLayer(1)>>) = <<NewLayer(1)>>
  <2>1. PlainLayer(NewLayer(1)) = NewLayer(1)
    BY DEF PlainLayer, NewLayer
  <2>. QED
    BY <2>1 DEF Each
<1>4. Each(PlainEdit, << >>) = << >>
  BY DEF Each
<1>5. Begun = 1
  <2>1. {i \in DOMAIN << >> : << >>[i].op = "BeginStroke"} = {}
    OBVIOUS
  <2>2. Cardinality({}) = 0
    BY FS_EmptySet
  <2>. QED
    BY <1>1, <2>1, <2>2 DEF Begun
<1>6. /\ state.layers = <<NewLayer(1)>> /\ state.activeLayer = 1 /\ state.active = NoStroke
      /\ state.activeStrokeLayer = NoLayer /\ state.past = << >> /\ state.future = << >> /\ state.nextLayerId = 2
  BY <1>1 DEF NewEngine
<1>7. /\ Each(PlainLayer, state.layers) = <<NewLayer(1)>> /\ Each(PlainEdit, state.past) = << >>
      /\ Each(PlainEdit, state.future) = << >> /\ Plain(state.active) = NoStroke
  BY <1>2, <1>3, <1>4, <1>6
<1>. QED
  BY <1>5, <1>6, <1>7, SameConstructors, ProvedOperators DEF Implemented!Init, Proved!Init

LEMMA InitFInv == Init => FInv
<1> SUFFICES ASSUME Init PROVE FInv
  OBVIOUS
<1>1. Types
  BY TypesInit
<1>2. Proved!HInv
  BY InitEngine, InstanceAssumptions, Proved!InitHInv
<1>3. /\ state = NewEngine /\ channel = << >> /\ nextStrokeId = 1 /\ sends = 0
  BY DEF Init, Thread!Init
<1>4. Len(channel) = 0 /\ channel \in Seq(Entry)
  BY <1>3, EmptySeq
<1>5. Numbered
  BY <1>4 DEF Numbered
<1>6. HowMany(Begins, channel) = 0 /\ Pending = 0
  <2>1. \A S : {i \in DOMAIN channel : channel[i] \in S} = {}
    BY <1>3
  <2>. QED
    BY <2>1, FS_EmptySet DEF HowMany, Pending
<1>7. Begun = 1
  <2>1. Begun = nextStrokeId - HowMany(Begins, channel)
    BY <1>4, BeginsAre DEF Begun
  <2>. QED
    BY <1>3, <1>6, <2>1
<1>8. Len(state.past) = 0 /\ state.nextLayerId = 2 /\ state.active = NoStroke
  BY <1>3 DEF NewEngine
<1>9. Budget
  BY <1>3, <1>6, <1>7, <1>8 DEF Budget, StrokeId
<1>. QED
  BY <1>1, <1>2, <1>5, <1>9 DEF FInv

\* A step keeps the invariant, and is a step of the engine or none.
LEMMA NextFInv ==
    FInv /\ [Next]_vars => FInv' /\ [Implemented!Next]_(Implemented!vars) /\ [Proved!Next]_(Proved!vars)
<1> SUFFICES ASSUME FInv, [Next]_vars
             PROVE  FInv' /\ [Implemented!Next]_(Implemented!vars) /\ [Proved!Next]_(Proved!vars)
  OBVIOUS
<1>0. Types /\ Numbered /\ Budget /\ Proved!HInv /\ Ready
  BY EngineKnown DEF FInv
<1>1. Types'
  BY <1>0, TypesNext
<1>2. PostsOther \/ PostsBegin \/ Idles \/ Drops \/ Joins \/ Takes \/ Wraps
  <2>1. CASE Next
    BY <1>0, <2>1, NextKinds
  <2>2. CASE UNCHANGED vars
    BY <2>2 DEF vars, engineVars, inputVars, Idles
  <2>. QED
    BY <2>1, <2>2
<1>3. Numbered' /\ Budget'
  BY <1>0, <1>1, <1>2, NumberedNext, BudgetNext
<1>4. /\ Implemented!Next \/ UNCHANGED Implemented!vars
      /\ Proved!Next \/ UNCHANGED Proved!vars
  BY <1>0, <1>1, <1>2, IsEngineStep
<1>5. Proved!HInv'
  BY <1>0, <1>4, InstanceAssumptions, Proved!NextHInv
<1>. QED
  BY <1>1, <1>3, <1>4, <1>5 DEF FInv

\* What is proved of the application rests on it: every command is of its type,
\* the strokes in the channel continue the ids of those begun, no more is done
\* than was sent, and the engine's invariant holds of the state.
THEOREM FrontendInvariant == Spec => []FInv
BY InitFInv, NextFInv, PTL DEF Spec

\* Whatever the user does and however the threads interleave, the commands
\* the actor applies are steps of the engine of Engine.tla: the stroke it is
\* told to begin has the next id, and what names a stroke or a layer that is
\* gone, or comes while a stroke is in flight, changes nothing.
THEOREM FrontendImplementsEngine == Spec => ImplementsEngine
<1>1. Init => Implemented!Init
  BY InitEngine
<1>2. FInv /\ [Next]_vars => [Implemented!Next]_(Implemented!vars)
  BY NextFInv
<1>3. Spec => Implemented!Init /\ [][Implemented!Next]_(Implemented!vars)
  BY <1>1, <1>2, FrontendInvariant, PTL DEF Spec
<1>. QED
  BY <1>3 DEF ImplementsEngine, Implemented!Spec

\* So what is proved of the engine holds inside the application, with the
\* strokes, clicks and keys of its user for the engine's arbitrary commands:
\* what Undo and Redo pop applies, no layer id and no stroke is in the document
\* twice, and the layers that strokes go to exist.
THEOREM ApplicationKeepsHistory ==
    Spec => [](/\ Proved!HistoryApplies /\ Proved!LayerIdsUnique /\ Proved!NoStrokeTwice
               /\ Proved!ActiveLayerExists /\ Proved!StrokeTargetExists)
<1>1. Init => Proved!Init
  BY InitEngine
<1>2. FInv /\ [Next]_vars => [Proved!Next]_(Proved!vars)
  BY NextFInv
<1>3. Spec => Proved!Init /\ [][Proved!Next]_(Proved!vars)
  BY <1>1, <1>2, FrontendInvariant, PTL DEF Spec
<1>4. Spec => Proved!Spec
  BY <1>3 DEF Proved!Spec
<1>5. /\ Proved!Spec => []Proved!HistoryApplies
      /\ Proved!Spec => []Proved!LayerIdsUnique
      /\ Proved!Spec => []Proved!NoStrokeTwice
  BY InstanceAssumptions, Proved!HistoryAlwaysApplies, Proved!LayerIdsStayUnique, Proved!StrokesStayUnique
<1>6. /\ Proved!Spec => []Proved!ActiveLayerExists
      /\ Proved!Spec => []Proved!StrokeTargetExists
  BY InstanceAssumptions, Proved!ActiveLayerAlwaysExists, Proved!StrokeTargetAlwaysExists
<1>. QED
  BY <1>4, <1>5, <1>6, PTL

(***************************************************************************)
(* What is computed from the snapshot.                                     *)
(***************************************************************************)
\* A command sent into an empty channel while the thread waits.
LEMMA SentFromBrush ==
    ASSUME Types, Next, channel = << >>, pc = "recv", channel' # << >>
    PROVE  LET cmd == Last(channel')
           IN  /\ cmd.op = "BeginStroke" => cmd.value = state.brush
               /\ cmd.op = "SetBrushMaxWidth" /\ UNCHANGED click =>
                     cmd.value \in {state.brush.width - 1, state.brush.width + 1}
<1> DEFINE Right(cmd) ==
               /\ cmd.op = "BeginStroke" => cmd.value = state.brush
               /\ cmd.op = "SetBrushMaxWidth" /\ UNCHANGED click =>
                     cmd.value \in {state.brush.width - 1, state.brush.width + 1}
<1>1. \A cmd : channel' = Append(channel, cmd) => Last(channel') = cmd
  BY DEF Last
<1>2. snapshot.brush = state.brush /\ snapshot \in Published
  BY DEF Types, WaitingShowsBrush
<1>3. ASSUME NEW cmd, channel' = Append(channel, cmd), Right(cmd) PROVE Right(Last(channel'))
  BY <1>1, <1>3
<1>4. CASE \E key \in Keys : Key(key)
  <2>1. PICK key \in Keys : \E cmd \in KeyCommands(key, snapshot) : channel' = Append(channel, cmd)
    BY <1>4 DEF Key, Send, Thread!Send
  <2>2. PICK cmd \in KeyCommands(key, snapshot) : channel' = Append(channel, cmd)
    BY <2>1
  <2>3. Right(cmd)
    BY <1>2, <2>2, KeyTyped
  <2>. QED
    BY <1>3, <2>2, <2>3
<1>5. CASE Down \/ Move \/ Finish("EndStroke") \/ Finish("CancelStroke")
  <2>1. PICK cmd : /\ channel' = Append(channel, cmd)
                   /\ \/ cmd = Begin(nextStrokeId, snapshot.brush)
                      \/ \E op \in {"AddSample", "EndStroke", "CancelStroke"} : cmd = On(op, drawing)
    BY <1>5 DEF Down, Move, Finish, Send, Thread!Send
  <2>2. Right(cmd)
    BY <1>2, <2>1 DEF Begin, On, SetOn
  <2>. QED
    BY <1>3, <2>1, <2>2
<1>6. CASE Close
  BY <1>3, <1>6 DEF Close, Thread!Drop, Do
<1>7. CASE Frame
  <2>1. click' = NoClick
    BY <1>7 DEF Frame, Render
  <2>2. PICK cmd \in ClickCommands(click, snapshot) : channel' = Append(channel, cmd)
    BY <1>7 DEF Frame, Render, Thread!Send, engineVars
  <2>3. click # NoClick /\ cmd.op # "BeginStroke"
    BY <1>2, <2>2, ClickTyped
  <2>4. Right(cmd)
    BY <2>1, <2>3
  <2>. QED
    BY <1>3, <2>2, <2>4
<1>8. CASE (\E widget \in Widgets : Click(widget)) \/ Zoom \/ \E new \in Sizes : Resized(new)
  BY <1>8 DEF Click, Zoom, Resized, engineVars
<1>9. CASE Engine
  BY <1>9 DEF Engine, Thread!Join, Thread!ActorStep, Thread!Recv, Thread!Drain, Thread!Drained,
              Thread!Publish, Thread!Take
<1>. QED
  BY <1>4, <1>5, <1>6, <1>7, <1>8, <1>9 DEF Next, Input

\* When no command is in flight, what is computed from the snapshot is right:
\* a stroke is stamped with the live brush and a width key steps from it.
THEOREM SnapshotStaleOnlyInFlight == Spec => StaleOnlyInFlight
<1>1. FInv => Types
  BY DEF FInv
<1> DEFINE Right == channel = << >> /\ pc = "recv" /\ channel' # << >> =>
                        LET cmd == Last(channel')
                        IN  /\ cmd.op = "BeginStroke" => cmd.value = state.brush
                            /\ cmd.op = "SetBrushMaxWidth" /\ UNCHANGED click =>
                                  cmd.value \in {state.brush.width - 1, state.brush.width + 1}
<1>2. Types /\ [Next]_vars => [Right]_vars
  BY SentFromBrush
<1>3. Spec => [][Right]_vars
  BY <1>1, <1>2, FrontendInvariant, PTL DEF Spec
<1>. QED
  BY <1>3 DEF StaleOnlyInFlight

\* A step brings no mark but that of the stroke it begins.
LEMMA StampsNext ==
    ASSUME Ready, Types', Shows,
           PostsOther \/ PostsBegin \/ Idles \/ Drops \/ Joins \/ Takes \/ Wraps
    PROVE  \/ Stamps' \subseteq Stamps /\ nextStrokeId' = nextStrokeId
           \/ Stamps' \subseteq Stamps \cup {<<nextStrokeId, snapshot.brush>>} /\ nextStrokeId' = nextStrokeId + 1
<1> DEFINE new == <<nextStrokeId, snapshot.brush>>
<1>0. Types /\ state \in EngineState /\ state' \in EngineState /\ channel \in Seq(Entry)
  BY DEF Ready, Types, Entry
<1>1. /\ Stamps = Marks(Held(state)) \cup MarkOf(snapshot) \cup MarkOf(shown) \cup Sent(channel)
      /\ Stamps' = Marks(Held(state')) \cup MarkOf(snapshot') \cup MarkOf(shown') \cup Sent(channel')
  BY StampsAre
<1>2. MarkOf(shown') \subseteq MarkOf(shown) \cup MarkOf(snapshot)
  BY DEF Shows
<1>3. CASE PostsOther
  <2>1. PICK c \in Command : c.op # "BeginStroke" /\ Posts(c) /\ UNCHANGED nextStrokeId
    BY <1>3 DEF PostsOther
  <2>2. channel' = Append(channel, c) /\ UNCHANGED <<state, snapshot>> /\ c \in Entry
    BY <2>1, BeginsIs DEF Posts
  <2>3. Sent(channel') \subseteq Sent(channel)
    BY <1>0, <2>1, <2>2, SentAppend
  <2>. QED
    BY <1>1, <1>2, <2>1, <2>2, <2>3
<1>4. CASE PostsBegin
  <2> DEFINE c == Begin(nextStrokeId, snapshot.brush)
  <2>1. channel' = Append(channel, c) /\ UNCHANGED <<state, snapshot>> /\ c \in Entry /\ nextStrokeId' = nextStrokeId + 1
    BY <1>4, BeginsIs DEF PostsBegin, Posts
  <2>2. Mark(c) = new /\ c.op = "BeginStroke"
    BY DEF Mark, Begin, SetOn
  <2> HIDE DEF c, new
  <2>3. Sent(channel') \subseteq Sent(channel) \cup {new}
    BY <1>0, <2>1, <2>2, SentAppend
  <2>4. Stamps' \subseteq Stamps \cup {new}
    BY <1>1, <1>2, <2>1, <2>3
  <2>. QED
    BY <2>1, <2>4 DEF new
<1>5. CASE Idles \/ Joins
  <2>1. UNCHANGED <<channel, state, snapshot, nextStrokeId>>
    BY <1>5 DEF Idles, Joins
  <2>. QED
    BY <1>1, <1>2, <2>1
<1>6. CASE Drops
  <2>1. channel' = Append(channel, Shutdown) /\ UNCHANGED <<state, snapshot, nextStrokeId>>
    BY <1>6 DEF Drops
  <2>2. Shutdown \in Entry /\ Shutdown.op # "BeginStroke"
    BY BeginsIs DEF Shutdown, Do
  <2>3. Sent(channel') \subseteq Sent(channel)
    BY <1>0, <2>1, <2>2, SentAppend
  <2>. QED
    BY <1>1, <1>2, <2>1, <2>3
<1>7. CASE Takes
  <2> DEFINE c == Head(channel)
  <2>1. channel # << >> /\ channel' = Tail(channel) /\ UNCHANGED <<snapshot, nextStrokeId>>
    BY <1>7 DEF Takes
  <2>2. Sent(channel') \subseteq Sent(channel) /\ (c.op = "BeginStroke" => Mark(c) \in Sent(channel))
    BY <1>0, <2>1, SentTail
  <2>3. Marks(Held(state')) \subseteq Marks(Held(state)) \cup Sent(channel)
    <3>1. CASE c = Shutdown
      <4>1. state' = state
        BY <1>7, <3>1 DEF Takes
      <4>. QED
        BY <4>1
    <3>2. CASE c # Shutdown
      <4>1. state' = ApplyCommand(c, state)
        BY <1>7, <3>2 DEF Takes
      <4>2. c \in Command
        BY <1>0, <2>1, <3>2, HeadTail DEF Entry
      <4>3. Changes(c, state, state')
        BY <1>0, <4>1, <4>2, ApplyIs DEF Ready
      <4> HIDE DEF c
      <4>4. \/ Marks(Held(state')) \subseteq Marks(Held(state))
            \/ c.op = "BeginStroke" /\ Marks(Held(state')) \subseteq Marks(Held(state)) \cup {Mark(c)}
        BY <1>0, <4>3, HeldChanges
      <4>. QED
        BY <2>2, <4>4
    <3>. QED
      BY <3>1, <3>2
  <2>. QED
    BY <1>1, <1>2, <2>1, <2>2, <2>3
<1>8. CASE Wraps
  <2>1. UNCHANGED <<channel, state, nextStrokeId>> /\ (snapshot' = snapshot \/ snapshot' = SnapshotOf(state))
    BY <1>8 DEF Wraps
  <2>2. MarkOf(snapshot') \subseteq MarkOf(snapshot) \cup Marks(Held(state))
    BY <1>0, <2>1, SceneHeld
  <2>. QED
    BY <1>1, <1>2, <2>1, <2>2
<1>. QED
  BY <1>3, <1>4, <1>5, <1>6, <1>7, <1>8

\* With it goes what makes the next stamp a new one: its id was given to none.
Frozen == BrushIsFrozen /\ \A a \in Stamps : a[1] \in 1 .. (nextStrokeId - 1)

LEMMA InitFrozen == Init => Frozen
<1> SUFFICES ASSUME Init PROVE Frozen
  OBVIOUS
<1>1. /\ state = NewEngine /\ channel = << >> /\ shown = DefaultSnapshot /\ snapshot = SnapshotOf(NewEngine)
      \/ /\ state = NewEngine /\ channel = << >> /\ shown = DefaultSnapshot /\ snapshot = DefaultSnapshot
  BY DEF Init, Thread!Init
<1>2. Types
  BY TypesInit
<1>3. Held(state) = {}
  <2>1. StrokesOf(<<NewLayer(1)>>) = {}
    BY DEF StrokesOf, NewLayer
  <2>. QED
    BY <1>1, <2>1, KeptNone DEF Held, NewEngine
<1>4. Marks({}) = {} /\ Sent(<< >>) = {}
  BY DEF Marks, Sent
<1>5. MarkOf(DefaultSnapshot) = {}
  <2>1. DefaultSnapshot.scene.layers = << >>
    BY DEF DefaultSnapshot
  <2>2. StrokesOf(<< >>) = {}
    BY DEF StrokesOf
  <2>. QED
    BY <1>4, <2>1, <2>2 DEF MarkOf
<1>6. MarkOf(SnapshotOf(NewEngine)) = {}
  <2>1. NewEngine \in EngineState
    BY <1>1, <1>2 DEF Types
  <2>2. MarkOf(SnapshotOf(NewEngine)) \subseteq Marks(Held(NewEngine))
    BY <2>1, SceneHeld
  <2>. QED
    BY <1>1, <1>3, <1>4, <2>2
<1>7. Stamps = {}
  BY <1>1, <1>3, <1>4, <1>5, <1>6, StampsAre
<1>. QED
  BY <1>7 DEF Frozen, BrushIsFrozen

LEMMA NextFrozen == FInv /\ FInv' /\ Frozen /\ [Next]_vars => Frozen'
<1> SUFFICES ASSUME FInv, FInv', Frozen, [Next]_vars PROVE Frozen'
  OBVIOUS
<1>0. Ready /\ Types /\ Types' /\ nextStrokeId \in Nat \ {0}
  BY EngineKnown DEF FInv, Types, StrokeId
<1> DEFINE new == <<nextStrokeId, snapshot.brush>>
<1>1. \/ Stamps' \subseteq Stamps /\ nextStrokeId' = nextStrokeId
      \/ Stamps' \subseteq Stamps \cup {new} /\ nextStrokeId' = nextStrokeId + 1
  <2>1. CASE Next
    BY <1>0, <2>1, NextKinds, StampsNext
  <2>2. CASE UNCHANGED vars
    <3>1. Idles /\ Shows
      BY <2>2 DEF vars, engineVars, inputVars, frameVars, Idles, Shows
    <3>. QED
      BY <1>0, <3>1, StampsNext
  <2>. QED
    BY <2>1, <2>2
<1>2. /\ \A a, b \in Stamps : a[1] = b[1] => a = b
      /\ \A a \in Stamps : a[1] \in 1 .. (nextStrokeId - 1)
  BY DEF Frozen, BrushIsFrozen
<1>3. new[1] = nextStrokeId
  OBVIOUS
<1> HIDE DEF new
<1>4. SUFFICES /\ \A a, b \in Stamps' : a[1] = b[1] => a = b
               /\ \A a \in Stamps' : a[1] \in 1 .. (nextStrokeId' - 1)
  BY DEF Frozen, BrushIsFrozen
<1> DEFINE S == Stamps
           T == Stamps'
           n == nextStrokeId
           m == nextStrokeId'
<1>5. /\ (T \subseteq S /\ m = n) \/ (T \subseteq S \cup {new} /\ m = n + 1)
      /\ n \in Nat \ {0} /\ new[1] = n
      /\ \A a, b \in S : a[1] = b[1] => a = b
      /\ \A a \in S : a[1] \in 1 .. (n - 1)
  BY <1>0, <1>1, <1>2, <1>3
<1> HIDE DEF S, T, n, m
<1>6. \A a \in T : a[1] \in 1 .. (m - 1)
  BY <1>5
<1>7. ASSUME NEW a \in T, NEW b \in T, a[1] = b[1] PROVE a = b
  BY <1>5, <1>7
<1>. QED
  BY <1>6, <1>7 DEF T, m

\* Wherever a stroke is, in the channel, the document, the undo history or on
\* the screen, its brush is the one it was begun with: no two strokes, nor two
\* copies of one, share an id and differ in the brush.
THEOREM StrokesKeepTheirBrush == Spec => []BrushIsFrozen
<1>1. Frozen => BrushIsFrozen
  BY DEF Frozen
<1>. QED
  BY <1>1, InitFrozen, NextFrozen, FrontendInvariant, PTL DEF Spec

LEMMA SceneDistinct ==
    ASSUME NEW s \in EngineState, Distinct(s.layers)
    PROVE  Distinct(SnapshotOf(s).scene.layers)
<1> DEFINE scene == SnapshotOf(s).scene
           e     == AddStroke(s.active, scene.activeStrokeLayer)
           ls    == s.layers
<1>0. ls \in Seq(InkLayer) /\ Len(ls) \in Nat
  BY StateParts, LenProperties
<1>1. \/ scene.layers = ls
      \/ e \in InkEdit /\ CanApply(e, ls) /\ scene.layers = LayersAfter(e, ls)
  BY SceneIs
<1>2. e.op = "AddStroke"
  BY DEF AddStroke
<1> HIDE DEF scene, e, ls
<1>3. CASE scene.layers = ls
  BY <1>3 DEF ls, scene
<1>4. CASE e \in InkEdit /\ CanApply(e, ls) /\ scene.layers = LayersAfter(e, ls)
  <2> DEFINE p  == Position(ls, e.layer)
             ss == Append(ls[p].strokes, e.stroke)
             l  == [ls[p] EXCEPT !.strokes = ss]
             u  == [ls EXCEPT ![p] = l]
  <2>1. p \in 1 .. Len(ls) /\ ss \in Seq(InkStroke) /\ scene.layers = WithStrokes(ls, p, ss)
    BY <1>0, <1>2, <1>4, InkAddStroke
  <2> HIDE DEF p, ss
  <2>2. l \in InkLayer /\ WithStrokes(ls, p, ss) = u
    BY <1>0, <2>1, InkStrokesReplaced
  <2>3. l.id = ls[p].id
    <3>1. ls[p] \in InkLayer
      BY <1>0, <2>1, InkLayerAt
    <3>. QED
      BY <3>1 DEF InkLayer
  <2> HIDE DEF l
  <2>4. Len(u) = Len(ls) /\ \A i \in 1 .. Len(ls) : u[i] = IF i = p THEN l ELSE ls[i]
    BY <1>0, <2>1, <2>2, ExceptSeq
  <2> HIDE DEF u
  <2>5. \A i \in 1 .. Len(ls) : u[i].id = ls[i].id
    BY <2>3, <2>4
  <2>6. Distinct(ls)
    BY DEF ls
  <2>7. Distinct(u)
    BY <2>4, <2>5, <2>6 DEF Distinct
  <2>. QED
    BY <2>1, <2>2, <2>7 DEF scene
<1>. QED
  BY <1>1, <1>3, <1>4

\* A frame paints the snapshot it shows, and the textures are its alone.
LEMMA FrameKinds ==
    ASSUME Next
    PROVE  \/ UNCHANGED <<shown, textures>>
           \/ shown' = snapshot /\ textures' = Painter!Render(textures, snapshot.scene, size)
<1>1. CASE Input
  BY <1>1 DEF Input, Click, Key, Zoom, Down, Move, Finish, Resized, Close, frameVars
<1>2. CASE Frame
  BY <1>2 DEF Frame, Render, frameVars
<1>3. CASE Engine
  BY <1>3 DEF Engine, frameVars
<1>. QED
  BY <1>1, <1>2, <1>3 DEF Next

\* Every texture has two sides and a front, the screen shows the frame's scene,
\* and no two layers of what is painted next share a substrate.
Painting == IsCompositor(textures) /\ PictureIsScene /\ Distinct(snapshot.scene.layers)

LEMMA InitPainting == Init => Painting
<1> SUFFICES ASSUME Init PROVE Painting
  OBVIOUS
<1>1. textures = Painter!NewCompositor(size) /\ shown = DefaultSnapshot
  BY DEF Init
<1>2. IsCompositor(textures) /\ Painter!Canvas(textures) = << >>
  <2> DEFINE n == [size |-> size, substrates |-> << >>, composite |-> Painter!NewPair]
  <2>1. DOMAIN << >> = {} /\ << >> = [id \in DOMAIN << >> |-> << >>[id]]
    OBVIOUS
  <2>2. IsCompositor(n) /\ Painter!Face(n.composite) = << >>
    BY <2>1, ClearedIs DEF IsCompositor
  <2>3. textures = n
    BY <1>1 DEF Painter!NewCompositor
  <2> HIDE DEF n
  <2>. QED
    BY <2>2, <2>3 DEF Painter!Canvas
<1>3. Picture(DefaultSnapshot.scene) = << >>
  <2> DEFINE sc == DefaultSnapshot.scene
             v  == PictureOf(sc, << >>)
  <2>1. sc.layers = << >>
    BY DEF DefaultSnapshot
  <2>2. Picture(sc) = v
    <3> HIDE DEF sc
    <3>1. Picture(sc) = PictureOf(sc, sc.layers)
      BY Zenon DEF Picture, PictureOf, Seen
    <3>. QED
      BY <2>1, <3>1
  <2>3. << >> \in Seq(InkLayer) /\ Len(<< >>) = 0
    BY EmptySeq
  <2> HIDE DEF sc
  <2>4. FoldOf("seen", sc, << >>, << >>, v)
    BY <2>3, SeenFold
  <2> HIDE DEF v
  <2>5. ASSUME NEW below, NEW n \in Nat, NEW q, NEW g, Folded("seen", sc, below, q, n, g) PROVE g[1 .. 0] = below
    <3>1. Steps("seen", sc, below, q, n, g)
      BY <2>5, FoldSteps, Zenon
    <3>. QED
      BY <3>1 DEF Steps
  <2>6. v = << >>
    <3>1. PICK g : Folded("seen", sc, << >>, << >>, 0, g) /\ v = g[1 .. 0]
      BY <2>3, <2>4 DEF FoldOf
    <3>2. 0 \in Nat
      OBVIOUS
    <3>. QED
      BY <2>5, <3>1, <3>2, Zenon
  <2>. QED
    BY <2>2, <2>6 DEF sc
<1>4. Distinct(snapshot.scene.layers)
  <2>1. \/ snapshot = DefaultSnapshot
        \/ snapshot = SnapshotOf(NewEngine) /\ NewEngine \in EngineState
    <3>1. Types /\ state = NewEngine
      BY TypesInit DEF Init, Thread!Init
    <3>. QED
      BY <3>1 DEF Init, Thread!Init, Types
  <2>2. Distinct(DefaultSnapshot.scene.layers)
    BY DEF Distinct, DefaultSnapshot
  <2>3. Distinct(NewEngine.layers)
    BY DEF Distinct, NewEngine
  <2>. QED
    BY <2>1, <2>2, <2>3, SceneDistinct
<1>. QED
  BY <1>1, <1>2, <1>3, <1>4 DEF Painting, PictureIsScene

LEMMA NextPainting == FInv /\ Painting /\ [Next]_vars => Painting'
<1> SUFFICES ASSUME FInv, Painting, [Next]_vars PROVE Painting'
  OBVIOUS
<1>0. Types /\ Ready /\ state \in EngineState /\ snapshot \in Published
  BY EngineKnown DEF FInv, Types
<1>1. IsCompositor(textures) /\ PictureIsScene /\ Distinct(snapshot.scene.layers)
  BY DEF Painting
<1>2. CASE UNCHANGED vars
  <2>1. UNCHANGED <<textures, shown, snapshot>>
    BY <1>2 DEF vars, engineVars, frameVars
  <2>. QED
    BY <1>1, <2>1 DEF Painting, PictureIsScene
<1>3. CASE Next
  <2>1. Distinct(snapshot'.scene.layers)
    <3>1. snapshot' = snapshot \/ snapshot' = SnapshotOf(state)
      BY <1>0, <1>3, NextKinds DEF PostsOther, PostsBegin, Posts, Idles, Drops, Joins, Takes, Wraps
    <3>2. Distinct(state.layers)
      <4>1. DOMAIN state.layers = 1 .. Len(state.layers)
        BY <1>0, StateParts, LenProperties
      <4>2. \A i, j \in DOMAIN state.layers : state.layers[i].id = state.layers[j].id => i = j
        BY <1>0, EngineKnown DEF FInv
      <4>. QED
        BY <4>1, <4>2 DEF Distinct
    <3>. QED
      BY <1>0, <1>1, <3>1, <3>2, SceneDistinct
  <2>2. CASE UNCHANGED <<shown, textures>>
    BY <1>1, <2>1, <2>2 DEF Painting, PictureIsScene
  <2>3. CASE shown' = snapshot /\ textures' = Painter!Render(textures, snapshot.scene, size)
    <3>1. snapshot.scene.layers \in Seq(InkLayer)
      BY <1>0, PublishedParts
    <3>2. IsCompositor(textures') /\ Painter!Canvas(textures') = Picture(snapshot.scene)
      BY <1>1, <2>3, <3>1, RenderShows
    <3>. QED
      BY <2>1, <2>3, <3>2 DEF Painting, PictureIsScene
  <2>. QED
    BY <1>3, <2>2, <2>3, FrameKinds
<1>. QED
  BY <1>2, <1>3

\* Whatever textures are left from earlier frames, sizes and layers, and
\* however many layers and strokes the scene has, a frame presents exactly
\* that scene.
THEOREM FrameIsTheScene == Spec => []PictureIsScene
<1>1. Painting => PictureIsScene
  BY DEF Painting
<1>. QED
  BY <1>1, InitPainting, NextPainting, FrontendInvariant, PTL DEF Spec
=============================================================================
