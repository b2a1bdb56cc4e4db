--------------------------- MODULE DocumentProofs ---------------------------
(***************************************************************************)
(* Lemmas about the document and its edits.                                *)
(***************************************************************************)
EXTENDS Document, SequenceTheorems, WellFoundedInduction, TLAPS

(***************************************************************************)
(* Smallest and largest positions.                                         *)
(***************************************************************************)

\* Min names a least element of a non-empty set of naturals: what the first
\* match of iter().position rests on.
LEMMA MinOfNat ==
    ASSUME NEW T, T \subseteq Nat, T # {}
    PROVE  Min(T) \in T /\ \A y \in T : Min(T) <= y
<1> DEFINE Less == {p \in Nat \X Nat : p[1] < p[2]}
<1>1. OpToRel(<, Nat) = Less
  BY Zenon DEF OpToRel
<1>2. PICK x \in T : \A y \in T : ~(<<y, x>> \in Less)
  BY <1>1, NatLessThanWellFounded, WFMin, Zenon
<1>3. \A y \in T : x <= y
  <2>1. SUFFICES ASSUME NEW y \in T, y < x PROVE FALSE
    BY SMT
  <2>2. <<y, x>> \in Less
    BY <2>1
  <2>. QED
    BY <1>2, <2>2
<1>. QED
  BY <1>3 DEF Min

\* Max names a greatest element of a non-empty set of positions: what the
\* scans from the end (revise_sample, revise_in_stroke) rest on.
LEMMA MaxOfPositions ==
    ASSUME NEW n \in Nat, NEW T, T \subseteq 1..n, T # {}
    PROVE  Max(T) \in T /\ \A y \in T : y <= Max(T)
<1> DEFINE U == {n - x : x \in T}
<1>1. U \subseteq Nat /\ U # {}
  <2>1. \A x \in T : x \in Int /\ n - x \in Nat
    BY SMT
  <2>. QED
    BY <2>1
<1>2. PICK u \in U : \A y \in U : u <= y
  BY <1>1, MinOfNat
<1>3. PICK m \in T : u = n - m
  BY <1>2
<1>4. \A y \in T : m >= y
  <2>1. SUFFICES ASSUME NEW y \in T PROVE m >= y
    OBVIOUS
  <2>2. n - m <= n - y
    BY <1>2, <1>3
  <2>. QED
    BY <2>2
<1>. QED
  BY <1>4 DEF Max

\* Position finds the first element with the id, and finds one if there is one.
LEMMA PositionFound ==
    ASSUME NEW S, NEW seq \in Seq(S), NEW id, id \in Ids(seq)
    PROVE  /\ Position(seq, id) \in 1..Len(seq)
           /\ seq[Position(seq, id)].id = id
           /\ \A i \in 1..Len(seq) : seq[i].id = id => Position(seq, id) <= i
<1> DEFINE I == {i \in 1..Len(seq) : seq[i].id = id}
<1>1. I # {} /\ I \subseteq Nat
  BY DEF Ids
<1>2. Position(seq, id) = Min(I)
  BY <1>1 DEF Position, SelectInSeq
<1>. QED
  BY <1>1, <1>2, MinOfNat

(***************************************************************************)
(* Vec::insert and Vec::remove.                                            *)
(***************************************************************************)

LEMMA InsertAtProperties ==
    ASSUME NEW S, NEW seq \in Seq(S), NEW e \in S, NEW i \in 1..Len(seq) + 1
    PROVE  /\ InsertAt(seq, i, e) \in Seq(S)
           /\ Len(InsertAt(seq, i, e)) = Len(seq) + 1
           /\ \A k \in 1..Len(seq) + 1 :
                InsertAt(seq, i, e)[k] = IF k < i THEN seq[k]
                                         ELSE IF k = i THEN e ELSE seq[k - 1]
<1> DEFINE a == SubSeq(seq, 1, i - 1)
           b == SubSeq(seq, i, Len(seq))
<1>1. /\ a \in Seq(S) /\ Len(a) = i - 1
      /\ \A k \in 1..i - 1 : a[k] = seq[k]
  BY SubSeqProperties, ElementOfSeq
<1>2. /\ b \in Seq(S) /\ Len(b) = Len(seq) - i + 1
      /\ \A k \in 1..Len(b) : b[k] = seq[k + i - 1]
  BY SubSeqProperties, ElementOfSeq
<1>3. /\ a \o <<e>> \in Seq(S) /\ Len(a \o <<e>>) = i
      /\ \A k \in 1..i : (a \o <<e>>)[k] = IF k < i THEN seq[k] ELSE e
  BY <1>1, ConcatProperties
<1>4. InsertAt(seq, i, e) = (a \o <<e>>) \o b
  BY DEF InsertAt
<1> DEFINE c == a \o <<e>>
<1> HIDE DEF a, b, c
<1>5. c \in Seq(S) /\ b \in Seq(S)
  BY <1>2, <1>3 DEF c
<1>6. /\ c \o b \in Seq(S)
      /\ Len(c \o b) = Len(c) + Len(b)
      /\ \A k \in 1..Len(c) + Len(b) : (c \o b)[k] = IF k <= Len(c) THEN c[k] ELSE b[k - Len(c)]
  BY <1>5, ConcatProperties
<1>7. /\ InsertAt(seq, i, e) = c \o b
      /\ Len(c) = i
      /\ \A k \in 1..i : c[k] = IF k < i THEN seq[k] ELSE e
  BY <1>3, <1>4 DEF c
<1>8. ASSUME NEW k \in 1..Len(seq) + 1
      PROVE  (c \o b)[k] = IF k < i THEN seq[k] ELSE IF k = i THEN e ELSE seq[k - 1]
  <2>1. CASE k <= i
    BY <1>2, <1>6, <1>7, <2>1
  <2>2. CASE k > i
    <3>1. k - i \in 1..Len(b) /\ (k - i) + i - 1 = k - 1
      BY <1>2, <2>2
    <3>. QED
      BY <1>2, <1>6, <1>7, <2>2, <3>1
  <2>3. k <= i \/ k > i
    OBVIOUS
  <2>. QED
    BY <2>1, <2>2, <2>3, Zenon
<1>9. Len(c \o b) = Len(seq) + 1
  BY <1>2, <1>6, <1>7
<1>10. \A k \in 1..Len(seq) + 1 :
         (c \o b)[k] = IF k < i THEN seq[k] ELSE IF k = i THEN e ELSE seq[k - 1]
  BY <1>8
<1>. QED
  BY <1>6, <1>7, <1>9, <1>10, Zenon

LEMMA RemoveAtProperties ==
    ASSUME NEW S, NEW seq \in Seq(S), NEW i \in 1..Len(seq)
    PROVE  /\ RemoveAt(seq, i) \in Seq(S)
           /\ Len(RemoveAt(seq, i)) = Len(seq) - 1
           /\ \A k \in 1..Len(seq) - 1 :
                RemoveAt(seq, i)[k] = IF k < i THEN seq[k] ELSE seq[k + 1]
<1> DEFINE a == SubSeq(seq, 1, i - 1)
           b == SubSeq(seq, i + 1, Len(seq))
<1>1. /\ a \in Seq(S) /\ Len(a) = i - 1
      /\ \A k \in 1..i - 1 : a[k] = seq[k]
  BY SubSeqProperties, ElementOfSeq
<1>2. /\ b \in Seq(S) /\ Len(b) = Len(seq) - i
      /\ \A k \in 1..Len(b) : b[k] = seq[k + i]
  BY SubSeqProperties, ElementOfSeq
<1>3. RemoveAt(seq, i) = a \o b
  BY DEF RemoveAt
<1> HIDE DEF a, b
<1>4. /\ a \o b \in Seq(S)
      /\ Len(a \o b) = Len(a) + Len(b)
      /\ \A k \in 1..Len(a) + Len(b) : (a \o b)[k] = IF k <= Len(a) THEN a[k] ELSE b[k - Len(a)]
  BY <1>1, <1>2, ConcatProperties
<1>5. ASSUME NEW k \in 1..Len(seq) - 1
      PROVE  (a \o b)[k] = IF k < i THEN seq[k] ELSE seq[k + 1]
  <2>1. CASE k < i
    BY <1>1, <1>2, <1>4, <2>1
  <2>2. CASE k >= i
    <3>1. k - Len(a) \in 1..Len(b) /\ k - Len(a) + i = k + 1 /\ ~(k < i)
      BY <1>1, <1>2, <2>2
    <3>2. k \in 1..Len(a) + Len(b) /\ ~(k <= Len(a))
      BY <1>1, <1>2, <2>2
    <3>3. (a \o b)[k] = b[k - Len(a)]
      BY <1>4, <3>2, Zenon
    <3>4. b[k - Len(a)] = seq[k + 1]
      BY <1>2, <3>1, Zenon
    <3>. QED
      BY <3>1, <3>3, <3>4, Zenon
  <2>3. k < i \/ k >= i
    OBVIOUS
  <2>. QED
    BY <2>1, <2>2, <2>3, Zenon
<1>6. Len(a \o b) = Len(seq) - 1
  BY <1>1, <1>2, <1>4
<1>7. \A k \in 1..Len(seq) - 1 : (a \o b)[k] = IF k < i THEN seq[k] ELSE seq[k + 1]
  BY <1>5
<1>. QED
  BY <1>3, <1>4, <1>6, <1>7, Zenon

(***************************************************************************)
(* What an edit returns is well typed.                                     *)
(***************************************************************************)

\* The members of Edit, by variant.
LEMMA EditVariants ==
    ASSUME NEW e \in Edit
    PROVE  \/ e.op = "AddStroke" /\ e.stroke \in Stroke /\ e.layer \in LayerId
           \/ e.op = "RemoveStroke" /\ e.id \in StrokeId /\ e.layer \in LayerId
           \/ e.op = "AddLayer" /\ e.layer \in Layer /\ e.index \in Nat \ {0} /\ e.wasActive \in BOOLEAN
           \/ e.op = "RemoveLayer" /\ e.id \in LayerId
           \/ e.op = "MoveLayer" /\ e.id \in LayerId /\ e.index \in Nat \ {0}
BY DEF Edit

\* The layer at a position.
LEMMA LayerAt ==
    ASSUME NEW layers \in Seq(Layer), NEW p \in 1..Len(layers)
    PROVE  /\ layers[p] \in Layer
           /\ layers[p].id \in LayerId
           /\ layers[p].strokes \in Seq(Stroke)
           /\ layers[p].props \in LayerProps
<1>1. layers[p] \in Layer
  BY ElementOfSeq
<1>. QED
  BY <1>1 DEF Layer

\* Replacing the strokes of the layer at a position.
WithStrokes(layers, p, strokes) == [layers EXCEPT ![p].strokes = strokes]

LEMMA StrokesReplaced ==
    ASSUME NEW layers \in Seq(Layer), NEW p \in 1..Len(layers), NEW strokes \in Seq(Stroke)
    PROVE  /\ WithStrokes(layers, p, strokes) \in Seq(Layer)
           /\ Len(WithStrokes(layers, p, strokes)) = Len(layers)
           /\ \A i \in 1..Len(layers) : WithStrokes(layers, p, strokes)[i].id = layers[i].id
<1> DEFINE l == [layers[p] EXCEPT !.strokes = strokes]
           after == WithStrokes(layers, p, strokes)
<1>1. layers[p] \in Layer
  BY ElementOfSeq
<1>2. l \in Layer /\ l.id = layers[p].id
  BY <1>1 DEF Layer
<1>3. after = [layers EXCEPT ![p] = l]
  BY DEF WithStrokes
<1> HIDE DEF l, after
<1>4. /\ after \in Seq(Layer)
      /\ Len(after) = Len(layers)
      /\ \A i \in 1..Len(layers) : after[i] = IF i = p THEN l ELSE layers[i]
  BY <1>2, <1>3, ExceptSeq
<1>5. \A i \in 1..Len(layers) : after[i].id = layers[i].id
  BY <1>2, <1>4
<1>. QED
  BY <1>4, <1>5, Zenon DEF after

\* The parts of the document an applicable edit touches.
LEMMA AddStrokeAfter ==
    ASSUME NEW layers \in Seq(Layer), NEW e \in Edit, e.op = "AddStroke", CanApply(e, layers)
    PROVE  /\ LayersAfter(e, layers) \in Seq(Layer)
           /\ Len(LayersAfter(e, layers)) = Len(layers)
           /\ \A i \in 1..Len(layers) : LayersAfter(e, layers)[i].id = layers[i].id
<1> DEFINE p == Position(layers, e.layer)
<1>1. e.stroke \in Stroke /\ e.layer \in Ids(layers)
  BY EditVariants DEF CanApply
<1>2. p \in 1..Len(layers)
  BY <1>1, PositionFound
<1>3. layers[p].strokes \in Seq(Stroke)
  BY <1>2, LayerAt
<1>4. Append(layers[p].strokes, e.stroke) \in Seq(Stroke)
  BY <1>1, <1>3, AppendProperties
<1> DEFINE more == Append(layers[p].strokes, e.stroke)
<1>5. LayersAfter(e, layers) = WithStrokes(layers, p, more)
  BY DEF LayersAfter, WithStrokes
<1>6. more \in Seq(Stroke)
  BY <1>4
<1> HIDE DEF p, more
<1>. QED
  BY <1>2, <1>5, <1>6, StrokesReplaced, Zenon

LEMMA RemoveStrokeAfter ==
    ASSUME NEW layers \in Seq(Layer), NEW e \in Edit, e.op = "RemoveStroke", CanApply(e, layers)
    PROVE  /\ LayersAfter(e, layers) \in Seq(Layer)
           /\ Len(LayersAfter(e, layers)) = Len(layers)
           /\ \A i \in 1..Len(layers) : LayersAfter(e, layers)[i].id = layers[i].id
<1> DEFINE p == Position(layers, e.layer)
           drawn == layers[p].strokes
           rest == RemoveAt(drawn, Position(drawn, e.id))
<1>1. e.layer \in Ids(layers) /\ e.id \in Ids(drawn)
  BY DEF CanApply
<1>2. p \in 1..Len(layers)
  BY <1>1, PositionFound
<1>3. drawn \in Seq(Stroke)
  BY <1>2, LayerAt
<1>4. Position(drawn, e.id) \in 1..Len(drawn)
  BY <1>1, <1>3, PositionFound
<1>5. rest \in Seq(Stroke)
  BY <1>3, <1>4, RemoveAtProperties
<1>6. LayersAfter(e, layers) = WithStrokes(layers, p, rest)
  BY DEF LayersAfter, WithStrokes
<1> HIDE DEF p, drawn, rest
<1>. QED
  BY <1>2, <1>5, <1>6, StrokesReplaced, Zenon

(***************************************************************************)
(* Which ids an insertion and a removal leave.                             *)
(***************************************************************************)
LEMMA InsertIds ==
    ASSUME NEW S, NEW seq \in Seq(S), NEW e \in S, NEW i \in 1..Len(seq) + 1
    PROVE  Ids(InsertAt(seq, i, e)) = Ids(seq) \cup {e.id}
<1> DEFINE new == InsertAt(seq, i, e)
<1>1. /\ DOMAIN new = 1..Len(seq) + 1
      /\ DOMAIN seq = 1..Len(seq)
      /\ Len(seq) \in Nat
      /\ \A k \in 1..Len(seq) + 1 :
           new[k] = IF k < i THEN seq[k] ELSE IF k = i THEN e ELSE seq[k - 1]
  <2>1. new \in Seq(S) /\ Len(new) = Len(seq) + 1
    BY InsertAtProperties
  <2>2. DOMAIN new = 1..Len(new) /\ DOMAIN seq = 1..Len(seq) /\ Len(seq) \in Nat
    BY <2>1, LenProperties
  <2>3. \A k \in 1..Len(seq) + 1 :
           new[k] = IF k < i THEN seq[k] ELSE IF k = i THEN e ELSE seq[k - 1]
    BY InsertAtProperties
  <2> HIDE DEF new
  <2>4. DOMAIN new = 1..Len(seq) + 1
    BY <2>1, <2>2
  <2>. QED
    BY <2>2, <2>3, <2>4
<1> HIDE DEF new
<1>2. ASSUME NEW k \in 1..Len(seq) PROVE seq[k].id \in Ids(new)
  <2>1. CASE k < i
    <3>1. new[k] = seq[k] /\ k \in DOMAIN new
      BY <1>1, <2>1
    <3>. QED
      BY <3>1, Zenon DEF Ids
  <2>2. CASE k >= i
    <3>1. new[k + 1] = seq[k] /\ k + 1 \in DOMAIN new
      BY <1>1, <2>2
    <3>. QED
      BY <3>1, Zenon DEF Ids
  <2>3. k < i \/ k >= i
    OBVIOUS
  <2>. QED
    BY <2>1, <2>2, <2>3, Zenon
<1>3. e.id \in Ids(new)
  BY <1>1 DEF Ids
<1>4. ASSUME NEW k \in DOMAIN new PROVE new[k].id \in Ids(seq) \cup {e.id}
  <2>1. \/ k \in DOMAIN seq /\ new[k] = seq[k]
        \/ new[k] = e
        \/ k - 1 \in DOMAIN seq /\ new[k] = seq[k - 1]
    BY <1>1
  <2>. QED
    BY <2>1, Zenon DEF Ids
<1>5. Ids(seq) \subseteq Ids(new)
  BY <1>1, <1>2 DEF Ids
<1>6. Ids(new) \subseteq Ids(seq) \cup {e.id}
  BY <1>4, Zenon DEF Ids
<1>. QED
  BY <1>3, <1>5, <1>6 DEF new

LEMMA RemoveIds ==
    ASSUME NEW S, NEW seq \in Seq(S), NEW i \in 1..Len(seq)
    PROVE  /\ Ids(RemoveAt(seq, i)) \subseteq Ids(seq)
           /\ Ids(seq) \subseteq Ids(RemoveAt(seq, i)) \cup {seq[i].id}
<1> DEFINE new == RemoveAt(seq, i)
<1>1. /\ DOMAIN new = 1..Len(seq) - 1
      /\ DOMAIN seq = 1..Len(seq)
      /\ Len(seq) \in Nat
      /\ \A k \in 1..Len(seq) - 1 : new[k] = IF k < i THEN seq[k] ELSE seq[k + 1]
  BY RemoveAtProperties, LenProperties
<1> HIDE DEF new
<1>2. ASSUME NEW k \in DOMAIN seq PROVE seq[k].id \in Ids(new) \cup {seq[i].id}
  <2>1. CASE k < i
    <3>1. new[k] = seq[k] /\ k \in DOMAIN new
      BY <1>1, <2>1
    <3>. QED
      BY <3>1, Zenon DEF Ids
  <2>2. CASE k > i
    <3>1. new[k - 1] = seq[k] /\ k - 1 \in DOMAIN new
      BY <1>1, <2>2
    <3>. QED
      BY <3>1, Zenon DEF Ids
  <2>3. k < i \/ k > i \/ k = i
    BY <1>1
  <2>. QED
    BY <2>1, <2>2, <2>3, Zenon
<1>3. ASSUME NEW k \in DOMAIN new PROVE new[k].id \in Ids(seq)
  <2>1. \/ k \in DOMAIN seq /\ new[k] = seq[k]
        \/ k + 1 \in DOMAIN seq /\ new[k] = seq[k + 1]
    BY <1>1
  <2>. QED
    BY <2>1, Zenon DEF Ids
<1>4. Ids(new) \subseteq Ids(seq)
  BY <1>3, Zenon DEF Ids
<1>5. Ids(seq) \subseteq Ids(new) \cup {seq[i].id}
  BY <1>2, Zenon DEF Ids
<1>. QED
  BY <1>4, <1>5 DEF new

\* Two sequences of the same length with the same id at every position.
LEMMA SameIds ==
    ASSUME NEW S, NEW seq \in Seq(S), NEW T, NEW new \in Seq(T), Len(new) = Len(seq),
           \A i \in 1..Len(seq) : new[i].id = seq[i].id
    PROVE  Ids(new) = Ids(seq)
<1>1. DOMAIN new = 1..Len(seq) /\ DOMAIN seq = 1..Len(seq)
  BY LenProperties
<1>2. Ids(new) \subseteq Ids(seq)
  BY <1>1, Zenon DEF Ids
<1>3. Ids(seq) \subseteq Ids(new)
  <2>1. ASSUME NEW i \in DOMAIN seq PROVE seq[i].id \in Ids(new)
    <3>1. i \in DOMAIN new /\ new[i].id = seq[i].id
      BY <1>1
    <3>. QED
      BY <3>1, Zenon DEF Ids
  <2>. QED
    BY <2>1, Zenon DEF Ids
<1>. QED
  BY <1>2, <1>3

LEMMA AddLayerAfter ==
    ASSUME NEW layers \in Seq(Layer), NEW e \in Edit, e.op = "AddLayer"
    PROVE  /\ LayersAfter(e, layers) \in Seq(Layer)
           /\ Ids(LayersAfter(e, layers)) = Ids(layers) \cup {e.layer.id}
<1> DEFINE i == AtMost(e.index, Len(layers) + 1)
<1>1. e.layer \in Layer /\ e.index \in Nat \ {0}
  BY EditVariants
<1>2. i \in 1..Len(layers) + 1
  BY <1>1, LenProperties DEF AtMost
<1>3. LayersAfter(e, layers) = InsertAt(layers, i, e.layer)
  BY DEF LayersAfter
<1> HIDE DEF i
<1>. QED
  BY <1>1, <1>2, <1>3, InsertAtProperties, InsertIds

LEMMA RemoveLayerAfter ==
    ASSUME NEW layers \in Seq(Layer), NEW e \in Edit, e.op = "RemoveLayer", CanApply(e, layers)
    PROVE  /\ LayersAfter(e, layers) \in Seq(Layer)
           /\ Len(LayersAfter(e, layers)) \in Nat \ {0}
           /\ Ids(LayersAfter(e, layers)) \subseteq Ids(layers)
           /\ Ids(layers) \subseteq Ids(LayersAfter(e, layers)) \cup {e.id}
<1> DEFINE p == Position(layers, e.id)
<1>1. e.id \in Ids(layers) /\ Len(layers) > 1
  BY DEF CanApply
<1>2. p \in 1..Len(layers) /\ layers[p].id = e.id
  BY <1>1, PositionFound
<1>3. LayersAfter(e, layers) = RemoveAt(layers, p)
  BY DEF LayersAfter
<1>4. Len(layers) \in Nat
  BY LenProperties
<1> HIDE DEF p
<1>. QED
  BY <1>1, <1>2, <1>3, <1>4, RemoveAtProperties, RemoveIds

LEMMA MoveLayerAfter ==
    ASSUME NEW layers \in Seq(Layer), NEW e \in Edit, e.op = "MoveLayer", CanApply(e, layers)
    PROVE  /\ LayersAfter(e, layers) \in Seq(Layer)
           /\ Ids(LayersAfter(e, layers)) = Ids(layers)
<1> DEFINE p == Position(layers, e.id)
           i == AtMost(e.index, Len(layers))
           rest == RemoveAt(layers, p)
<1>1. p \in 1..Len(layers) /\ e.index \in Nat \ {0}
  BY PositionFound, EditVariants DEF CanApply
<1>2. layers[p] \in Layer /\ Len(layers) \in Nat
  BY <1>1, LayerAt, LenProperties
<1>3. /\ rest \in Seq(Layer)
      /\ Len(rest) = Len(layers) - 1
      /\ Ids(rest) \cup {layers[p].id} = Ids(layers)
  <2>1. layers[p].id \in Ids(layers)
    BY <1>1 DEF Ids
  <2>. QED
    BY <1>1, <2>1, RemoveAtProperties, RemoveIds
<1>4. i \in 1..Len(rest) + 1
  BY <1>1, <1>2, <1>3 DEF AtMost
<1> DEFINE l == layers[p]
<1>5. LayersAfter(e, layers) = InsertAt(rest, i, l)
  BY DEF LayersAfter
<1>6. l \in Layer /\ Ids(rest) \cup {l.id} = Ids(layers)
  BY <1>2, <1>3
<1> HIDE DEF p, i, rest, l
<1>7. InsertAt(rest, i, l) \in Seq(Layer) /\ Ids(InsertAt(rest, i, l)) = Ids(rest) \cup {l.id}
  BY <1>3, <1>4, <1>6, InsertAtProperties, InsertIds
<1>. QED
  BY <1>5, <1>6, <1>7

(***************************************************************************)
(* Edit::apply as a whole.                                                 *)
(***************************************************************************)

\* Only removing a layer takes its id out of the document.
LEMMA EditKeepsLayers ==
    ASSUME NEW layers \in Seq(Layer), NEW e \in Edit, CanApply(e, layers),
           NEW id \in Ids(layers), e.op # "RemoveLayer" \/ e.id # id
    PROVE  id \in Ids(LayersAfter(e, layers))
<1>1. CASE e.op = "AddStroke"
  BY <1>1, AddStrokeAfter, SameIds
<1>2. CASE e.op = "RemoveStroke"
  BY <1>2, RemoveStrokeAfter, SameIds
<1>3. CASE e.op = "AddLayer"
  BY <1>3, AddLayerAfter
<1>4. CASE e.op = "RemoveLayer"
  BY <1>4, RemoveLayerAfter
<1>5. CASE e.op = "MoveLayer"
  BY <1>5, MoveLayerAfter
<1>. QED
  BY <1>1, <1>2, <1>3, <1>4, <1>5, EditVariants

\* An edit keeps the active layer in the document: removing it selects
\* another one, restoring it selects the restored one.
LEMMA EditKeepsActiveLayer ==
    ASSUME NEW layers \in Seq(Layer), NEW e \in Edit, CanApply(e, layers),
           NEW activeLayer \in LayerId, activeLayer \in Ids(layers)
    PROVE  /\ ActiveLayerAfter(e, layers, activeLayer) \in LayerId
           /\ ActiveLayerAfter(e, layers, activeLayer) \in Ids(LayersAfter(e, layers))
<1> DEFINE after == LayersAfter(e, layers)
<1>1. CASE e.op = "AddLayer" /\ e.wasActive
  <2>1. ActiveLayerAfter(e, layers, activeLayer) = e.layer.id
    BY <1>1 DEF ActiveLayerAfter
  <2>2. e.layer.id \in LayerId
    BY <1>1, EditVariants DEF Layer
  <2>. QED
    BY <1>1, <2>1, <2>2, AddLayerAfter
<1>2. CASE e.op = "RemoveLayer" /\ e.id = activeLayer
  <2> DEFINE at == AtMost(Position(layers, e.id), Len(after))
  <2>1. ActiveLayerAfter(e, layers, activeLayer) = after[at].id
    BY <1>2 DEF ActiveLayerAfter, LayersAfter
  <2>2. after \in Seq(Layer) /\ Len(after) \in Nat \ {0}
    BY <1>2, RemoveLayerAfter
  <2>3. Position(layers, e.id) \in 1..Len(layers)
    BY <1>2, PositionFound
  <2>4. at \in 1..Len(after)
    BY <2>2, <2>3 DEF AtMost
  <2> HIDE DEF after, at
  <2>5. after[at].id \in LayerId /\ at \in DOMAIN after
    BY <2>2, <2>4, LayerAt, LenProperties
  <2>. QED
    BY <2>1, <2>5 DEF Ids, after
<1>3. CASE ~(e.op = "AddLayer" /\ e.wasActive) /\ ~(e.op = "RemoveLayer" /\ e.id = activeLayer)
  <2>1. ActiveLayerAfter(e, layers, activeLayer) = activeLayer
    BY <1>3 DEF ActiveLayerAfter
  <2>. QED
    BY <1>3, <2>1, EditKeepsLayers
<1>. QED
  BY <1>1, <1>2, <1>3

\* The document and the inverse that an edit returns are well typed.
LEMMA EditTyped ==
    ASSUME NEW layers \in Seq(Layer), NEW e \in Edit, CanApply(e, layers), NEW activeLayer
    PROVE  /\ LayersAfter(e, layers) \in Seq(Layer)
           /\ InverseOf(e, layers, activeLayer) \in Edit
<1>1. LayersAfter(e, layers) \in Seq(Layer)
  BY EditVariants, AddStrokeAfter, RemoveStrokeAfter, AddLayerAfter, RemoveLayerAfter, MoveLayerAfter
<1>2. CASE e.op = "AddStroke"
  <2>1. InverseOf(e, layers, activeLayer) = RemoveStroke(e.stroke.id, e.layer)
    BY <1>2 DEF InverseOf
  <2>2. e.stroke.id \in StrokeId /\ e.layer \in LayerId
    BY <1>2, EditVariants DEF Stroke
  <2>. QED
    BY <1>1, <2>1, <2>2 DEF RemoveStroke, Edit
<1>3. CASE e.op = "RemoveStroke"
  <2> DEFINE strokes == layers[Position(layers, e.layer)].strokes
             s == strokes[Position(strokes, e.id)]
  <2>1. InverseOf(e, layers, activeLayer) = AddStroke(s, e.layer)
    BY <1>3 DEF InverseOf
  <2>2. e.layer \in LayerId /\ e.layer \in Ids(layers) /\ e.id \in Ids(strokes)
    BY <1>3, EditVariants DEF CanApply
  <2>3. strokes \in Seq(Stroke)
    BY <2>2, PositionFound, LayerAt
  <2>4. Position(strokes, e.id) \in 1..Len(strokes)
    BY <2>2, <2>3, PositionFound
  <2>5. s \in Stroke
    BY <2>3, <2>4, ElementOfSeq
  <2> HIDE DEF s
  <2>. QED
    BY <1>1, <2>1, <2>2, <2>5 DEF AddStroke, Edit
<1>4. CASE e.op = "AddLayer"
  <2>1. InverseOf(e, layers, activeLayer) = RemoveLayer(e.layer.id)
    BY <1>4 DEF InverseOf
  <2>2. e.layer.id \in LayerId
    BY <1>4, EditVariants DEF Layer
  <2>. QED
    BY <1>1, <2>1, <2>2 DEF RemoveLayer, Edit
<1>5. CASE e.op \in {"RemoveLayer", "MoveLayer"}
  <2> DEFINE at == Position(layers, e.id)
  <2>1. e.id \in LayerId /\ at \in 1..Len(layers)
    BY <1>5, EditVariants, PositionFound DEF CanApply
  <2>2. at \in Nat \ {0} /\ layers[at] \in Layer
    BY <2>1, LayerAt, LenProperties
  <2>3. CASE e.op = "RemoveLayer"
    <3>1. InverseOf(e, layers, activeLayer) = AddLayer(layers[at], at, e.id = activeLayer)
      BY <2>3 DEF InverseOf
    <3> HIDE DEF at
    <3>. QED
      BY <1>1, <2>2, <3>1 DEF AddLayer, Edit
  <2>4. CASE e.op = "MoveLayer"
    <3>1. InverseOf(e, layers, activeLayer) = MoveLayer(e.id, at)
      BY <2>4 DEF InverseOf
    <3> HIDE DEF at
    <3>. QED
      BY <1>1, <2>1, <2>2, <3>1 DEF MoveLayer, Edit
  <2>. QED
    BY <1>5, <2>3, <2>4
<1>. QED
  BY <1>2, <1>3, <1>4, <1>5, EditVariants

(***************************************************************************)
(* Revisions.                                                              *)
(***************************************************************************)
LEMMA ReviseTyped ==
    ASSUME NEW stroke \in Stroke, NEW u, Revisable(stroke, u) # {}
    PROVE  Revise(stroke, u) \in Stroke /\ Revise(stroke, u).id = stroke.id
<1> DEFINE i == Max(Revisable(stroke, u))
           r == [est |-> 0, revised |-> TRUE]
           samples == [stroke.samples EXCEPT ![i] = r]
<1>1. stroke.samples \in Seq(Sample)
  BY DEF Stroke
<1>2. DOMAIN stroke.samples = 1..Len(stroke.samples) /\ Len(stroke.samples) \in Nat
  BY <1>1, LenProperties
<1>3. Revisable(stroke, u) \subseteq 1..Len(stroke.samples)
  BY <1>2 DEF Revisable
<1>4. i \in 1..Len(stroke.samples)
  BY <1>2, <1>3, MaxOfPositions
<1>5. r \in Sample
  BY DEF Sample
<1>6. samples \in Seq(Sample)
  BY <1>1, <1>4, <1>5, ExceptSeq
<1>7. Revise(stroke, u) = [stroke EXCEPT !.samples = samples]
  BY DEF Revise
<1> HIDE DEF samples
<1>. QED
  BY <1>6, <1>7 DEF Stroke

LEMMA ReviseLayersTyped ==
    ASSUME NEW layers \in Seq(Layer), NEW id, NEW u, RevisableLayers(layers, id, u) # {}
    PROVE  /\ ReviseLayers(layers, id, u) \in Seq(Layer)
           /\ Ids(ReviseLayers(layers, id, u)) = Ids(layers)
<1> DEFINE p == Max(RevisableLayers(layers, id, u))
           drawn == layers[p].strokes
           n == Len(drawn)
           new == [drawn EXCEPT ![n] = Revise(drawn[n], u)]
<1>1. DOMAIN layers = 1..Len(layers) /\ Len(layers) \in Nat
  BY LenProperties
<1>2. p \in RevisableLayers(layers, id, u)
  BY <1>1, MaxOfPositions DEF RevisableLayers
<1>3. /\ p \in 1..Len(layers)
      /\ drawn # << >>
      /\ Revisable(drawn[n], u) # {}
  BY <1>1, <1>2 DEF RevisableLayers, Last
<1>4. drawn \in Seq(Stroke)
  BY <1>3, LayerAt
<1>5. n \in 1..Len(drawn)
  BY <1>3, <1>4, EmptySeq
<1>6. Revise(drawn[n], u) \in Stroke
  BY <1>3, <1>4, <1>5, ElementOfSeq, ReviseTyped
<1>7. new \in Seq(Stroke)
  BY <1>4, <1>5, <1>6, ExceptSeq
<1>8. ReviseLayers(layers, id, u) = WithStrokes(layers, p, new)
  BY DEF ReviseLayers, WithStrokes
<1> DEFINE revised == ReviseLayers(layers, id, u)
<1> HIDE DEF p, drawn, n, new
<1>9. /\ revised \in Seq(Layer) /\ Len(revised) = Len(layers)
      /\ \A i \in 1..Len(layers) : revised[i].id = layers[i].id
  BY <1>3, <1>7, <1>8, StrokesReplaced, Zenon
<1> HIDE DEF revised
<1>10. Ids(revised) = Ids(layers)
  BY <1>9, SameIds
<1>. QED
  BY <1>9, <1>10, Zenon DEF revised

=============================================================================
