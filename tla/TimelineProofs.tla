--------------------------- MODULE TimelineProofs ---------------------------
(***************************************************************************)
(* The undo history of EngineAudit implements UndoTimeline: undo and redo  *)
(* move along the versions the document had, and the two stacks cover them *)
(* all.                                                                    *)
(*                                                                         *)
(* The argument follows the structure of the document, which is what a     *)
(* version is: every entry of either stack leads from the version on one   *)
(* side of it to the version on its other side. An edit and its inverse    *)
(* lead along the same pair of versions in opposite directions, so the     *)
(* relation survives every move of an entry from one stack to the other.   *)
(***************************************************************************)
EXTENDS EngineAudit, EngineProofs

(***************************************************************************)
(* Functions over positions as sequences.                                  *)
(***************************************************************************)
LEMMA FunctionIsSeq ==
    ASSUME NEW S, NEW n \in Nat, NEW f \in [1..n -> S]
    PROVE  f \in Seq(S) /\ Len(f) = n
BY SMT

\* Taking back what was just removed, and removing what was just inserted.
LEMMA RemoveThenInsert ==
    ASSUME NEW S, NEW seq \in Seq(S), NEW i \in 1..Len(seq)
    PROVE  InsertAt(RemoveAt(seq, i), i, seq[i]) = seq
<1> DEFINE n == Len(seq)
           rest == RemoveAt(seq, i)
           x == seq[i]
           back == InsertAt(rest, i, x)
<1>1. /\ rest \in Seq(S) /\ Len(rest) = n - 1 /\ n \in Nat /\ x \in S
      /\ \A k \in 1..n - 1 : rest[k] = IF k < i THEN seq[k] ELSE seq[k + 1]
  BY RemoveAtProperties, LenProperties, ElementOfSeq
<1>2. i \in 1..Len(rest) + 1 /\ i \in 1..n
  BY <1>1
<1>x. x = seq[i]
  OBVIOUS
<1> HIDE DEF rest, n, x
<1>3. /\ back \in Seq(S) /\ Len(back) = n
      /\ \A k \in 1..n : back[k] = IF k < i THEN rest[k] ELSE IF k = i THEN x ELSE rest[k - 1]
  <2>1. /\ back \in Seq(S) /\ Len(back) = Len(rest) + 1
        /\ \A k \in 1..Len(rest) + 1 :
             back[k] = IF k < i THEN rest[k] ELSE IF k = i THEN x ELSE rest[k - 1]
    BY <1>1, <1>2, InsertAtProperties
  <2> HIDE DEF back
  <2>2. Len(rest) + 1 = n
    BY <1>1
  <2>. QED
    BY <2>1, <2>2
<1> HIDE DEF back
<1>4. ASSUME NEW k \in 1..n PROVE back[k] = seq[k]
  <2>1. CASE k < i
    <3>1. k \in 1..n - 1
      BY <1>1, <1>2, <2>1
    <3>2. rest[k] = seq[k]
      BY <1>1, <2>1, <3>1
    <3>. QED
      BY <1>3, <2>1, <3>2
  <2>2. CASE k = i
    BY <1>3, <1>x, <2>2
  <2>3. CASE k > i
    <3>1. k - 1 \in 1..n - 1 /\ ~(k - 1 < i) /\ (k - 1) + 1 = k
      BY <1>1, <1>2, <2>3
    <3>2. rest[k - 1] = seq[k]
      BY <1>1, <3>1
    <3>. QED
      BY <1>3, <2>3, <3>2
  <2>. QED
    BY <1>1, <1>2, <2>1, <2>2, <2>3
<1>5. back = seq
  BY <1>3, <1>4, SeqEqual DEF n
<1>. QED
  BY <1>5 DEF back, rest, x

Inserted(seq, i, e) ==
    \A k \in 1..Len(seq) + 1 :
        InsertAt(seq, i, e)[k] = IF k < i THEN seq[k] ELSE IF k = i THEN e ELSE seq[k - 1]

LEMMA InsertedIs ==
    ASSUME NEW S, NEW seq \in Seq(S), NEW e \in S, NEW i \in 1..Len(seq) + 1
    PROVE  Inserted(seq, i, e)
<1>1. \A k \in 1..Len(seq) + 1 :
         InsertAt(seq, i, e)[k] = IF k < i THEN seq[k] ELSE IF k = i THEN e ELSE seq[k - 1]
  BY InsertAtProperties
<1>. QED
  BY <1>1 DEF Inserted

LEMMA InsertThenRemove ==
    ASSUME NEW S, NEW seq \in Seq(S), NEW x \in S, NEW i \in 1..Len(seq) + 1
    PROVE  /\ RemoveAt(InsertAt(seq, i, x), i) = seq
           /\ InsertAt(seq, i, x)[i] = x
<1> DEFINE n == Len(seq)
           more == InsertAt(seq, i, x)
           back == RemoveAt(more, i)
<1>0. n \in Nat /\ i \in 1..n + 1
  BY LenProperties
<1>1. /\ more \in Seq(S) /\ Len(more) = n + 1
      /\ \A k \in 1..n + 1 : more[k] = IF k < i THEN seq[k] ELSE IF k = i THEN x ELSE seq[k - 1]
  <2>1. more \in Seq(S) /\ Len(more) = n + 1
    BY InsertAtProperties
  <2>2. \A k \in 1..n + 1 : more[k] = IF k < i THEN seq[k] ELSE IF k = i THEN x ELSE seq[k - 1]
    <3>1. Inserted(seq, i, x)
      BY InsertedIs
    <3>. QED
      BY <3>1 DEF Inserted
  <2>. QED
    BY <2>1, <2>2
<1> HIDE DEF more, n
<1>2. /\ back \in Seq(S) /\ Len(back) = n
      /\ \A k \in 1..n : back[k] = IF k < i THEN more[k] ELSE more[k + 1]
  <2>1. /\ back \in Seq(S) /\ Len(back) = Len(more) - 1
        /\ \A k \in 1..Len(more) - 1 : back[k] = IF k < i THEN more[k] ELSE more[k + 1]
    BY <1>0, <1>1, RemoveAtProperties
  <2> HIDE DEF back
  <2>2. Len(more) - 1 = n
    BY <1>0, <1>1
  <2>. QED
    BY <2>1, <2>2
<1> HIDE DEF back
<1>3. ASSUME NEW k \in 1..n PROVE back[k] = seq[k]
  <2>1. CASE k < i
    BY <1>0, <1>1, <1>2, <2>1
  <2>2. CASE k >= i
    <3>1. k + 1 \in 1..n + 1 /\ ~(k + 1 < i) /\ k + 1 # i /\ (k + 1) - 1 = k
      BY <1>0, <2>2
    <3>2. more[k + 1] = seq[k]
      BY <1>1, <3>1
    <3>. QED
      BY <1>0, <1>2, <2>2, <3>2
  <2>. QED
    BY <1>0, <2>1, <2>2
<1>4. back = seq
  BY <1>2, <1>3, SeqEqual DEF n
<1>5. more[i] = x
  BY <1>0, <1>1
<1>. QED
  BY <1>4, <1>5 DEF back, more

(***************************************************************************)
(* The structure of a layer.                                               *)
(***************************************************************************)
Shape == [id : LayerId, strokes : Seq(StrokeId)]

Order(strokes) == [j \in DOMAIN strokes |-> strokes[j].id]

ShapeOf(layer) == [id |-> layer.id, strokes |-> Order(layer.strokes)]

LEMMA OrderTyped ==
    ASSUME NEW strokes \in Seq(Stroke)
    PROVE  /\ Order(strokes) \in Seq(StrokeId)
           /\ Len(Order(strokes)) = Len(strokes)
           /\ \A j \in 1..Len(strokes) : Order(strokes)[j] = strokes[j].id
<1>1. /\ DOMAIN strokes = 1..Len(strokes) /\ Len(strokes) \in Nat
      /\ \A j \in 1..Len(strokes) : strokes[j] \in Stroke
  BY LenProperties, ElementOfSeq
<1>2. \A j \in 1..Len(strokes) : strokes[j].id \in StrokeId
  BY <1>1 DEF Stroke
<1>3. Order(strokes) \in [1..Len(strokes) -> StrokeId]
  BY <1>1, <1>2 DEF Order
<1>4. \A j \in 1..Len(strokes) : Order(strokes)[j] = strokes[j].id
  BY <1>1 DEF Order
<1>. QED
  BY <1>1, <1>3, <1>4, FunctionIsSeq

LEMMA ShapeTyped ==
    ASSUME NEW layer \in Layer
    PROVE  ShapeOf(layer) \in Shape
<1>1. layer.strokes \in Seq(Stroke) /\ layer.id \in LayerId
  BY DEF Layer
<1>. QED
  BY <1>1, OrderTyped DEF ShapeOf, Shape

LEMMA StructureTyped ==
    ASSUME NEW ls \in Seq(Layer)
    PROVE  /\ Structure(ls) \in Seq(Shape)
           /\ Len(Structure(ls)) = Len(ls)
           /\ \A i \in 1..Len(ls) : Structure(ls)[i] = ShapeOf(ls[i])
<1>1. /\ DOMAIN ls = 1..Len(ls) /\ Len(ls) \in Nat
      /\ \A i \in 1..Len(ls) : ls[i] \in Layer
  BY LenProperties, ElementOfSeq
<1>2. Structure(ls) = [i \in 1..Len(ls) |-> ShapeOf(ls[i])]
  BY <1>1, Zenon DEF Structure, ShapeOf, Order
<1>3. \A i \in 1..Len(ls) : ShapeOf(ls[i]) \in Shape
  BY <1>1, ShapeTyped
<1>4. Structure(ls) \in [1..Len(ls) -> Shape]
  BY <1>2, <1>3
<1>5. \A i \in 1..Len(ls) : Structure(ls)[i] = ShapeOf(ls[i])
  BY <1>2
<1>. QED
  BY <1>1, <1>4, <1>5, FunctionIsSeq

\* A document whose layers have the shapes of S has the structure S.
LEMMA StructureIs ==
    ASSUME NEW ls \in Seq(Layer), NEW S \in Seq(Shape), Len(S) = Len(ls),
           \A i \in 1..Len(ls) : S[i] = ShapeOf(ls[i])
    PROVE  Structure(ls) = S
BY StructureTyped, SeqEqual

LEMMA StructureInsert ==
    ASSUME NEW ls \in Seq(Layer), NEW i \in 1..Len(ls) + 1, NEW layer \in Layer
    PROVE  Structure(InsertAt(ls, i, layer)) = InsertAt(Structure(ls), i, ShapeOf(layer))
<1> DEFINE n == Len(ls)
           S == Structure(ls)
           l == ShapeOf(layer)
           new == InsertAt(ls, i, layer)
           T == InsertAt(S, i, l)
<1>1. /\ S \in Seq(Shape) /\ Len(S) = n /\ n \in Nat /\ l \in Shape
      /\ \A k \in 1..n : S[k] = ShapeOf(ls[k])
  BY StructureTyped, ShapeTyped, LenProperties
<1>2. /\ new \in Seq(Layer) /\ Len(new) = n + 1
      /\ \A k \in 1..n + 1 : new[k] = IF k < i THEN ls[k] ELSE IF k = i THEN layer ELSE ls[k - 1]
  BY InsertAtProperties
<1>l. l = ShapeOf(layer)
  OBVIOUS
<1>0. n \in Nat /\ i \in 1..n + 1
  BY LenProperties
<1> HIDE DEF S, l, new, n
<1>3. /\ T \in Seq(Shape) /\ Len(T) = n + 1
      /\ \A k \in 1..n + 1 : T[k] = IF k < i THEN S[k] ELSE IF k = i THEN l ELSE S[k - 1]
  <2>1. S \in Seq(Shape) /\ l \in Shape /\ i \in 1..Len(S) + 1
    BY <1>0, <1>1
  <2>2. /\ T \in Seq(Shape) /\ Len(T) = Len(S) + 1
        /\ \A k \in 1..Len(S) + 1 : T[k] = IF k < i THEN S[k] ELSE IF k = i THEN l ELSE S[k - 1]
    BY <2>1, InsertAtProperties, SMTT(30)
  <2> HIDE DEF T
  <2>. QED
    BY <1>1, <2>2
<1> HIDE DEF T
<1>4. ASSUME NEW k \in 1..n + 1 PROVE T[k] = ShapeOf(new[k])
  <2>1. CASE k < i
    <3>1. k \in 1..n
      BY <1>0, <2>1
    <3>. QED
      BY <1>1, <1>2, <1>3, <2>1, <3>1
  <2>2. CASE k = i
    BY <1>0, <1>2, <1>3, <1>l, <2>2
  <2>3. CASE k > i
    <3>1. k - 1 \in 1..n /\ ~(k < i) /\ k # i
      BY <1>0, <2>3
    <3>. QED
      BY <1>1, <1>2, <1>3, <3>1
  <2>. QED
    BY <1>0, <2>1, <2>2, <2>3
<1>5. Structure(new) = T
  BY <1>2, <1>3, <1>4, StructureIs
<1>. QED
  BY <1>5 DEF new, T, S, l

LEMMA StructureRemove ==
    ASSUME NEW ls \in Seq(Layer), NEW i \in 1..Len(ls)
    PROVE  Structure(RemoveAt(ls, i)) = RemoveAt(Structure(ls), i)
<1> DEFINE n == Len(ls)
           S == Structure(ls)
           new == RemoveAt(ls, i)
           T == RemoveAt(S, i)
<1>1. /\ S \in Seq(Shape) /\ Len(S) = n /\ n \in Nat /\ i \in 1..n
      /\ \A k \in 1..n : S[k] = ShapeOf(ls[k])
  BY StructureTyped, LenProperties
<1>2. /\ new \in Seq(Layer) /\ Len(new) = n - 1
      /\ \A k \in 1..n - 1 : new[k] = IF k < i THEN ls[k] ELSE ls[k + 1]
  BY RemoveAtProperties
<1> HIDE DEF S, new, n
<1>3. /\ T \in Seq(Shape) /\ Len(T) = n - 1
      /\ \A k \in 1..n - 1 : T[k] = IF k < i THEN S[k] ELSE S[k + 1]
  BY <1>1, RemoveAtProperties
<1> HIDE DEF T
<1>4. ASSUME NEW k \in 1..n - 1 PROVE T[k] = ShapeOf(new[k])
  <2>1. k \in 1..n /\ k + 1 \in 1..n
    BY <1>1
  <2>. QED
    BY <1>1, <1>2, <1>3, <2>1
<1>5. Structure(new) = T
  BY <1>2, <1>3, <1>4, StructureIs
<1>. QED
  BY <1>5 DEF new, T, S

\* The structure S with other strokes on the layer at a position.
Redrawn(S, p, order) == [S EXCEPT ![p].strokes = order]

LEMMA RedrawnProperties ==
    ASSUME NEW S \in Seq(Shape), NEW p \in 1..Len(S), NEW order \in Seq(StrokeId)
    PROVE  /\ Redrawn(S, p, order) \in Seq(Shape)
           /\ Len(Redrawn(S, p, order)) = Len(S)
           /\ \A i \in 1..Len(S) :
                Redrawn(S, p, order)[i] = IF i = p THEN [id |-> S[p].id, strokes |-> order] ELSE S[i]
<1> DEFINE l == [S[p] EXCEPT !.strokes = order]
<1>1. S[p] \in Shape
  BY ElementOfSeq
<1>2. l \in Shape /\ l = [id |-> S[p].id, strokes |-> order]
  BY <1>1 DEF Shape
<1>3. Redrawn(S, p, order) = [S EXCEPT ![p] = l]
  BY DEF Redrawn
<1> HIDE DEF l
<1>4. /\ [S EXCEPT ![p] = l] \in Seq(Shape) /\ Len([S EXCEPT ![p] = l]) = Len(S)
      /\ \A i \in 1..Len(S) : [S EXCEPT ![p] = l][i] = IF i = p THEN l ELSE S[i]
  BY <1>2, ExceptSeq
<1>. QED
  BY <1>2, <1>3, <1>4, Zenon

LEMMA StructureRedraw ==
    ASSUME NEW ls \in Seq(Layer), NEW p \in 1..Len(ls), NEW strokes \in Seq(Stroke)
    PROVE  Structure(WithStrokes(ls, p, strokes)) = Redrawn(Structure(ls), p, Order(strokes))
<1> DEFINE n == Len(ls)
           S == Structure(ls)
           order == Order(strokes)
           l == [ls[p] EXCEPT !.strokes = strokes]
           new == WithStrokes(ls, p, strokes)
           T == Redrawn(S, p, order)
<1>1. /\ S \in Seq(Shape) /\ Len(S) = n /\ n \in Nat /\ p \in 1..n /\ order \in Seq(StrokeId)
      /\ \A k \in 1..n : S[k] = ShapeOf(ls[k])
  BY StructureTyped, OrderTyped, LenProperties
<1>2. ls[p] \in Layer
  BY LayerAt
<1>3. l \in Layer /\ l.id = ls[p].id /\ l.strokes = strokes
  BY <1>2 DEF Layer
<1>4. new = [ls EXCEPT ![p] = l]
  BY DEF WithStrokes
<1>o. order = Order(strokes)
  OBVIOUS
<1> HIDE DEF S, new, n, order, l
<1>5. /\ new \in Seq(Layer) /\ Len(new) = n
      /\ \A k \in 1..n : new[k] = IF k = p THEN l ELSE ls[k]
  BY <1>3, <1>4, ExceptSeq DEF n
<1>6. /\ T \in Seq(Shape) /\ Len(T) = n
      /\ \A k \in 1..n : T[k] = IF k = p THEN [id |-> S[p].id, strokes |-> order] ELSE S[k]
  <2>1. S \in Seq(Shape) /\ p \in 1..Len(S) /\ order \in Seq(StrokeId)
    BY <1>1
  <2>2. /\ T \in Seq(Shape) /\ Len(T) = Len(S)
        /\ \A k \in 1..Len(S) : T[k] = IF k = p THEN [id |-> S[p].id, strokes |-> order] ELSE S[k]
    BY <2>1, RedrawnProperties
  <2> HIDE DEF T
  <2>. QED
    BY <1>1, <2>2
<1> HIDE DEF T
<1>7. ShapeOf(l) = [id |-> S[p].id, strokes |-> order]
  BY <1>1, <1>3, <1>o DEF ShapeOf
<1>8. ASSUME NEW k \in 1..n PROVE T[k] = ShapeOf(new[k])
  BY <1>1, <1>5, <1>6, <1>7
<1>9. Structure(new) = T
  BY <1>5, <1>6, <1>8, StructureIs
<1>. QED
  BY <1>9 DEF new, T, S, order

LEMMA OrderAppend ==
    ASSUME NEW strokes \in Seq(Stroke), NEW x \in Stroke
    PROVE  Order(Append(strokes, x)) = Append(Order(strokes), x.id)
<1> DEFINE n == Len(strokes)
           more == Append(strokes, x)
           o == Order(strokes)
           T == Append(o, x.id)
<1>0. n \in Nat /\ x.id \in StrokeId
  BY LenProperties DEF Stroke
<1>1. /\ more \in Seq(Stroke) /\ Len(more) = n + 1 /\ more[n + 1] = x
      /\ \A j \in 1..n : more[j] = strokes[j]
  BY AppendProperties
<1>2. /\ o \in Seq(StrokeId) /\ Len(o) = n
      /\ \A j \in 1..n : o[j] = strokes[j].id
  BY OrderTyped
<1> HIDE DEF n, more, o
<1>3. /\ T \in Seq(StrokeId) /\ Len(T) = n + 1 /\ T[n + 1] = x.id
      /\ \A j \in 1..n : T[j] = o[j]
  BY <1>0, <1>2, AppendProperties
<1> HIDE DEF T
<1>4. /\ Order(more) \in Seq(StrokeId) /\ Len(Order(more)) = n + 1
      /\ \A j \in 1..n + 1 : Order(more)[j] = more[j].id
  BY <1>1, OrderTyped
<1>5. ASSUME NEW j \in 1..n + 1 PROVE Order(more)[j] = T[j]
  <2>1. j \in 1..n \/ j = n + 1
    BY <1>0
  <2>. QED
    BY <1>1, <1>2, <1>3, <1>4, <2>1
<1>6. Order(more) = T
  BY <1>3, <1>4, <1>5, SeqEqual
<1>. QED
  BY <1>6 DEF more, T, o

\* A layer is at the same place in the structure as in the document.
LEMMA StructureIds ==
    ASSUME NEW ls \in Seq(Layer)
    PROVE  /\ Ids(Structure(ls)) = Ids(ls)
           /\ NoDuplicates(ls) => NoDuplicates(Structure(ls))
           /\ \A i \in 1..Len(ls) : /\ Structure(ls)[i].id = ls[i].id
                                    /\ Structure(ls)[i].strokes = Order(ls[i].strokes)
           /\ \A i \in 1..Len(ls) :
                NoDuplicates(ls) => Position(ls, Structure(ls)[i].id) = i
<1>1. /\ Structure(ls) \in Seq(Shape) /\ Len(Structure(ls)) = Len(ls)
      /\ \A i \in 1..Len(ls) : Structure(ls)[i] = ShapeOf(ls[i])
  BY StructureTyped
<1>2. \A i \in 1..Len(ls) : /\ Structure(ls)[i].id = ls[i].id
                            /\ Structure(ls)[i].strokes = Order(ls[i].strokes)
  <2>1. \A layer : ShapeOf(layer).id = layer.id /\ ShapeOf(layer).strokes = Order(layer.strokes)
    BY DEF ShapeOf
  <2>. QED
    BY <1>1, <2>1, Zenon
<1>3. DOMAIN ls = 1..Len(ls) /\ DOMAIN Structure(ls) = 1..Len(ls)
  BY <1>1, LenProperties
<1>4. Ids(Structure(ls)) = Ids(ls)
  BY <1>1, <1>2, SameIds
<1>5. NoDuplicates(ls) => NoDuplicates(Structure(ls))
  BY <1>2, <1>3, Zenon DEF NoDuplicates
<1>6. ASSUME NoDuplicates(ls), NEW i \in 1..Len(ls) PROVE Position(ls, Structure(ls)[i].id) = i
  <2>1. ls[i].id \in Ids(ls)
    BY <1>3 DEF Ids
  <2>2. Position(ls, ls[i].id) \in 1..Len(ls) /\ ls[Position(ls, ls[i].id)].id = ls[i].id
    BY <2>1, PositionFound
  <2>. QED
    BY <1>2, <1>3, <1>6, <2>2 DEF NoDuplicates
<1>. QED
  BY <1>2, <1>4, <1>5, <1>6

(***************************************************************************)
(* The pair of versions that an entry leads between.                       *)
(***************************************************************************)

\* T is S with the layer l inserted.
Inserts(l, i, S, T) ==
    /\ i \in 1..Len(S) + 1
    /\ l.id \notin Ids(S)
    /\ T = InsertAt(S, i, l)

\* T is S with the stroke s drawn last on layer k.
Draws(k, s, S, T) ==
    \E p \in 1..Len(S) :
        /\ S[p].id = k
        /\ s \notin ToSet(S[p].strokes)
        /\ T = Redrawn(S, p, Append(S[p].strokes, s))

\* e leads from the version S to the version T.
Moves(e, S, T) ==
    CASE e.op = "AddStroke"    -> Draws(e.layer, e.stroke.id, S, T)
      [] e.op = "RemoveStroke" -> Draws(e.layer, e.id, T, S)
      [] e.op = "AddLayer" ->
            Inserts(ShapeOf(e.layer), AtMost(e.index, Len(S) + 1), S, T)
      [] e.op = "RemoveLayer" ->
            /\ T # << >>
            /\ \E i \in 1..Len(S) : S[i].id = e.id /\ T = RemoveAt(S, i)
      [] OTHER ->
            \E i \in 1..Len(S) :
                /\ S[i].id = e.id
                /\ T = InsertAt(RemoveAt(S, i), AtMost(e.index, Len(S)), S[i])

\* What e does to a document that it leads on from: it gets where e leads,
\* and its inverse leads back.
Follows(e, ls, activeId, T) ==
    /\ CanApply(e, ls)
    /\ Structure(LayersAfter(e, ls)) = T
    /\ Moves(InverseOf(e, ls, activeId), T, Structure(ls))

LEMMA DrawnProperties ==
    ASSUME NEW S \in Seq(Shape), NEW p \in 1..Len(S), NEW s \in StrokeId
    PROVE  LET T == Redrawn(S, p, Append(S[p].strokes, s))
           IN  /\ T \in Seq(Shape)
               /\ Len(T) = Len(S)
               /\ \A i \in 1..Len(S) :
                    T[i] = IF i = p THEN [id |-> S[p].id, strokes |-> Append(S[p].strokes, s)]
                                    ELSE S[i]
<1>1. S[p] \in Shape
  BY ElementOfSeq
<1>2. S[p].strokes \in Seq(StrokeId)
  BY <1>1 DEF Shape
<1> DEFINE order == Append(S[p].strokes, s)
           T == Redrawn(S, p, order)
<1>3. order \in Seq(StrokeId)
  BY <1>2, AppendProperties
<1> HIDE DEF order
<1>4. /\ T \in Seq(Shape)
      /\ Len(T) = Len(S)
      /\ \A i \in 1..Len(S) : T[i] = IF i = p THEN [id |-> S[p].id, strokes |-> order] ELSE S[i]
  BY <1>3, RedrawnProperties
<1>. QED
  BY <1>4, Zenon DEF order

LEMMA AddStrokeFollows ==
    ASSUME NEW ls \in Seq(Layer), Distinct(ls), NEW activeId, NEW T \in Seq(Shape),
           NEW e \in Edit, e.op = "AddStroke", Moves(e, Structure(ls), T)
    PROVE  Follows(e, ls, activeId, T)
<1> DEFINE S == Structure(ls)
<1>1. PICK p \in 1..Len(S) :
        /\ S[p].id = e.layer
        /\ T = Redrawn(S, p, Append(S[p].strokes, e.stroke.id))
  BY DEF Moves, Draws
<1>2. p \in 1..Len(ls) /\ NoDuplicates(ls)
  BY StructureTyped DEF Distinct
<1> DEFINE drawn == ls[p].strokes
           more == Append(drawn, e.stroke)
<1>3. Position(ls, e.layer) = p /\ S[p].strokes = Order(drawn) /\ e.layer \in Ids(ls)
  <2>1. S[p].id = ls[p].id /\ p \in DOMAIN ls
    BY <1>2, StructureIds, LenProperties
  <2>. QED
    BY <1>1, <1>2, <2>1, StructureIds DEF Ids
<1>4. drawn \in Seq(Stroke) /\ e.stroke \in Stroke
  BY <1>2, LayerAt, EditVariants
<1>5. more \in Seq(Stroke) /\ Order(more) = Append(Order(drawn), e.stroke.id)
  BY <1>4, AppendProperties, OrderAppend
<1>6. LayersAfter(e, ls) = WithStrokes(ls, p, more)
  BY <1>3 DEF LayersAfter, WithStrokes
<1>7. Structure(WithStrokes(ls, p, more)) = Redrawn(S, p, Order(more))
  BY <1>2, <1>5, StructureRedraw
<1>8. Structure(LayersAfter(e, ls)) = T
  BY <1>1, <1>3, <1>5, <1>6, <1>7
<1>9. InverseOf(e, ls, activeId) = RemoveStroke(e.stroke.id, e.layer)
  BY DEF InverseOf
<1>10. Moves(RemoveStroke(e.stroke.id, e.layer), T, S)
  BY DEF Moves, RemoveStroke
<1>. QED
  BY <1>3, <1>8, <1>9, <1>10 DEF Follows, CanApply

LEMMA RemoveStrokeFollows ==
    ASSUME NEW ls \in Seq(Layer), Distinct(ls), NEW activeId, NEW T \in Seq(Shape),
           NEW e \in Edit, e.op = "RemoveStroke", Moves(e, Structure(ls), T)
    PROVE  Follows(e, ls, activeId, T)
<1> DEFINE S == Structure(ls)
           s == e.id
<1>1. Draws(e.layer, s, T, S)
  BY DEF Moves
<1>2. PICK p \in 1..Len(T) :
        /\ T[p].id = e.layer
        /\ s \notin ToSet(T[p].strokes)
        /\ S = Redrawn(T, p, Append(T[p].strokes, s))
  BY <1>1, Zenon DEF Draws
<1> DEFINE x == T[p].strokes
           m == Len(x)
<1>3. T[p] \in Shape /\ s \in StrokeId /\ e.layer \in LayerId
  BY <1>2, ElementOfSeq, EditVariants
<1>4. /\ x \in Seq(StrokeId) /\ m \in Nat /\ T[p] = [id |-> e.layer, strokes |-> x]
      /\ DOMAIN x = 1..m
  BY <1>2, <1>3, LenProperties DEF Shape
<1>5. /\ Append(x, s) \in Seq(StrokeId) /\ Len(Append(x, s)) = m + 1
      /\ Append(x, s)[m + 1] = s
      /\ \A j \in 1..m : Append(x, s)[j] = x[j]
  BY <1>3, <1>4, AppendProperties
<1>6. /\ Len(S) = Len(T)
      /\ \A i \in 1..Len(T) :
           S[i] = IF i = p THEN [id |-> T[p].id, strokes |-> Append(x, s)] ELSE T[i]
  <2> HIDE DEF S, s
  <2> DEFINE U == Redrawn(T, p, Append(T[p].strokes, s))
  <2>1. /\ Len(U) = Len(T)
        /\ \A i \in 1..Len(T) :
             U[i] = IF i = p THEN [id |-> T[p].id, strokes |-> Append(T[p].strokes, s)] ELSE T[i]
    BY <1>3, DrawnProperties, Zenon
  <2>2. S = U
    BY <1>2
  <2> HIDE DEF U
  <2>. QED
    BY <2>1, <2>2, Zenon
<1>7. p \in 1..Len(ls) /\ NoDuplicates(ls) /\ Len(S) = Len(ls) /\ S \in Seq(Shape)
  BY <1>6, StructureTyped DEF Distinct
<1> DEFINE drawn == ls[p].strokes
<1>8. /\ Position(ls, e.layer) = p /\ e.layer \in Ids(ls)
      /\ Append(x, s) = Order(drawn)
  <2>1. S[p].id = ls[p].id /\ S[p].strokes = Order(drawn) /\ p \in DOMAIN ls
    BY <1>7, StructureIds, LenProperties
  <2>2. S[p].id = e.layer /\ S[p].strokes = Append(x, s)
    BY <1>2, <1>6
  <2>3. Position(ls, S[p].id) = p
    BY <1>7, StructureIds
  <2>. QED
    BY <2>1, <2>2, <2>3 DEF Ids
<1>9. drawn \in Seq(Stroke) /\ NoDuplicates(drawn)
  BY <1>7, LayerAt, SetMember DEF Distinct
<1> HIDE DEF S, s, x, m, drawn
<1>10. /\ Len(drawn) = m + 1 /\ DOMAIN drawn = 1..m + 1
       /\ drawn[m + 1].id = s
       /\ \A j \in 1..m : drawn[j].id = x[j]
  <2>1. /\ Len(Order(drawn)) = Len(drawn) /\ DOMAIN drawn = 1..Len(drawn)
        /\ \A j \in 1..Len(drawn) : Order(drawn)[j] = drawn[j].id
    BY <1>9, OrderTyped, LenProperties
  <2>2. Len(drawn) = m + 1
    BY <1>5, <1>8, <2>1
  <2>3. m + 1 \in 1..m + 1 /\ \A j \in 1..m : j \in 1..m + 1
    BY <1>4
  <2>. QED
    BY <1>5, <1>8, <2>1, <2>2, <2>3
<1> DEFINE at == Position(drawn, s)
           rest == RemoveAt(drawn, at)
<1>11. s \in Ids(drawn) /\ at = m + 1
  <2>1. m + 1 \in DOMAIN drawn
    BY <1>4, <1>10
  <2>2. s \in Ids(drawn)
    BY <1>10, <2>1 DEF Ids
  <2>3. at \in 1..Len(drawn) /\ drawn[at].id = s
    BY <1>9, <2>2, PositionFound
  <2>. QED
    BY <1>9, <1>10, <2>1, <2>2, <2>3, Zenon DEF NoDuplicates
<1>12. rest \in Seq(Stroke) /\ Order(rest) = x
  <2>0. at \in 1..Len(drawn)
    BY <1>4, <1>10, <1>11
  <2>1. /\ rest \in Seq(Stroke) /\ Len(rest) = Len(drawn) - 1
        /\ \A k \in 1..Len(drawn) - 1 : rest[k] = IF k < at THEN drawn[k] ELSE drawn[k + 1]
    BY <1>9, <2>0, RemoveAtProperties
  <2> HIDE DEF rest, at
  <2>2. Len(rest) = m /\ \A k \in 1..m : rest[k] = drawn[k]
    BY <1>4, <1>10, <1>11, <2>1
  <2>3. /\ Order(rest) \in Seq(StrokeId) /\ Len(Order(rest)) = m
        /\ \A k \in 1..m : Order(rest)[k] = rest[k].id
    BY <2>1, <2>2, OrderTyped
  <2>4. \A k \in 1..m : Order(rest)[k] = x[k]
    BY <1>10, <2>2, <2>3
  <2>. QED
    BY <1>4, <2>1, <2>3, <2>4, SeqEqual DEF m
<1>13. LayersAfter(e, ls) = WithStrokes(ls, p, rest)
  BY <1>8 DEF LayersAfter, WithStrokes, drawn, s
<1>14. Structure(WithStrokes(ls, p, rest)) = Redrawn(S, p, x)
  BY <1>7, <1>12, StructureRedraw DEF S
<1>15. Redrawn(S, p, x) = T
  <2>1. p \in 1..Len(S) /\ Len(S) = Len(T)
    BY <1>6, <1>7
  <2>2. /\ Redrawn(S, p, x) \in Seq(Shape) /\ Len(Redrawn(S, p, x)) = Len(S)
        /\ \A i \in 1..Len(S) :
             Redrawn(S, p, x)[i] = IF i = p THEN [id |-> S[p].id, strokes |-> x] ELSE S[i]
    BY <1>4, <1>7, <2>1, RedrawnProperties
  <2>3. S[p].id = e.layer
    BY <1>2, <1>6
  <2>4. \A i \in 1..Len(S) : Redrawn(S, p, x)[i] = T[i]
    BY <1>4, <1>6, <2>1, <2>2, <2>3
  <2>. QED
    BY <2>1, <2>2, <2>4, SeqEqual
<1>16. InverseOf(e, ls, activeId) = AddStroke(drawn[at], e.layer)
  BY <1>8 DEF InverseOf, drawn, s
<1>17. Moves(AddStroke(drawn[at], e.layer), T, S)
  <2>1. Draws(e.layer, drawn[at].id, T, S)
    BY <1>1, <1>10, <1>11
  <2>. QED
    BY <2>1 DEF Moves, AddStroke
<1>18. CanApply(e, ls)
  BY <1>8, <1>11 DEF CanApply, drawn, s
<1>. QED
  BY <1>13, <1>14, <1>15, <1>16, <1>17, <1>18 DEF Follows, S

LEMMA AddLayerFollows ==
    ASSUME NEW ls \in Seq(Layer), ls # << >>, NEW activeId, NEW T \in Seq(Shape),
           NEW e \in Edit, e.op = "AddLayer", Moves(e, Structure(ls), T)
    PROVE  Follows(e, ls, activeId, T)
<1> DEFINE S == Structure(ls)
           i == AtMost(e.index, Len(S) + 1)
           l == ShapeOf(e.layer)
<1>1. i \in 1..Len(S) + 1 /\ T = InsertAt(S, i, l)
  BY DEF Moves, Inserts
<1>2. e.layer \in Layer /\ l \in Shape /\ l.id = e.layer.id
  BY EditVariants, ShapeTyped DEF ShapeOf
<1>3. S \in Seq(Shape) /\ Len(S) = Len(ls) /\ Len(S) \in Nat \ {0}
  BY StructureTyped, EmptySeq
<1>4. LayersAfter(e, ls) = InsertAt(ls, i, e.layer)
  BY <1>3 DEF LayersAfter
<1>l. l = ShapeOf(e.layer)
  OBVIOUS
<1> HIDE DEF S, i, l
<1>5. Structure(InsertAt(ls, i, e.layer)) = T
  BY <1>1, <1>2, <1>3, <1>l, StructureInsert DEF S
<1>6. T[i] = l /\ RemoveAt(T, i) = S /\ i \in 1..Len(T)
  <2>1. Len(InsertAt(S, i, l)) = Len(S) + 1
    BY <1>1, <1>2, <1>3, InsertAtProperties
  <2>. QED
    BY <1>1, <1>2, <1>3, <2>1, InsertThenRemove
<1>7. S # << >>
  BY <1>3
<1>8. Moves(RemoveLayer(e.layer.id), T, S)
  BY <1>2, <1>6, <1>7 DEF Moves, RemoveLayer
<1>9. InverseOf(e, ls, activeId) = RemoveLayer(e.layer.id)
  BY DEF InverseOf
<1>10. CanApply(e, ls)
  BY DEF CanApply
<1>. QED
  BY <1>4, <1>5, <1>8, <1>9, <1>10 DEF Follows, S

LEMMA RemoveLayerFollows ==
    ASSUME NEW ls \in Seq(Layer), Distinct(ls), NEW activeId, NEW T \in Seq(Shape),
           NEW e \in Edit, e.op = "RemoveLayer", Moves(e, Structure(ls), T)
    PROVE  Follows(e, ls, activeId, T)
<1> DEFINE S == Structure(ls)
<1>1. PICK i \in 1..Len(S) : S[i].id = e.id /\ T = RemoveAt(S, i) /\ T # << >>
  BY DEF Moves
<1> DEFINE restores == AddLayer(ls[i], i, e.id = activeId)
<1>2. /\ S \in Seq(Shape) /\ Len(S) = Len(ls) /\ Len(S) \in Nat
      /\ i \in 1..Len(ls) /\ i \in Nat /\ S[i] = ShapeOf(ls[i]) /\ S[i] \in Shape
  BY StructureTyped, LenProperties, ElementOfSeq
<1>3. Position(ls, e.id) = i /\ e.id \in Ids(ls) /\ NoDuplicates(ls) /\ NoDuplicates(S)
  <2>1. NoDuplicates(ls)
    BY DEF Distinct
  <2>2. S[i].id = ls[i].id /\ i \in DOMAIN ls
    BY <1>2, StructureIds, LenProperties
  <2>3. Position(ls, S[i].id) = i
    BY <1>2, <2>1, StructureIds
  <2>4. NoDuplicates(S)
    BY <2>1, StructureIds
  <2>. QED
    BY <1>1, <2>1, <2>2, <2>3, <2>4 DEF Ids
<1>4. LayersAfter(e, ls) = RemoveAt(ls, i)
  BY <1>3 DEF LayersAfter
<1>5. Structure(RemoveAt(ls, i)) = T
  BY <1>1, <1>2, StructureRemove
<1>6. InverseOf(e, ls, activeId) = restores
  BY <1>3 DEF InverseOf
<1>7. restores.op = "AddLayer" /\ restores.layer = ls[i] /\ restores.index = i
  BY DEF AddLayer
<1> HIDE DEF S, restores
<1>8. Len(T) = Len(S) - 1
  BY <1>1, <1>2, RemoveAtProperties
<1>9. Len(ls) > 1
  <2>1. Len(T) \in Nat \ {0}
    BY <1>1, EmptySeq
  <2>. QED
    BY <1>2, <1>8, <2>1
<1>10. AtMost(i, Len(T) + 1) = i /\ i \in 1..Len(T) + 1
  BY <1>1, <1>2, <1>8 DEF AtMost
<1>11. S[i].id \notin Ids(T) /\ InsertAt(T, i, S[i]) = S
  BY <1>1, <1>2, <1>3, RemoveAtIds, RemoveThenInsert
<1>12. Inserts(S[i], i, T, S)
  BY <1>10, <1>11 DEF Inserts
<1>13. Moves(restores, T, S)
  BY <1>2, <1>7, <1>10, <1>12 DEF Moves
<1>14. CanApply(e, ls)
  BY <1>3, <1>9 DEF CanApply
<1>. QED
  BY <1>4, <1>5, <1>6, <1>13, <1>14 DEF Follows, S

LEMMA MoveLayerFollows ==
    ASSUME NEW ls \in Seq(Layer), Distinct(ls), NEW activeId, NEW T \in Seq(Shape),
           NEW e \in Edit, e.op = "MoveLayer", Moves(e, Structure(ls), T)
    PROVE  Follows(e, ls, activeId, T)
<1> DEFINE S == Structure(ls)
           j == AtMost(e.index, Len(S))
<1>1. PICK i \in 1..Len(S) : S[i].id = e.id /\ T = InsertAt(RemoveAt(S, i), j, S[i])
  BY DEF Moves
<1> DEFINE R == RemoveAt(S, i)
           l == S[i]
           back == MoveLayer(e.id, i)
<1>2. /\ S \in Seq(Shape) /\ Len(S) = Len(ls) /\ Len(S) \in Nat
      /\ i \in 1..Len(ls) /\ i \in Nat /\ l = ShapeOf(ls[i]) /\ l \in Shape
      /\ ls[i] \in Layer
  BY StructureTyped, LenProperties, ElementOfSeq
<1>3. Position(ls, e.id) = i /\ e.id \in Ids(ls)
  <2>1. NoDuplicates(ls)
    BY DEF Distinct
  <2>2. S[i].id = ls[i].id /\ i \in DOMAIN ls
    BY <1>2, StructureIds, LenProperties
  <2>3. Position(ls, S[i].id) = i
    BY <1>2, <2>1, StructureIds
  <2>4. NoDuplicates(S)
    BY <2>1, StructureIds
  <2>. QED
    BY <1>1, <2>1, <2>2, <2>3, <2>4 DEF Ids
<1>4. LayersAfter(e, ls) = InsertAt(RemoveAt(ls, i), j, ls[i])
  BY <1>2, <1>3 DEF LayersAfter
<1>5. InverseOf(e, ls, activeId) = back
  BY <1>3 DEF InverseOf
<1>6. back.op = "MoveLayer" /\ back.id = e.id /\ back.index = i
  BY DEF MoveLayer
<1>7. CanApply(e, ls)
  BY <1>3 DEF CanApply
<1>8. j \in 1..Len(S)
  <2>1. e.index \in Nat \ {0}
    BY EditVariants
  <2>. QED
    BY <1>1, <1>2, <2>1 DEF AtMost
<1>S. S = Structure(ls) /\ T = InsertAt(R, j, l) /\ S[i] = l /\ R = RemoveAt(S, i) /\ l.id = e.id
  BY <1>1
<1>9. i \in 1..Len(S)
  OBVIOUS
<1> HIDE DEF S, j, R, l, back
<1>10. R \in Seq(Shape) /\ Len(R) = Len(S) - 1 /\ Structure(RemoveAt(ls, i)) = R
  <2>1. R \in Seq(Shape) /\ Len(R) = Len(S) - 1
    BY <1>2, <1>9, <1>S, RemoveAtProperties
  <2>2. Structure(RemoveAt(ls, i)) = RemoveAt(Structure(ls), i)
    BY <1>2, StructureRemove
  <2>. QED
    BY <1>S, <2>1, <2>2, Zenon
<1>11. /\ RemoveAt(ls, i) \in Seq(Layer) /\ Len(RemoveAt(ls, i)) = Len(ls) - 1
  BY <1>2, RemoveAtProperties
<1>12. Structure(InsertAt(RemoveAt(ls, i), j, ls[i])) = T
  <2>1. j \in 1..Len(RemoveAt(ls, i)) + 1
    BY <1>2, <1>8, <1>11
  <2>. QED
    BY <1>2, <1>S, <1>10, <1>11, <2>1, StructureInsert
<1>13. j \in 1..Len(R) + 1
  BY <1>2, <1>8, <1>10
<1>14. T[j] = l /\ RemoveAt(T, j) = R /\ Len(T) = Len(S)
  <2>1. RemoveAt(InsertAt(R, j, l), j) = R /\ InsertAt(R, j, l)[j] = l
    BY <1>2, <1>10, <1>13, InsertThenRemove
  <2>2. Len(InsertAt(R, j, l)) = Len(R) + 1
    BY <1>2, <1>10, <1>13, InsertAtProperties
  <2>. QED
    BY <1>2, <1>10, <1>S, <2>1, <2>2
<1>15. InsertAt(R, i, l) = S
  BY <1>2, <1>9, <1>S, RemoveThenInsert
<1>16. AtMost(i, Len(T)) = i /\ j \in 1..Len(T)
  BY <1>2, <1>8, <1>9, <1>14 DEF AtMost
<1>17. /\ T[j].id = back.id
       /\ S = InsertAt(RemoveAt(T, j), AtMost(back.index, Len(T)), T[j])
  BY <1>6, <1>14, <1>15, <1>16, <1>S
<1>18. Moves(back, T, S)
  BY <1>6, <1>16, <1>17 DEF Moves
<1>. QED
  BY <1>4, <1>5, <1>7, <1>12, <1>18 DEF Follows, S

LEMMA EditFollows ==
    ASSUME NEW ls \in Seq(Layer), Distinct(ls), ls # << >>, NEW activeId, NEW T \in Seq(Shape),
           NEW e \in Edit, Moves(e, Structure(ls), T)
    PROVE  Follows(e, ls, activeId, T)
BY EditVariants, AddStrokeFollows, RemoveStrokeFollows, AddLayerFollows, RemoveLayerFollows,
   MoveLayerFollows

(***************************************************************************)
(* The versions with the two stacks along them.                            *)
(***************************************************************************)
Line(vs, p, f, S) ==
    /\ vs \in Seq(Seq(Shape))
    /\ Len(vs) = Len(p) + 1 + Len(f)
    /\ vs[Len(p) + 1] = S
    /\ \A i \in 1..Len(p) : Moves(p[i], vs[i + 1], vs[i])
    /\ \A i \in 1..Len(f) : Moves(f[i], vs[Len(vs) - i], vs[Len(vs) - i + 1])

\* The top entries lead to the neighbours of the current version.
LEMMA LineNeighbours ==
    ASSUME NEW vs, NEW p \in Seq(Edit), NEW f \in Seq(Edit), NEW S, Line(vs, p, f, S)
    PROVE  /\ S \in Seq(Shape)
           /\ p # << >> => /\ Len(p) \in 1..Len(vs) /\ vs[Len(p)] \in Seq(Shape)
                           /\ Moves(Last(p), S, vs[Len(p)])
           /\ f # << >> => /\ Len(p) + 2 \in 1..Len(vs) /\ vs[Len(p) + 2] \in Seq(Shape)
                           /\ Moves(Last(f), S, vs[Len(p) + 2])
<1> DEFINE n == Len(p)
           m == Len(f)
<1>1. /\ n \in Nat /\ m \in Nat
      /\ p # << >> => n # 0
      /\ f # << >> => m # 0
  BY LenProperties, EmptySeq
<1>2. /\ vs \in Seq(Seq(Shape)) /\ Len(vs) = n + 1 + m /\ vs[n + 1] = S
      /\ \A i \in 1..n : Moves(p[i], vs[i + 1], vs[i])
      /\ \A i \in 1..m : Moves(f[i], vs[Len(vs) - i], vs[Len(vs) - i + 1])
  BY Zenon DEF Line
<1>3. Last(p) = p[n] /\ Last(f) = f[m]
  BY DEF Last
<1> HIDE DEF n, m
<1>4. \A i \in 1..Len(vs) : vs[i] \in Seq(Shape)
  BY <1>2, ElementOfSeq
<1>5. S \in Seq(Shape)
  BY <1>1, <1>2, <1>4
<1>6. ASSUME p # << >>
      PROVE  n \in 1..Len(vs) /\ vs[n] \in Seq(Shape) /\ Moves(Last(p), S, vs[n])
  <2>1. n \in 1..Len(vs) /\ n \in 1..n
    BY <1>1, <1>2, <1>6
  <2>. QED
    BY <1>2, <1>3, <1>4, <2>1
<1>7. ASSUME f # << >>
      PROVE  n + 2 \in 1..Len(vs) /\ vs[n + 2] \in Seq(Shape) /\ Moves(Last(f), S, vs[n + 2])
  <2>1. /\ n + 2 \in 1..Len(vs) /\ m \in 1..m
        /\ Len(vs) - m = n + 1 /\ Len(vs) - m + 1 = n + 2
    BY <1>1, <1>2, <1>7
  <2>2. Moves(f[m], vs[Len(vs) - m], vs[Len(vs) - m + 1])
    BY <1>2, <2>1, Zenon
  <2>. QED
    BY <1>2, <1>3, <1>4, <2>1, <2>2
<1>. QED
  BY <1>5, <1>6, <1>7 DEF n

LEMMA FrontIs ==
    ASSUME NEW stack \in Seq(Edit), stack # << >>
    PROVE  /\ Len(Front(stack)) = Len(stack) - 1
           /\ \A i \in 1..Len(stack) - 1 : Front(stack)[i] = stack[i]
<1> DEFINE m == Len(stack) - 1
<1>1. m \in Nat /\ 1 \in Int /\ m \in Int /\ \A i \in 1..m : stack[i] \in Edit
  BY EmptySeq, ElementOfSeq
<1> HIDE DEF m
<1>2. /\ Len(SubSeq(stack, 1, m)) = IF 1 <= m THEN m - 1 + 1 ELSE 0
      /\ \A i \in 1..m - 1 + 1 : SubSeq(stack, 1, m)[i] = stack[1 + i - 1]
  BY <1>1, SubSeqProperties
<1>3. /\ Len(SubSeq(stack, 1, m)) = m
      /\ \A i \in 1..m : SubSeq(stack, 1, m)[i] = stack[i]
  BY <1>1, <1>2
<1>. QED
  BY <1>3 DEF Front, m

LEMMA LineCommit ==
    ASSUME NEW vs, NEW p \in Seq(Edit), NEW f \in Seq(Edit), NEW S, Line(vs, p, f, S),
           NEW T \in Seq(Shape), NEW e \in Edit, Moves(e, T, S)
    PROVE  Line(Append(SubSeq(vs, 1, Len(p) + 1), T), Append(p, e), << >>, T)
<1> DEFINE n == Len(p)
           q == Append(p, e)
           kept == SubSeq(vs, 1, n + 1)
           new == Append(kept, T)
<1>1. /\ n \in Nat /\ Len(f) \in Nat
      /\ vs \in Seq(Seq(Shape)) /\ Len(vs) = n + 1 + Len(f) /\ vs[n + 1] = S
      /\ \A i \in 1..n : Moves(p[i], vs[i + 1], vs[i])
  BY LenProperties DEF Line
<1>2. /\ Len(q) = n + 1 /\ q[n + 1] = e
      /\ \A i \in 1..n : q[i] = p[i]
  BY AppendProperties
<1>3. Len(<< >>) = 0
  BY EmptySeq
<1> HIDE DEF n, q
<1>4. /\ kept \in Seq(Seq(Shape)) /\ Len(kept) = n + 1
      /\ \A i \in 1..n + 1 : kept[i] = vs[i]
  <2>1. \A i \in 1..Len(vs) : vs[i] \in Seq(Shape)
    BY <1>1, ElementOfSeq
  <2> DEFINE k == n + 1
  <2>2. k \in Int /\ 1 \in Int /\ k >= 1 /\ \A i \in 1..k : vs[i] \in Seq(Shape)
    BY <1>1, <2>1
  <2> HIDE DEF k
  <2>3. /\ SubSeq(vs, 1, k) \in Seq(Seq(Shape))
        /\ Len(SubSeq(vs, 1, k)) = IF 1 <= k THEN k - 1 + 1 ELSE 0
        /\ \A i \in 1..k - 1 + 1 : SubSeq(vs, 1, k)[i] = vs[1 + i - 1]
    BY <2>2, SubSeqProperties
  <2>4. /\ SubSeq(vs, 1, k) \in Seq(Seq(Shape))
        /\ Len(SubSeq(vs, 1, k)) = k
        /\ \A i \in 1..k : SubSeq(vs, 1, k)[i] = vs[i]
    BY <2>2, <2>3
  <2>. QED
    BY <2>4 DEF k
<1> HIDE DEF kept
<1>5. /\ new \in Seq(Seq(Shape)) /\ Len(new) = n + 2
      /\ new[n + 2] = T
      /\ \A i \in 1..n + 1 : new[i] = vs[i]
  <2>1. /\ new \in Seq(Seq(Shape)) /\ Len(new) = Len(kept) + 1
        /\ \A i \in 1..Len(kept) : new[i] = kept[i]
        /\ new[Len(kept) + 1] = T
    BY <1>4, AppendProperties
  <2> HIDE DEF new
  <2>2. Len(kept) + 1 = n + 2
    BY <1>1, <1>4
  <2>. QED
    BY <1>4, <2>1, <2>2
<1> HIDE DEF new
<1>6. ASSUME NEW i \in 1..Len(q) PROVE Moves(q[i], new[i + 1], new[i])
  <2>1. CASE i \in 1..n
    <3>0. i \in 1..n + 1 /\ i + 1 \in 1..n + 1
      BY <1>1, <2>1
    <3>1. new[i] = vs[i] /\ new[i + 1] = vs[i + 1] /\ q[i] = p[i]
      BY <1>2, <1>5, <2>1, <3>0, Zenon
    <3>. QED
      BY <1>1, <2>1, <3>1, Zenon
  <2>2. CASE i = n + 1
    <3>1. new[i] = S /\ new[i + 1] = T /\ q[i] = e
      BY <1>1, <1>2, <1>5, <2>2
    <3>. QED
      BY <3>1, Zenon
  <2>. QED
    BY <1>1, <1>2, <2>1, <2>2
<1>7. /\ Len(new) = Len(q) + 1 + Len(<< >>)
      /\ new[Len(q) + 1] = T
  BY <1>1, <1>2, <1>3, <1>5
<1>8. \A i \in 1..Len(<< >>) : Moves(<< >>[i], new[Len(new) - i], new[Len(new) - i + 1])
  BY <1>3
<1>9. Line(new, q, << >>, T)
  BY <1>5, <1>6, <1>7, <1>8, Zenon DEF Line
<1>. QED
  BY <1>9 DEF new, kept, q, n

LEMMA LineBack ==
    ASSUME NEW vs, NEW p \in Seq(Edit), NEW f \in Seq(Edit), NEW S, Line(vs, p, f, S),
           p # << >>, NEW e \in Edit, Moves(e, vs[Len(p)], S)
    PROVE  Line(vs, Front(p), Append(f, e), vs[Len(p)])
<1> DEFINE n == Len(p)
           m == Len(f)
           q == Front(p)
           g == Append(f, e)
<1>1. /\ n \in Nat \ {0} /\ m \in Nat
      /\ vs \in Seq(Seq(Shape)) /\ Len(vs) = n + 1 + m /\ vs[n + 1] = S
      /\ \A i \in 1..n : Moves(p[i], vs[i + 1], vs[i])
      /\ \A i \in 1..m : Moves(f[i], vs[Len(vs) - i], vs[Len(vs) - i + 1])
  BY LenProperties, EmptySeq DEF Line
<1>2. /\ Len(g) = m + 1 /\ g[m + 1] = e
      /\ \A i \in 1..m : g[i] = f[i]
  BY AppendProperties
<1>3. /\ Len(q) = n - 1
      /\ \A i \in 1..n - 1 : q[i] = p[i]
  BY FrontIs
<1> HIDE DEF n, m, q, g
<1>4. Len(vs) = Len(q) + 1 + Len(g) /\ Len(q) + 1 = n
  BY <1>1, <1>2, <1>3
<1>5. ASSUME NEW i \in 1..Len(q) PROVE Moves(q[i], vs[i + 1], vs[i])
  <2>1. i \in 1..n /\ q[i] = p[i]
    BY <1>1, <1>3
  <2>. QED
    BY <1>1, <2>1, Zenon
<1>6. ASSUME NEW i \in 1..Len(g) PROVE Moves(g[i], vs[Len(vs) - i], vs[Len(vs) - i + 1])
  <2>1. CASE i \in 1..m
    BY <1>1, <1>2, <2>1, Zenon
  <2>2. CASE i = m + 1
    <3>1. Len(vs) - i = n /\ Len(vs) - i + 1 = n + 1 /\ g[i] = e
      BY <1>1, <1>2, <2>2
    <3>2. Moves(e, vs[n], S)
      BY DEF n
    <3>. QED
      BY <1>1, <3>1, <3>2
  <2>. QED
    BY <1>1, <1>2, <2>1, <2>2
<1>7. Line(vs, q, g, vs[n])
  BY <1>1, <1>4, <1>5, <1>6 DEF Line
<1>. QED
  BY <1>7 DEF q, g, n

LEMMA LineForth ==
    ASSUME NEW vs, NEW p \in Seq(Edit), NEW f \in Seq(Edit), NEW S, Line(vs, p, f, S),
           f # << >>, NEW e \in Edit, Moves(e, vs[Len(p) + 2], S)
    PROVE  Line(vs, Append(p, e), Front(f), vs[Len(p) + 2])
<1> DEFINE n == Len(p)
           m == Len(f)
           q == Append(p, e)
           g == Front(f)
<1>1. /\ n \in Nat /\ m \in Nat \ {0}
      /\ vs \in Seq(Seq(Shape)) /\ Len(vs) = n + 1 + m /\ vs[n + 1] = S
      /\ \A i \in 1..n : Moves(p[i], vs[i + 1], vs[i])
      /\ \A i \in 1..m : Moves(f[i], vs[Len(vs) - i], vs[Len(vs) - i + 1])
  BY LenProperties, EmptySeq DEF Line
<1>2. /\ Len(q) = n + 1 /\ q[n + 1] = e
      /\ \A i \in 1..n : q[i] = p[i]
  BY AppendProperties
<1>3. /\ Len(g) = m - 1
      /\ \A i \in 1..m - 1 : g[i] = f[i]
  BY FrontIs
<1> HIDE DEF n, m, q, g
<1>4. Len(vs) = Len(q) + 1 + Len(g) /\ Len(q) + 1 = n + 2
  BY <1>1, <1>2, <1>3
<1>5. ASSUME NEW i \in 1..Len(q) PROVE Moves(q[i], vs[i + 1], vs[i])
  <2>1. CASE i \in 1..n
    BY <1>1, <1>2, <2>1, Zenon
  <2>2. CASE i = n + 1
    <3>1. i + 1 = n + 2 /\ q[i] = e /\ vs[i] = S
      BY <1>1, <1>2, <2>2
    <3>2. Moves(e, vs[n + 2], S)
      BY DEF n
    <3>. QED
      BY <3>1, <3>2
  <2>. QED
    BY <1>1, <1>2, <2>1, <2>2
<1>6. ASSUME NEW i \in 1..Len(g) PROVE Moves(g[i], vs[Len(vs) - i], vs[Len(vs) - i + 1])
  <2>1. i \in 1..m /\ g[i] = f[i]
    BY <1>1, <1>3
  <2>. QED
    BY <1>1, <2>1, Zenon
<1>7. Line(vs, q, g, vs[n + 2])
  BY <1>1, <1>4, <1>5, <1>6 DEF Line
<1>. QED
  BY <1>7 DEF q, g, n

(***************************************************************************)
(* The invariant.                                                          *)
(***************************************************************************)
LineInv == HInv /\ Line(versions, past, future, Structure(layers))

LEMMA LineTyped ==
    ASSUME LineInv
    PROVE  /\ layers \in Seq(Layer) /\ layers # << >> /\ Distinct(layers)
           /\ past \in Seq(Edit) /\ future \in Seq(Edit)
           /\ Structure(layers) \in Seq(Shape)
           /\ NoDuplicates(layers)
<1>1. /\ layers \in Seq(Layer) /\ activeLayer \in Ids(layers) /\ Distinct(layers)
      /\ past \in Seq(Edit) /\ future \in Seq(Edit)
  BY DEF LineInv, HInv, IInv, TypeOK, ActiveLayerExists
<1>2. layers # << >>
  <2>1. Ids(<< >>) = {}
    BY DEF Ids
  <2>. QED
    BY <1>1, <2>1
<1>. QED
  BY <1>1, <1>2, StructureTyped DEF Distinct

LEMMA InitLineInv == AuditInit => LineInv
<1> SUFFICES ASSUME AuditInit PROVE LineInv
  OBVIOUS
<1>1. HInv
  BY InitHInv DEF AuditInit
<1>2. past = << >> /\ future = << >> /\ versions = <<Structure(layers)>> /\ layers \in Seq(Layer)
  BY <1>1 DEF AuditInit, Init, HInv, IInv, TypeOK
<1> DEFINE S == Structure(layers)
<1>3. S \in Seq(Shape)
  BY <1>2, StructureTyped
<1> HIDE DEF S
<1>4. <<S>> \in Seq(Seq(Shape)) /\ Len(<<S>>) = 1 /\ <<S>>[1] = S /\ Len(<< >>) = 0
  BY <1>3
<1>5. Line(<<S>>, << >>, << >>, S)
  BY <1>4 DEF Line
<1>. QED
  BY <1>1, <1>2, <1>5 DEF LineInv, S

(***************************************************************************)
(* Each edit that is recorded leads to another version.                    *)
(***************************************************************************)
LEMMA CommitLine ==
    ASSUME LineInv, NEW e \in Edit, NEW T \in Seq(Shape), Moves(e, Structure(layers), T),
           Commit(e), NewVersion
    PROVE  /\ Line(versions', past', future', Structure(layers'))
           /\ Timeline!Commit
<1> DEFINE inverse == InverseOf(e, layers, activeLayer)
<1>1. /\ layers \in Seq(Layer) /\ layers # << >> /\ Distinct(layers)
      /\ past \in Seq(Edit) /\ future \in Seq(Edit)
      /\ Line(versions, past, future, Structure(layers))
  BY LineTyped DEF LineInv
<1>2. /\ layers' = LayersAfter(e, layers)
      /\ past' = Append(past, inverse)
      /\ future' = << >>
      /\ versions' = Append(SubSeq(versions, 1, Len(past) + 1), Structure(layers'))
  BY DEF Commit, NewVersion
<1>3. /\ CanApply(e, layers)
      /\ Structure(layers') = T
      /\ Moves(inverse, T, Structure(layers))
  BY <1>1, <1>2, EditFollows DEF Follows
<1>4. inverse \in Edit
  BY <1>1, <1>3, EditTyped
<1> HIDE DEF inverse
<1>5. Line(versions', past', future', Structure(layers'))
  BY <1>1, <1>2, <1>3, <1>4, LineCommit
<1>6. Len(past') + 1 = (Len(past) + 1) + 1
  BY <1>1, <1>2, <1>4, AppendProperties
<1>. QED
  BY <1>2, <1>5, <1>6 DEF Timeline!Commit

LEMMA EndStrokeLine ==
    ASSUME LineInv, NEW id, AuditEndStroke(id)
    PROVE  /\ Line(versions', past', future', Structure(layers'))
           /\ Timeline!Commit
<1> DEFINE S == Structure(layers)
           k == StrokeTarget
           e == AddStroke(active, k)
           p == Position(layers, k)
           T == Redrawn(S, p, Append(S[p].strokes, active.id))
<1>1. /\ layers \in Seq(Layer) /\ NoDuplicates(layers) /\ S \in Seq(Shape) /\ Len(S) = Len(layers)
  BY LineTyped, StructureTyped
<1>2. HInv /\ EndStroke(id) /\ NewVersion
  BY DEF LineInv, AuditEndStroke
<1>3. HasActiveStroke /\ active \in Stroke
  BY <1>2, ActiveTyped DEF EndStroke, HInv, IInv, HasActiveStroke
<1>4. k \in LayerId /\ k \in Ids(layers)
  BY <1>2, <1>3, StrokeTargetIsCaptured DEF HInv, IInv, TypeOK
<1>5. e \in Edit /\ CanApply(e, layers)
  BY <1>3, <1>4 DEF AddStroke, Edit, CanApply
<1>6. Commit(e)
  BY <1>2, <1>5, Zenon DEF EndStroke
<1>7. p \in 1..Len(layers) /\ layers[p].id = k /\ layers[p] \in ToSet(layers)
  BY <1>1, <1>4, LayerOf
<1>8. active.id \in StrokeId /\ active.id # 0
  BY <1>3 DEF Stroke, StrokeId
<1>9. active.id \notin Ids(layers[p].strokes)
  <2>1. \A x \in Contents(layers) : x[2] # active.id
    BY <1>2, <1>3 DEF HInv
  <2>2. active.id \in Ids(layers[p].strokes) <=> <<layers[p].id, active.id>> \in Contents(layers)
    BY <1>1, <1>7, <1>8, StrokeOf
  <2>. QED
    BY <2>1, <2>2
<1>10. S[p].id = k /\ S[p].strokes = Order(layers[p].strokes)
  BY <1>1, <1>7, StructureIds
<1>11. active.id \notin ToSet(S[p].strokes)
  <2>1. layers[p].strokes \in Seq(Stroke)
    BY <1>1, <1>7, LayerAt
  <2>2. ToSet(Order(layers[p].strokes)) = Ids(layers[p].strokes)
    BY DEF ToSet, Ids, Order
  <2>. QED
    BY <1>9, <1>10, <2>2
<1>12. p \in 1..Len(S)
  BY <1>1, <1>7
<1> HIDE DEF S, k, p
<1>13. T \in Seq(Shape)
  BY <1>1, <1>8, <1>12, DrawnProperties
<1>14. Draws(k, active.id, S, T)
  BY <1>10, <1>11, <1>12 DEF Draws
<1>15. Moves(e, S, T)
  BY <1>14 DEF Moves, AddStroke
<1> HIDE DEF T, e
<1>. QED
  BY <1>2, <1>5, <1>6, <1>13, <1>15, CommitLine DEF S

LEMMA AddLayerLine ==
    ASSUME LineInv, AuditAddLayer
    PROVE  /\ Line(versions', past', future', Structure(layers'))
           /\ Timeline!Commit
<1> DEFINE S == Structure(layers)
           l == NewLayer(nextLayerId)
           e == AddLayer(l, Len(layers) + 1, FALSE)
           T == InsertAt(S, Len(S) + 1, ShapeOf(l))
<1>1. /\ layers \in Seq(Layer) /\ S \in Seq(Shape) /\ Len(S) = Len(layers) /\ Len(S) \in Nat
      /\ Ids(S) = Ids(layers)
  BY LineTyped, StructureTyped, StructureIds, LenProperties
<1>2. HInv /\ Commit(e) /\ NewVersion
  BY DEF LineInv, AuditAddLayer, NewTopLayer
<1>3. nextLayerId \in LayerId
  BY <1>2 DEF HInv, IInv, TypeOK
<1>4. l \in Layer /\ l.id = nextLayerId
  BY <1>3, DefaultPropsAssumption DEF NewLayer, Layer
<1>5. ShapeOf(l) \in Shape /\ ShapeOf(l).id = nextLayerId
  BY <1>4, ShapeTyped DEF ShapeOf
<1>6. e \in Edit /\ e.op = "AddLayer" /\ e.layer = l /\ e.index = Len(S) + 1
  BY <1>1, <1>4 DEF AddLayer, Edit
<1>7. nextLayerId \notin Ids(S)
  <2>1. ASSUME nextLayerId \in Ids(layers) PROVE FALSE
    <3>1. <<nextLayerId, 0>> \in Contents(layers)
      BY <1>1, <2>1, LayerOf
    <3>2. nextLayerId \in KnownLayers
      BY <1>2, <3>1, ContentsMinted
    <3>. QED
      BY <1>3, <3>2 DEF KnownLayers, LayerId
  <2>. QED
    BY <1>1, <2>1
<1>8. AtMost(Len(S) + 1, Len(S) + 1) = Len(S) + 1 /\ Len(S) + 1 \in 1..Len(S) + 1
  BY <1>1 DEF AtMost
<1> HIDE DEF S, l, e
<1>9. T \in Seq(Shape)
  BY <1>1, <1>5, <1>8, InsertAtProperties
<1>10. Inserts(ShapeOf(l), Len(S) + 1, S, T)
  BY <1>5, <1>7, <1>8 DEF Inserts
<1> HIDE DEF T
<1>11. Moves(e, S, T)
  BY <1>6, <1>8, <1>10 DEF Moves
<1>. QED
  BY <1>2, <1>6, <1>9, <1>11, CommitLine DEF S

LEMMA RemoveLayerLine ==
    ASSUME LineInv, NEW id \in KnownLayers, AuditRemoveLayer(id)
    PROVE  /\ Line(versions', past', future', Structure(layers'))
           /\ Timeline!Commit
<1> DEFINE S == Structure(layers)
           e == RemoveLayer(id)
           p == Position(layers, id)
           T == RemoveAt(S, p)
<1>1. /\ layers \in Seq(Layer) /\ S \in Seq(Shape) /\ Len(S) = Len(layers) /\ Len(S) \in Nat
  BY LineTyped, StructureTyped, LenProperties
<1>2. CanApply(e, layers) /\ Commit(e) /\ NewVersion
  BY DEF AuditRemoveLayer, DropLayer
<1>3. id \in LayerId
  BY DEF KnownLayers, LayerId
<1>4. e \in Edit /\ e.op = "RemoveLayer" /\ e.id = id
  BY <1>3 DEF RemoveLayer, Edit
<1>5. Len(layers) > 1 /\ id \in Ids(layers)
  BY <1>2, <1>4 DEF CanApply
<1>6. p \in 1..Len(S) /\ S[p].id = id
  <2>1. p \in 1..Len(layers) /\ layers[p].id = id
    BY <1>1, <1>5, LayerOf
  <2>. QED
    BY <1>1, <2>1, StructureIds
<1> HIDE DEF S, e, p
<1>7. T \in Seq(Shape) /\ Len(T) = Len(S) - 1
  BY <1>1, <1>6, RemoveAtProperties
<1>8. T # << >>
  <2>1. Len(<< >>) = 0
    BY EmptySeq
  <2>. QED
    BY <1>1, <1>5, <1>7, <2>1
<1>9. \E i \in 1..Len(S) : S[i].id = id /\ T = RemoveAt(S, i)
  BY <1>6
<1> HIDE DEF T
<1>10. Moves(e, S, T)
  BY <1>4, <1>8, <1>9 DEF Moves
<1>. QED
  BY <1>2, <1>4, <1>7, <1>10, CommitLine DEF S

LEMMA MoveLayerLine ==
    ASSUME LineInv, NEW id \in KnownLayers, NEW index \in 1..Len(layers) + 1,
           AuditMoveLayer(id, index)
    PROVE  /\ Line(versions', past', future', Structure(layers'))
           /\ Timeline!Commit
<1> DEFINE S == Structure(layers)
           e == MoveLayer(id, index)
           p == Position(layers, id)
           R == RemoveAt(S, p)
           j == AtMost(index, Len(S))
           T == InsertAt(R, j, S[p])
<1>1. /\ layers \in Seq(Layer) /\ S \in Seq(Shape) /\ Len(S) = Len(layers) /\ Len(S) \in Nat
  BY LineTyped, StructureTyped, LenProperties
<1>2. CanApply(e, layers) /\ Commit(e) /\ NewVersion
  BY DEF AuditMoveLayer, ReorderLayer
<1>3. id \in LayerId /\ index \in Nat \ {0}
  BY <1>1 DEF KnownLayers, LayerId
<1>4. e \in Edit /\ e.op = "MoveLayer" /\ e.id = id /\ e.index = index
  BY <1>3 DEF MoveLayer, Edit
<1>5. id \in Ids(layers)
  BY <1>2, <1>4 DEF CanApply
<1>6. p \in 1..Len(S) /\ S[p].id = id /\ S[p] \in Shape
  <2>1. p \in 1..Len(layers) /\ layers[p].id = id
    BY <1>1, <1>5, LayerOf
  <2>. QED
    BY <1>1, <2>1, StructureIds, ElementOfSeq
<1> HIDE DEF S, e, p
<1>7. R \in Seq(Shape) /\ Len(R) = Len(S) - 1
  BY <1>1, <1>6, RemoveAtProperties
<1>8. j \in 1..Len(R) + 1
  BY <1>1, <1>3, <1>6, <1>7 DEF AtMost
<1>9. \E i \in 1..Len(S) :
        /\ S[i].id = id
        /\ T = InsertAt(RemoveAt(S, i), AtMost(index, Len(S)), S[i])
  BY <1>6
<1> HIDE DEF R, j
<1>10. T \in Seq(Shape)
  BY <1>6, <1>7, <1>8, InsertAtProperties
<1> HIDE DEF T
<1>11. Moves(e, S, T)
  BY <1>4, <1>9 DEF Moves
<1>. QED
  BY <1>2, <1>4, <1>10, <1>11, CommitLine DEF S

(***************************************************************************)
(* Undo and redo move along the line.                                      *)
(***************************************************************************)
LEMMA UndoLine ==
    ASSUME LineInv, Undo, UNCHANGED audit
    PROVE  /\ Line(versions', past', future', Structure(layers'))
           /\ Timeline!Undo
<1> DEFINE e == Last(past)
           inverse == InverseOf(e, layers, activeLayer)
           T == versions[Len(past)]
<1>1. /\ layers \in Seq(Layer) /\ layers # << >> /\ Distinct(layers)
      /\ past \in Seq(Edit) /\ future \in Seq(Edit)
      /\ Line(versions, past, future, Structure(layers))
  BY LineTyped DEF LineInv
<1>2. past # << >> /\ past' = Front(past) /\ versions' = versions
  BY DEF Undo, audit
<1>3. e \in Edit
  BY <1>1, <1>2, LastAndFront
<1>4. T \in Seq(Shape) /\ Moves(e, Structure(layers), T)
  BY <1>1, <1>2, LineNeighbours
<1>5. /\ CanApply(e, layers)
      /\ Structure(LayersAfter(e, layers)) = T
      /\ Moves(inverse, T, Structure(layers))
  BY <1>1, <1>3, <1>4, EditFollows DEF Follows
<1>6. layers' = LayersAfter(e, layers) /\ future' = Append(future, inverse)
  BY <1>5 DEF Undo
<1>7. inverse \in Edit
  BY <1>1, <1>3, <1>5, EditTyped
<1> HIDE DEF e, inverse
<1>8. Line(versions', past', future', Structure(layers'))
  BY <1>1, <1>2, <1>5, <1>6, <1>7, LineBack
<1>9. Len(past') = Len(past) - 1 /\ Len(past) \in Nat \ {0}
  BY <1>1, <1>2, FrontIs, EmptySeq
<1>10. /\ Len(past) + 1 > 1 /\ Len(past') + 1 = Len(past) + 1 - 1
       /\ Len(past) + 1 - 1 = Len(past)
  BY <1>9
<1>. QED
  BY <1>2, <1>5, <1>6, <1>8, <1>10 DEF Timeline!Undo

LEMMA RedoLine ==
    ASSUME LineInv, Redo, UNCHANGED audit
    PROVE  /\ Line(versions', past', future', Structure(layers'))
           /\ Timeline!Redo
<1> DEFINE e == Last(future)
           inverse == InverseOf(e, layers, activeLayer)
           T == versions[Len(past) + 2]
<1>1. /\ layers \in Seq(Layer) /\ layers # << >> /\ Distinct(layers)
      /\ past \in Seq(Edit) /\ future \in Seq(Edit)
      /\ Line(versions, past, future, Structure(layers))
  BY LineTyped DEF LineInv
<1>2. future # << >> /\ future' = Front(future) /\ versions' = versions
  BY DEF Redo, audit
<1>3. e \in Edit
  BY <1>1, <1>2, LastAndFront
<1>4. T \in Seq(Shape) /\ Moves(e, Structure(layers), T) /\ Len(past) + 2 \in 1..Len(versions)
  BY <1>1, <1>2, LineNeighbours
<1>5. /\ CanApply(e, layers)
      /\ Structure(LayersAfter(e, layers)) = T
      /\ Moves(inverse, T, Structure(layers))
  BY <1>1, <1>3, <1>4, EditFollows DEF Follows
<1>6. layers' = LayersAfter(e, layers) /\ past' = Append(past, inverse)
  BY <1>5 DEF Redo
<1>7. inverse \in Edit
  BY <1>1, <1>3, <1>5, EditTyped
<1> HIDE DEF e, inverse
<1>8. Line(versions', past', future', Structure(layers'))
  BY <1>1, <1>2, <1>5, <1>6, <1>7, LineForth
<1>9. Len(past') = Len(past) + 1 /\ Len(past) \in Nat /\ Len(versions) \in Nat
  <2>1. versions \in Seq(Seq(Shape))
    BY <1>1 DEF Line
  <2>. QED
    BY <1>1, <1>6, <1>7, <2>1, AppendProperties, LenProperties
<1>10. /\ Len(past) + 1 < Len(versions) /\ Len(past') + 1 = Len(past) + 1 + 1
       /\ Len(past) + 1 + 1 = Len(past) + 2
  BY <1>4, <1>9
<1>. QED
  BY <1>2, <1>5, <1>6, <1>8, <1>10 DEF Timeline!Redo

(***************************************************************************)
(* Everything else leaves the structure, the versions and the stacks.      *)
(***************************************************************************)
StaysPut == UNCHANGED <<versions, past, future>> /\ Structure(layers') = Structure(layers)

\* A revision changes no id.
LEMMA ReviseStructure ==
    ASSUME NEW ls \in Seq(Layer), NEW id, NEW u, RevisableLayers(ls, id, u) # {}
    PROVE  Structure(ReviseLayers(ls, id, u)) = Structure(ls)
<1> DEFINE p == Max(RevisableLayers(ls, id, u))
           drawn == ls[p].strokes
           n == Len(drawn)
           revised == Revise(drawn[n], u)
           new == [drawn EXCEPT ![n] = revised]
           S == Structure(ls)
<1>1. DOMAIN ls = 1..Len(ls) /\ Len(ls) \in Nat
  BY LenProperties
<1>2. p \in RevisableLayers(ls, id, u)
  BY <1>1, MaxOfPositions DEF RevisableLayers
<1>3. /\ p \in 1..Len(ls)
      /\ drawn # << >>
      /\ Revisable(drawn[n], u) # {}
  BY <1>1, <1>2 DEF RevisableLayers, Last
<1>4. drawn \in Seq(Stroke)
  BY <1>3, LayerAt
<1>5. n \in 1..Len(drawn)
  BY <1>3, <1>4, EmptySeq
<1>6. revised \in Stroke /\ revised.id = drawn[n].id
  BY <1>3, <1>4, <1>5, ElementOfSeq, ReviseTyped
<1>7. ReviseLayers(ls, id, u) = WithStrokes(ls, p, new)
  BY DEF ReviseLayers, WithStrokes
<1>8. S \in Seq(Shape) /\ Len(S) = Len(ls) /\ S[p].strokes = Order(drawn) /\ S[p] \in Shape
  BY <1>3, StructureTyped, StructureIds, ElementOfSeq
<1> HIDE DEF revised
<1>9. /\ new \in Seq(Stroke) /\ Len(new) = Len(drawn)
      /\ \A k \in 1..Len(drawn) : new[k] = IF k = n THEN revised ELSE drawn[k]
  BY <1>4, <1>5, <1>6, ExceptSeq
<1> HIDE DEF p, drawn, n, new
<1>10. Order(new) = Order(drawn)
  <2>1. \A k \in 1..Len(drawn) : new[k].id = drawn[k].id
    BY <1>6, <1>9
  <2>2. /\ Order(new) \in Seq(StrokeId) /\ Len(Order(new)) = Len(drawn)
        /\ \A k \in 1..Len(drawn) : Order(new)[k] = new[k].id
    BY <1>9, OrderTyped
  <2>3. /\ Order(drawn) \in Seq(StrokeId) /\ Len(Order(drawn)) = Len(drawn)
        /\ \A k \in 1..Len(drawn) : Order(drawn)[k] = drawn[k].id
    BY <1>4, OrderTyped
  <2>. QED
    BY <2>1, <2>2, <2>3, SeqEqual
<1>11. Structure(WithStrokes(ls, p, new)) = Redrawn(S, p, Order(new))
  BY <1>3, <1>9, StructureRedraw
<1>12. S[p].strokes = Order(new) /\ p \in 1..Len(S) /\ Order(new) \in Seq(StrokeId)
  BY <1>3, <1>8, <1>9, <1>10, OrderTyped
<1> DEFINE T == Redrawn(S, p, Order(new))
<1> HIDE DEF S
<1>13. /\ T \in Seq(Shape) /\ Len(T) = Len(S)
       /\ \A i \in 1..Len(S) : T[i] = IF i = p THEN [id |-> S[p].id, strokes |-> Order(new)] ELSE S[i]
  BY <1>8, <1>12, RedrawnProperties
<1>14. [id |-> S[p].id, strokes |-> Order(new)] = S[p]
  BY <1>8, <1>12 DEF Shape
<1> HIDE DEF T
<1>15. T = S
  <2>1. \A i \in 1..Len(S) : T[i] = S[i]
    BY <1>13, <1>14
  <2>. QED
    BY <1>8, <1>13, <2>1, SeqEqual
<1>. QED
  BY <1>7, <1>11, <1>15 DEF S, T

LEMMA ReviseStays ==
    ASSUME LineInv, NEW id, NEW u, AuditReviseSample(id, u)
    PROVE  StaysPut
<1>1. layers \in Seq(Layer)
  BY LineTyped
<1>2. UNCHANGED <<versions, past, future>>
  BY DEF AuditReviseSample, ReviseSample, history
<1>3. CASE UNCHANGED layers
  BY <1>2, <1>3 DEF StaysPut
<1>4. CASE RevisableLayers(layers, id, u) # {} /\ layers' = ReviseLayers(layers, id, u)
  BY <1>1, <1>2, <1>4, ReviseStructure DEF StaysPut
<1>. QED
  BY <1>3, <1>4 DEF AuditReviseSample, ReviseSample

LEMMA SetLayerPropsStays ==
    ASSUME LineInv, NEW id, NEW props \in LayerProps, AuditSetLayerProps(id, props)
    PROVE  StaysPut
<1> DEFINE p == Position(layers, id)
           old == layers[p]
           l == [old EXCEPT !.props = props]
           S == Structure(layers)
<1>1. layers \in Seq(Layer) /\ id \in Ids(layers)
  BY LineTyped DEF AuditSetLayerProps, SetLayerProps
<1>2. p \in 1..Len(layers)
  BY <1>1, PositionFound
<1>3. old \in Layer
  BY <1>1, <1>2, LayerAt
<1>4. l \in Layer /\ l.id = old.id /\ l.strokes = old.strokes
  BY <1>3 DEF Layer
<1>5. layers' = [layers EXCEPT ![p] = l] /\ UNCHANGED <<versions, past, future>>
  BY DEF AuditSetLayerProps, SetLayerProps, history
<1>o. old = layers[p]
  OBVIOUS
<1> HIDE DEF p, l, old
<1>6. /\ layers' \in Seq(Layer)
      /\ Len(layers') = Len(layers)
      /\ \A i \in 1..Len(layers) : layers'[i] = IF i = p THEN l ELSE layers[i]
  BY <1>1, <1>2, <1>4, <1>5, ExceptSeq
<1>7. ShapeOf(l) = ShapeOf(old)
  BY <1>4, Zenon DEF ShapeOf
<1>8. /\ S \in Seq(Shape) /\ Len(S) = Len(layers)
      /\ \A i \in 1..Len(layers) : S[i] = ShapeOf(layers[i])
  BY <1>1, StructureTyped
<1> HIDE DEF S
<1>9. \A i \in 1..Len(layers) : S[i] = ShapeOf(layers'[i])
  BY <1>6, <1>7, <1>8, <1>o
<1> DEFINE after == layers'
<1>10. /\ after \in Seq(Layer) /\ Len(S) = Len(after)
       /\ \A i \in 1..Len(after) : S[i] = ShapeOf(after[i])
  BY <1>6, <1>8, <1>9
<1> HIDE DEF after
<1>11. Structure(after) = S
  BY <1>8, <1>10, StructureIs
<1>. QED
  BY <1>5, <1>11 DEF StaysPut, after, S

\* A step of the audited engine is a step of the engine.
LEMMA AuditIsEngine == [AuditNext]_auditVars => [Next]_vars
<1> SUFFICES ASSUME AuditNext PROVE Next
  BY DEF auditVars
<1> USE DEF AuditNext, Next, Record, DrawOrSet
<1>1. CASE \E id \in KnownStrokes : AuditEndStroke(id)
  BY <1>1 DEF AuditEndStroke
<1>2. CASE AuditAddLayer
  BY <1>2 DEF AuditAddLayer
<1>3. CASE \E id \in KnownLayers : AuditRemoveLayer(id)
  BY <1>3 DEF AuditRemoveLayer
<1>4. CASE \E id \in KnownLayers : \E index \in 1..Len(layers) + 1 : AuditMoveLayer(id, index)
  BY <1>4 DEF AuditMoveLayer
<1>5. CASE \E sample \in NewSamples : AuditBeginStroke(sample)
  BY <1>5 DEF AuditBeginStroke
<1>6. CASE \E id \in KnownStrokes : \E u \in UpdateIndexes : AuditReviseSample(id, u)
  BY <1>6 DEF AuditReviseSample
<1>7. CASE \E id \in KnownLayers : \E props \in LayerProps : AuditSetLayerProps(id, props)
  BY <1>7 DEF AuditSetLayerProps
<1>. QED
  BY <1>1, <1>2, <1>3, <1>4, <1>5, <1>6, <1>7

\* A step is one of the undo line, or leaves it.
LEMMA AuditNextLine ==
    ASSUME LineInv, [AuditNext]_auditVars
    PROVE  /\ Line(versions', past', future', Structure(layers'))
           /\ [Timeline!Next]_<<Structure(layers), versions, Len(past) + 1>>
<1> USE DEF Timeline!Next
<1>1. CASE \E id \in KnownStrokes : AuditEndStroke(id)
  BY <1>1, EndStrokeLine
<1>2. CASE AuditAddLayer
  BY <1>2, AddLayerLine
<1>3. CASE \E id \in KnownLayers : AuditRemoveLayer(id)
  BY <1>3, RemoveLayerLine
<1>4. CASE \E id \in KnownLayers : \E index \in 1..Len(layers) + 1 : AuditMoveLayer(id, index)
  BY <1>4, MoveLayerLine
<1>5. CASE Undo /\ UNCHANGED audit
  BY <1>5, UndoLine
<1>6. CASE Redo /\ UNCHANGED audit
  BY <1>6, RedoLine
<1>7. CASE StaysPut
  BY <1>7 DEF StaysPut, LineInv
<1>8. CASE \/ \E sample \in NewSamples : AuditBeginStroke(sample)
           \/ \E id \in KnownStrokes : \E sample \in NewSamples : AddSample(id, sample) /\ UNCHANGED audit
           \/ \E id \in KnownStrokes : CancelStroke(id) /\ UNCHANGED audit
           \/ \E id \in KnownLayers : SetActiveLayer(id) /\ UNCHANGED audit
           \/ UNCHANGED auditVars
  <2>1. StaysPut
    BY <1>8 DEF StaysPut, AuditBeginStroke, BeginStroke, AddSample, CancelStroke, SetActiveLayer,
                audit, auditVars, vars, docVars, history
  <2>. QED
    BY <1>7, <2>1
<1>9. CASE \E id \in KnownStrokes : \E u \in UpdateIndexes : AuditReviseSample(id, u)
  BY <1>7, <1>9, ReviseStays
<1>10. CASE \E id \in KnownLayers : \E props \in LayerProps : AuditSetLayerProps(id, props)
  BY <1>7, <1>10, SetLayerPropsStays
<1>. QED
  BY <1>1, <1>2, <1>3, <1>4, <1>5, <1>6, <1>8, <1>9, <1>10 DEF AuditNext

LEMMA NextLineInv == LineInv /\ [AuditNext]_auditVars => LineInv'
<1> SUFFICES ASSUME LineInv, [AuditNext]_auditVars PROVE LineInv'
  OBVIOUS
<1>1. HInv'
  BY AuditIsEngine, NextHInv DEF LineInv
<1>2. Line(versions', past', future', Structure(layers'))
  BY AuditNextLine
<1>. QED
  BY <1>1, <1>2 DEF LineInv

(***************************************************************************)
(* The theorems.                                                           *)
(***************************************************************************)

\* The versions, the two stacks and the document agree: between any two
\* neighbouring versions there is one entry, and it leads from the one that is
\* nearer to the document to the other.
THEOREM LineInvariant == AuditSpec => []LineInv
BY InitLineInv, NextLineInv, PTL DEF AuditSpec

\* can_undo and can_redo are truthful: no version of the undo line is lost, and
\* none is counted twice.
THEOREM StacksCoverVersions == AuditSpec => []HistoryCoversVersions
<1>1. LineInv => HistoryCoversVersions
  BY DEF LineInv, Line, HistoryCoversVersions
<1>. QED
  BY <1>1, LineInvariant, PTL

\* The document moves along one line of versions: undo shows the version
\* before, redo the version after, an edit replaces what was undone, and every
\* other command leaves the line as it is.
THEOREM HistoryIsTimeline == AuditSpec => ImplementsTimeline
<1>1. AuditInit => Timeline!Init
  BY DEF AuditInit, Init, Timeline!Init
<1>2. LineInv /\ [AuditNext]_auditVars
        => [Timeline!Next]_<<Structure(layers), versions, Len(past) + 1>>
  BY AuditNextLine
<1>. QED
  BY <1>1, <1>2, LineInvariant, PTL DEF AuditSpec, ImplementsTimeline, Timeline!Spec

=============================================================================
