----------------------------- MODULE CopyProofs ------------------------------
(***************************************************************************)
(* What undo and redo put back is what was there: every copy of a stroke   *)
(* or layer, in the document or in a payload of the undo stacks, is on the *)
(* layer it was drawn on, with the attributes last set and with every      *)
(* sample that was finalised; and a document that is saved is what loading *)
(* gives back.                                                             *)
(*                                                                         *)
(* An edit moves copies between the document and its inverse and makes no  *)
(* other. What changes a copy in place, a revision or an attribute,        *)
(* changes the one in the document: it has to be the only one. Along the   *)
(* undo line a stroke is in consecutive versions and no others, and an     *)
(* entry that holds a copy is between a version that has the stroke and    *)
(* one, nearer to the document, that does not.                             *)
(***************************************************************************)
EXTENDS TimelineProofs, Persistence, FiniteSetTheorems

(***************************************************************************)
(* The copies a document and an entry hold: of a stroke with its layer, of *)
(* a layer its id and its attributes.                                      *)
(***************************************************************************)
StrokesOn(layer) == {<<s, layer.id>> : s \in ToSet(layer.strokes)}

DocStrokes(ls) == UNION {StrokesOn(layer) : layer \in ToSet(ls)}

DocProps(ls) == {<<layer.id, layer.props>> : layer \in ToSet(ls)}

EntryStrokes(e) ==
    CASE e.op = "AddStroke" -> {<<e.stroke, e.layer>>}
      [] e.op = "AddLayer"  -> StrokesOn(e.layer)
      [] OTHER -> {}

EntryProps(e) ==
    CASE e.op = "AddLayer" -> {<<e.layer.id, e.layer.props>>}
      [] OTHER -> {}

LEMMA SetIs ==
    ASSUME NEW S, NEW seq \in Seq(S)
    PROVE  \A x : x \in ToSet(seq) <=> \E i \in 1..Len(seq) : x = seq[i]
BY SetMember, Zenon

LEMMA AppendSet ==
    ASSUME NEW S, NEW seq \in Seq(S), NEW x \in S
    PROVE  /\ Append(seq, x) \in Seq(S)
           /\ ToSet(Append(seq, x)) = ToSet(seq) \cup {x}
<1> DEFINE new == Append(seq, x)
           n == Len(seq)
<1>1. /\ new \in Seq(S) /\ Len(new) = n + 1 /\ n \in Nat
      /\ \A k \in 1..n : new[k] = seq[k]
      /\ new[n + 1] = x
  BY AppendProperties, LenProperties
<1>2. \A y : y \in ToSet(seq) <=> \E k \in 1..n : y = seq[k]
  BY SetIs
<1> HIDE DEF new
<1>3. \A y : y \in ToSet(new) <=> \E k \in 1..Len(new) : y = new[k]
  BY <1>1, SetIs
<1>4. \A k : k \in 1..Len(new) <=> k \in 1..n \/ k = n + 1
  BY <1>1
<1> HIDE DEF n
<1>5. \A y : y \in ToSet(new) <=> y \in ToSet(seq) \/ y = x
  BY <1>1, <1>2, <1>3, <1>4
<1>. QED
  BY <1>1, <1>5 DEF new

LEMMA RemoveAtWithin ==
    ASSUME NEW S, NEW seq \in Seq(S), NEW i \in 1..Len(seq)
    PROVE  /\ RemoveAt(seq, i) \in Seq(S)
           /\ Len(RemoveAt(seq, i)) = Len(seq) - 1
           /\ ToSet(RemoveAt(seq, i)) \subseteq ToSet(seq)
           /\ seq[i] \in ToSet(seq)
<1> DEFINE rest == RemoveAt(seq, i)
           n == Len(seq)
<1>1. /\ rest \in Seq(S) /\ Len(rest) = n - 1 /\ n \in Nat
      /\ \A k \in 1..n - 1 : rest[k] = IF k < i THEN seq[k] ELSE seq[k + 1]
  BY RemoveAtProperties, LenProperties
<1>2. \A y : y \in ToSet(seq) <=> \E k \in 1..n : y = seq[k]
  BY SetIs
<1> HIDE DEF rest
<1>3. \A y : y \in ToSet(rest) <=> \E k \in 1..Len(rest) : y = rest[k]
  BY <1>1, SetIs
<1>4. \A k \in 1..Len(rest) : rest[k] \in ToSet(seq)
  BY <1>1, <1>2
<1>. QED
  BY <1>1, <1>2, <1>3, <1>4 DEF rest

\* It is enough to look at each layer of the new sequence.
LEMMA CopiesWithin ==
    ASSUME NEW ls \in Seq(Layer), NEW new \in Seq(Layer), NEW S, NEW P,
           \A i \in 1..Len(new) : /\ StrokesOn(new[i]) \subseteq DocStrokes(ls) \cup S
                                  /\ <<new[i].id, new[i].props>> \in DocProps(ls) \cup P
    PROVE  /\ DocStrokes(new) \subseteq DocStrokes(ls) \cup S
           /\ DocProps(new) \subseteq DocProps(ls) \cup P
<1>1. \A layer : layer \in ToSet(new) <=> \E i \in 1..Len(new) : layer = new[i]
  BY SetIs
<1>2. \A layer \in ToSet(new) : /\ StrokesOn(layer) \subseteq DocStrokes(ls) \cup S
                                /\ <<layer.id, layer.props>> \in DocProps(ls) \cup P
  BY <1>1, Zenon
<1>3. \A c \in DocStrokes(new) : \E layer \in ToSet(new) : c \in StrokesOn(layer)
  BY DEF DocStrokes
<1>4. \A c \in DocProps(new) : \E layer \in ToSet(new) : c = <<layer.id, layer.props>>
  BY DEF DocProps
<1>. QED
  BY <1>2, <1>3, <1>4

LEMMA LayerCopiesIn ==
    ASSUME NEW ls \in Seq(Layer), NEW i \in 1..Len(ls)
    PROVE  /\ StrokesOn(ls[i]) \subseteq DocStrokes(ls)
           /\ <<ls[i].id, ls[i].props>> \in DocProps(ls)
<1>1. ls[i] \in ToSet(ls)
  BY SetMember
<1>. QED
  BY <1>1 DEF DocStrokes, DocProps

LEMMA StrokesReplacedCopies ==
    ASSUME NEW ls \in Seq(Layer), NEW p \in 1..Len(ls), NEW strokes \in Seq(Stroke), NEW S,
           {<<s, ls[p].id>> : s \in ToSet(strokes)} \subseteq DocStrokes(ls) \cup S
    PROVE  /\ DocStrokes(WithStrokes(ls, p, strokes)) \subseteq DocStrokes(ls) \cup S
           /\ DocProps(WithStrokes(ls, p, strokes)) \subseteq DocProps(ls)
<1> DEFINE new == WithStrokes(ls, p, strokes)
           l == [ls[p] EXCEPT !.strokes = strokes]
<1>1. ls[p] \in Layer
  BY LayerAt
<1>2. l \in Layer /\ l.id = ls[p].id /\ l.props = ls[p].props /\ l.strokes = strokes
  BY <1>1 DEF Layer
<1>3. new = [ls EXCEPT ![p] = l]
  BY DEF WithStrokes
<1>4. StrokesOn(l) \subseteq DocStrokes(ls) \cup S
  BY <1>2, Zenon DEF StrokesOn
<1> HIDE DEF l
<1>5. /\ new \in Seq(Layer) /\ Len(new) = Len(ls)
      /\ \A i \in 1..Len(ls) : new[i] = IF i = p THEN l ELSE ls[i]
  BY <1>2, <1>3, ExceptSeq
<1> HIDE DEF new
<1>6. ASSUME NEW i \in 1..Len(new)
      PROVE  /\ StrokesOn(new[i]) \subseteq DocStrokes(ls) \cup S
             /\ <<new[i].id, new[i].props>> \in DocProps(ls) \cup {}
  <2>1. i \in 1..Len(ls)
    BY <1>5
  <2>2. /\ StrokesOn(ls[i]) \subseteq DocStrokes(ls)
        /\ <<ls[i].id, ls[i].props>> \in DocProps(ls)
    BY <2>1, LayerCopiesIn
  <2>3. CASE i = p
    BY <1>2, <1>4, <1>5, <2>1, <2>2, <2>3
  <2>4. CASE i # p
    BY <1>5, <2>1, <2>2, <2>4
  <2>. QED
    BY <2>3, <2>4
<1>7. /\ DocStrokes(new) \subseteq DocStrokes(ls) \cup S
      /\ DocProps(new) \subseteq DocProps(ls) \cup {}
  BY <1>5, <1>6, CopiesWithin, Zenon
<1>. QED
  BY <1>7 DEF new

(***************************************************************************)
(* An edit makes no copy: what the document and the inverse hold after it, *)
(* the document and the edit held before it.                               *)
(***************************************************************************)
Conserves(e, ls, activeId) ==
    /\ DocStrokes(LayersAfter(e, ls)) \cup EntryStrokes(InverseOf(e, ls, activeId))
         \subseteq DocStrokes(ls) \cup EntryStrokes(e)
    /\ DocProps(LayersAfter(e, ls)) \cup EntryProps(InverseOf(e, ls, activeId))
         \subseteq DocProps(ls) \cup EntryProps(e)

LEMMA AddStrokeConserves ==
    ASSUME NEW ls \in Seq(Layer), NEW activeId, NEW e \in Edit, e.op = "AddStroke", CanApply(e, ls)
    PROVE  Conserves(e, ls, activeId)
<1> DEFINE p == Position(ls, e.layer)
           drawn == Append(ls[p].strokes, e.stroke)
<1>1. e.stroke \in Stroke /\ e.layer \in Ids(ls)
  BY EditVariants DEF CanApply
<1>2. p \in 1..Len(ls) /\ ls[p].id = e.layer
  BY <1>1, PositionFound
<1>3. LayersAfter(e, ls) = WithStrokes(ls, p, drawn)
  BY DEF LayersAfter, WithStrokes
<1>4. EntryStrokes(e) = {<<e.stroke, ls[p].id>>}
  BY <1>2 DEF EntryStrokes
<1>5. InverseOf(e, ls, activeId) = RemoveStroke(e.stroke.id, e.layer)
  BY DEF InverseOf
<1>6. /\ EntryStrokes(RemoveStroke(e.stroke.id, e.layer)) = {}
      /\ EntryProps(RemoveStroke(e.stroke.id, e.layer)) = {}
  BY DEF EntryStrokes, EntryProps, RemoveStroke
<1>7. ls[p].strokes \in Seq(Stroke)
  BY <1>2, LayerAt
<1>8. StrokesOn(ls[p]) \subseteq DocStrokes(ls)
  BY <1>2, LayerCopiesIn
<1> HIDE DEF p
<1>9. drawn \in Seq(Stroke) /\ ToSet(drawn) = ToSet(ls[p].strokes) \cup {e.stroke}
  BY <1>1, <1>7, AppendSet
<1> HIDE DEF drawn
<1>10. {<<s, ls[p].id>> : s \in ToSet(drawn)} \subseteq DocStrokes(ls) \cup EntryStrokes(e)
  BY <1>4, <1>8, <1>9 DEF StrokesOn
<1>11. /\ DocStrokes(WithStrokes(ls, p, drawn)) \subseteq DocStrokes(ls) \cup EntryStrokes(e)
       /\ DocProps(WithStrokes(ls, p, drawn)) \subseteq DocProps(ls)
  BY <1>2, <1>9, <1>10, StrokesReplacedCopies
<1>. QED
  BY <1>3, <1>5, <1>6, <1>11 DEF Conserves

LEMMA RemoveStrokeConserves ==
    ASSUME NEW ls \in Seq(Layer), NEW activeId, NEW e \in Edit, e.op = "RemoveStroke",
           CanApply(e, ls)
    PROVE  Conserves(e, ls, activeId)
<1> DEFINE p == Position(ls, e.layer)
           strokes == ls[p].strokes
           i == Position(strokes, e.id)
           kept == RemoveAt(strokes, i)
<1>1. e.layer \in Ids(ls) /\ e.id \in Ids(strokes)
  BY DEF CanApply
<1>2. p \in 1..Len(ls) /\ ls[p].id = e.layer
  BY <1>1, PositionFound
<1>3. LayersAfter(e, ls) = WithStrokes(ls, p, kept)
  BY DEF LayersAfter, WithStrokes
<1>4. InverseOf(e, ls, activeId) = AddStroke(strokes[i], e.layer)
  BY DEF InverseOf
<1>5. /\ EntryStrokes(AddStroke(strokes[i], e.layer)) = {<<strokes[i], e.layer>>}
      /\ EntryProps(AddStroke(strokes[i], e.layer)) = {}
  BY DEF EntryStrokes, EntryProps, AddStroke
<1>6. strokes \in Seq(Stroke)
  BY <1>2, LayerAt
<1>7. i \in 1..Len(strokes)
  BY <1>1, <1>6, PositionFound
<1>8. StrokesOn(ls[p]) \subseteq DocStrokes(ls)
  BY <1>2, LayerCopiesIn
<1>9. StrokesOn(ls[p]) = {<<s, ls[p].id>> : s \in ToSet(strokes)}
  BY DEF StrokesOn
<1> HIDE DEF p, i, strokes
<1>10. kept \in Seq(Stroke) /\ ToSet(kept) \subseteq ToSet(strokes) /\ strokes[i] \in ToSet(strokes)
  BY <1>6, <1>7, RemoveAtWithin
<1> HIDE DEF kept
<1>11. {<<s, ls[p].id>> : s \in ToSet(kept)} \subseteq DocStrokes(ls) \cup {}
  BY <1>8, <1>9, <1>10
<1>12. /\ DocStrokes(WithStrokes(ls, p, kept)) \subseteq DocStrokes(ls) \cup {}
       /\ DocProps(WithStrokes(ls, p, kept)) \subseteq DocProps(ls)
  BY <1>2, <1>10, <1>11, StrokesReplacedCopies
<1>13. <<strokes[i], e.layer>> \in DocStrokes(ls)
  BY <1>2, <1>8, <1>9, <1>10
<1>. QED
  BY <1>3, <1>4, <1>5, <1>12, <1>13 DEF Conserves

LEMMA AddLayerConserves ==
    ASSUME NEW ls \in Seq(Layer), NEW activeId, NEW e \in Edit, e.op = "AddLayer"
    PROVE  Conserves(e, ls, activeId)
<1> DEFINE at == AtMost(e.index, Len(ls) + 1)
           new == InsertAt(ls, at, e.layer)
<1>1. e.layer \in Layer /\ e.index \in Nat \ {0} /\ Len(ls) \in Nat
  BY EditVariants, LenProperties
<1>2. at \in 1..Len(ls) + 1
  BY <1>1 DEF AtMost
<1>3. LayersAfter(e, ls) = new
  BY DEF LayersAfter
<1>4. EntryStrokes(e) = StrokesOn(e.layer) /\ EntryProps(e) = {<<e.layer.id, e.layer.props>>}
  BY DEF EntryStrokes, EntryProps
<1>5. InverseOf(e, ls, activeId) = RemoveLayer(e.layer.id)
  BY DEF InverseOf
<1>6. /\ EntryStrokes(RemoveLayer(e.layer.id)) = {}
      /\ EntryProps(RemoveLayer(e.layer.id)) = {}
  BY DEF EntryStrokes, EntryProps, RemoveLayer
<1> HIDE DEF at
<1>7. ToSet(new) = ToSet(ls) \cup {e.layer}
  BY <1>1, <1>2, InsertSet
<1> HIDE DEF new
<1>8. DocStrokes(new) = DocStrokes(ls) \cup StrokesOn(e.layer)
  BY <1>7 DEF DocStrokes
<1>9. DocProps(new) = DocProps(ls) \cup {<<e.layer.id, e.layer.props>>}
  BY <1>7 DEF DocProps
<1>. QED
  BY <1>3, <1>4, <1>5, <1>6, <1>8, <1>9 DEF Conserves

LEMMA RemoveLayerConserves ==
    ASSUME NEW ls \in Seq(Layer), NEW activeId, NEW e \in Edit, e.op = "RemoveLayer",
           CanApply(e, ls)
    PROVE  Conserves(e, ls, activeId)
<1> DEFINE at == Position(ls, e.id)
           rest == RemoveAt(ls, at)
           back == AddLayer(ls[at], at, e.id = activeId)
<1>1. at \in 1..Len(ls)
  BY PositionFound DEF CanApply
<1>2. LayersAfter(e, ls) = rest
  BY DEF LayersAfter
<1>3. InverseOf(e, ls, activeId) = back
  BY DEF InverseOf
<1>4. back.op = "AddLayer" /\ back.layer = ls[at]
  BY DEF AddLayer
<1> HIDE DEF at, back
<1>5. rest \in Seq(Layer) /\ ToSet(rest) \subseteq ToSet(ls)
  BY <1>1, RemoveAtWithin
<1> HIDE DEF rest
<1>6. DocStrokes(rest) \subseteq DocStrokes(ls) /\ DocProps(rest) \subseteq DocProps(ls)
  BY <1>5 DEF DocStrokes, DocProps
<1>7. EntryStrokes(back) = StrokesOn(ls[at]) /\ EntryProps(back) = {<<ls[at].id, ls[at].props>>}
  BY <1>4 DEF EntryStrokes, EntryProps
<1>8. StrokesOn(ls[at]) \subseteq DocStrokes(ls) /\ <<ls[at].id, ls[at].props>> \in DocProps(ls)
  BY <1>1, LayerCopiesIn
<1>. QED
  BY <1>2, <1>3, <1>6, <1>7, <1>8 DEF Conserves

LEMMA MoveLayerConserves ==
    ASSUME NEW ls \in Seq(Layer), NEW activeId, NEW e \in Edit, e.op = "MoveLayer",
           CanApply(e, ls)
    PROVE  Conserves(e, ls, activeId)
<1> DEFINE at == Position(ls, e.id)
           rest == RemoveAt(ls, at)
           to == AtMost(e.index, Len(ls))
           new == InsertAt(rest, to, ls[at])
<1>1. at \in 1..Len(ls) /\ e.index \in Nat \ {0} /\ Len(ls) \in Nat
  BY PositionFound, EditVariants, LenProperties DEF CanApply
<1>2. LayersAfter(e, ls) = new
  BY DEF LayersAfter
<1>3. InverseOf(e, ls, activeId) = MoveLayer(e.id, at)
  BY DEF InverseOf
<1>4. EntryStrokes(MoveLayer(e.id, at)) = {} /\ EntryProps(MoveLayer(e.id, at)) = {}
  BY DEF EntryStrokes, EntryProps, MoveLayer
<1>5. to \in 1..Len(ls)
  BY <1>1 DEF AtMost
<1> HIDE DEF at, to
<1>6. /\ rest \in Seq(Layer) /\ ToSet(rest) \subseteq ToSet(ls) /\ Len(rest) = Len(ls) - 1
      /\ ls[at] \in ToSet(ls)
  BY <1>1, RemoveAtWithin
<1> HIDE DEF rest
<1>7. to \in 1..Len(rest) + 1 /\ ls[at] \in Layer
  BY <1>1, <1>5, <1>6, LayerAt
<1>8. ToSet(new) = ToSet(rest) \cup {ls[at]}
  BY <1>6, <1>7, InsertSet
<1> HIDE DEF new
<1>9. ToSet(new) \subseteq ToSet(ls)
  BY <1>6, <1>8
<1>10. DocStrokes(new) \subseteq DocStrokes(ls) /\ DocProps(new) \subseteq DocProps(ls)
  BY <1>9 DEF DocStrokes, DocProps
<1>. QED
  BY <1>2, <1>3, <1>4, <1>10 DEF Conserves

LEMMA EditConserves ==
    ASSUME NEW ls \in Seq(Layer), NEW activeId, NEW e \in Edit, CanApply(e, ls)
    PROVE  Conserves(e, ls, activeId)
BY EditVariants, AddStrokeConserves, RemoveStrokeConserves, AddLayerConserves,
   RemoveLayerConserves, MoveLayerConserves

(***************************************************************************)
(* The copies in a stack.                                                  *)
(***************************************************************************)
StackStrokes(stack) == UNION {EntryStrokes(e) : e \in ToSet(stack)}

StackProps(stack) == UNION {EntryProps(e) : e \in ToSet(stack)}

LEMMA StackPush ==
    ASSUME NEW stack \in Seq(Edit), NEW e \in Edit
    PROVE  /\ StackStrokes(Append(stack, e)) = StackStrokes(stack) \cup EntryStrokes(e)
           /\ StackProps(Append(stack, e)) = StackProps(stack) \cup EntryProps(e)
<1>1. ToSet(Append(stack, e)) = ToSet(stack) \cup {e}
  BY AppendSet
<1>. QED
  BY <1>1 DEF StackStrokes, StackProps

LEMMA StackPop ==
    ASSUME NEW stack \in Seq(Edit), stack # << >>
    PROVE  /\ StackStrokes(Front(stack)) \cup EntryStrokes(Last(stack)) \subseteq StackStrokes(stack)
           /\ StackProps(Front(stack)) \cup EntryProps(Last(stack)) \subseteq StackProps(stack)
<1> DEFINE front == Front(stack)
           n == Len(stack)
<1>1. n \in Nat /\ n # 0 /\ Last(stack) = stack[n]
  BY LenProperties, EmptySeq DEF Last
<1>2. /\ front \in Seq(Edit) /\ Len(front) = n - 1
      /\ \A i \in 1..n - 1 : front[i] = stack[i]
  BY FrontIs, LastAndFront
<1>3. \A x : x \in ToSet(stack) <=> \E i \in 1..n : x = stack[i]
  BY SetIs
<1> HIDE DEF front
<1>4. \A x : x \in ToSet(front) <=> \E i \in 1..Len(front) : x = front[i]
  BY <1>2, SetIs
<1>5. \A i \in 1..n - 1 : i \in 1..n
  BY <1>1
<1>6. ToSet(front) \subseteq ToSet(stack) /\ Last(stack) \in ToSet(stack)
  BY <1>1, <1>2, <1>3, <1>4, <1>5
<1>. QED
  BY <1>6 DEF StackStrokes, StackProps, front

LEMMA StackEmpty == StackStrokes(<< >>) = {} /\ StackProps(<< >>) = {}
<1>1. ToSet(<< >>) = {}
  BY DEF ToSet
<1>. QED
  BY <1>1 DEF StackStrokes, StackProps

(***************************************************************************)
(* The parts of a version: what Contents is of a document.                 *)
(***************************************************************************)
PartsOf(shape) == {<<shape.id, s>> : s \in {0} \cup ToSet(shape.strokes)}

Parts(S) == UNION {PartsOf(shape) : shape \in ToSet(S)}

LEMMA ShapeParts ==
    ASSUME NEW layer \in Layer
    PROVE  PartsOf(ShapeOf(layer)) = Of(layer)
<1>1. layer.strokes \in Seq(Stroke)
  BY DEF Layer
<1> DEFINE strokes == layer.strokes
<1>2. /\ Order(strokes) \in Seq(StrokeId)
      /\ Len(Order(strokes)) = Len(strokes)
      /\ \A j \in 1..Len(strokes) : Order(strokes)[j] = strokes[j].id
  BY <1>1, OrderTyped
<1>3. \A s : s \in ToSet(Order(strokes)) <=> \E j \in 1..Len(Order(strokes)) : s = Order(strokes)[j]
  BY <1>2, SetIs
<1>4. \A s : s \in Ids(strokes) <=> \E j \in 1..Len(strokes) : s = strokes[j].id
  BY <1>1, LenProperties DEF Ids
<1> HIDE DEF strokes
<1>5. ToSet(Order(strokes)) = Ids(strokes)
  BY <1>2, <1>3, <1>4
<1>6. ShapeOf(layer).id = layer.id /\ ShapeOf(layer).strokes = Order(strokes)
  BY DEF ShapeOf, strokes
<1>. QED
  BY <1>5, <1>6 DEF PartsOf, Of, strokes

LEMMA StructureParts ==
    ASSUME NEW ls \in Seq(Layer)
    PROVE  Parts(Structure(ls)) = Contents(ls)
<1> DEFINE S == Structure(ls)
<1>1. /\ S \in Seq(Shape) /\ Len(S) = Len(ls)
      /\ \A i \in 1..Len(ls) : S[i] = ShapeOf(ls[i])
  BY StructureTyped
<1> HIDE DEF S
<1>2. \A x : x \in ToSet(S) <=> \E i \in 1..Len(S) : x = S[i]
  BY <1>1, SetIs
<1>3. \A x : x \in ToSet(ls) <=> \E i \in 1..Len(ls) : x = ls[i]
  BY SetIs
<1>4. \A i \in 1..Len(ls) : PartsOf(S[i]) = Of(ls[i])
  BY <1>1, LayerAt, ShapeParts
<1>5. ASSUME NEW x
      PROVE  x \in Parts(S) <=> x \in Contents(ls)
  <2>1. x \in Parts(S) <=> \E i \in 1..Len(ls) : x \in PartsOf(S[i])
    BY <1>1, <1>2 DEF Parts
  <2>2. x \in Contents(ls) <=> \E i \in 1..Len(ls) : x \in Of(ls[i])
    BY <1>3 DEF Contents
  <2>. QED
    BY <1>4, <2>1, <2>2
<1>. QED
  BY <1>5 DEF S

\* What an entry that puts something back would put back.
EntryParts(e) ==
    CASE e.op = "AddStroke" -> {<<e.layer, e.stroke.id>>}
      [] e.op = "AddLayer"  -> Of(e.layer)
      [] OTHER -> {}

\* The entry is between a version with it and one without.
LEMMA MovesParts ==
    ASSUME NEW S \in Seq(Shape), NoDuplicates(S), NEW T \in Seq(Shape),
           NEW e \in Edit, Moves(e, S, T)
    PROVE  EntryParts(e) \subseteq Parts(T) /\ EntryParts(e) \cap Parts(S) = {}
<1>1. CASE e.op = "AddStroke"
  <2>1. EntryParts(e) = {<<e.layer, e.stroke.id>>} /\ e.stroke.id \in StrokeId
    BY <1>1, EditVariants DEF EntryParts, Stroke
  <2>2. PICK p \in 1..Len(S) :
             /\ S[p].id = e.layer
             /\ e.stroke.id \notin ToSet(S[p].strokes)
             /\ T = Redrawn(S, p, Append(S[p].strokes, e.stroke.id))
    BY <1>1 DEF Moves, Draws
  <2>s. S[p] \in Shape
    BY ElementOfSeq
  <2>3. S[p].strokes \in Seq(StrokeId)
    BY <2>s DEF Shape
  <2> DEFINE order == Append(S[p].strokes, e.stroke.id)
  <2>4. order \in Seq(StrokeId) /\ e.stroke.id \in ToSet(order)
    BY <2>1, <2>3, AppendSet
  <2> HIDE DEF order
  <2>r. /\ Len(Redrawn(S, p, order)) = Len(S)
        /\ \A i \in 1..Len(S) :
             Redrawn(S, p, order)[i] = IF i = p THEN [id |-> S[p].id, strokes |-> order] ELSE S[i]
    BY <2>4, RedrawnProperties
  <2>5. T[p] = [id |-> S[p].id, strokes |-> order] /\ p \in 1..Len(T)
    BY <2>2, <2>r DEF order
  <2>i. T[p].id = e.layer /\ T[p].strokes = order
    BY <2>2, <2>5
  <2>6. <<e.layer, e.stroke.id>> \in PartsOf(T[p])
    BY <2>4, <2>i DEF PartsOf
  <2>7. T[p] \in ToSet(T)
    BY <2>5, SetMember
  <2>8. <<e.layer, e.stroke.id>> \in Parts(T)
    BY <2>6, <2>7 DEF Parts
  <2>9. ASSUME <<e.layer, e.stroke.id>> \in Parts(S) PROVE FALSE
    <3>1. PICK shape \in ToSet(S) : <<e.layer, e.stroke.id>> \in PartsOf(shape)
      BY <2>9 DEF Parts
    <3>2. shape.id = e.layer /\ (e.stroke.id = 0 \/ e.stroke.id \in ToSet(shape.strokes))
      BY <3>1 DEF PartsOf
    <3>3. S[p] \in ToSet(S)
      BY SetMember
    <3>4. shape = S[p]
      BY <2>2, <3>2, <3>3, SameIdSame
    <3>. QED
      BY <2>1, <2>2, <3>2, <3>4 DEF StrokeId
  <2>. QED
    BY <2>1, <2>8, <2>9
<1>2. CASE e.op = "AddLayer"
  <2> DEFINE at == AtMost(e.index, Len(S) + 1)
             l == ShapeOf(e.layer)
  <2>1. e.layer \in Layer /\ EntryParts(e) = Of(e.layer)
    BY <1>2, EditVariants DEF EntryParts
  <2>2. at \in 1..Len(S) + 1 /\ l.id \notin Ids(S) /\ T = InsertAt(S, at, l)
    BY <1>2 DEF Moves, Inserts
  <2>3. l \in Shape /\ PartsOf(l) = Of(e.layer) /\ l.id = e.layer.id
    BY <2>1, ShapeTyped, ShapeParts DEF ShapeOf
  <2> HIDE DEF l, at
  <2>4. l \in ToSet(T)
    BY <2>2, <2>3, InsertSet
  <2>5. Of(e.layer) \subseteq Parts(T)
    BY <2>3, <2>4 DEF Parts
  <2>6. ASSUME NEW x \in Of(e.layer), x \in Parts(S) PROVE FALSE
    <3>1. PICK shape \in ToSet(S) : x \in PartsOf(shape)
      BY <2>6 DEF Parts
    <3>2. shape.id = x[1] /\ x[1] = e.layer.id
      BY <2>6, <3>1 DEF PartsOf, Of
    <3>3. Ids(S) = {y.id : y \in ToSet(S)}
      BY SetMember
    <3>. QED
      BY <2>2, <2>3, <3>1, <3>2, <3>3
  <2>. QED
    BY <2>1, <2>5, <2>6
<1>3. CASE e.op \notin {"AddStroke", "AddLayer"}
  BY <1>3 DEF EntryParts
<1>. QED
  BY <1>1, <1>2, <1>3

(***************************************************************************)
(* Contents, read off the copies.                                          *)
(***************************************************************************)
LEMMA ContentsOfCopies ==
    ASSUME NEW ls
    PROVE  Contents(ls) = {<<c[2], c[1].id>> : c \in DocStrokes(ls)} \cup {<<l[1], 0>> : l \in DocProps(ls)}
<1>1. ASSUME NEW x
      PROVE  x \in Contents(ls) <=>
               \E layer \in ToSet(ls) :
                  x = <<layer.id, 0>> \/ \E s \in ToSet(layer.strokes) : x = <<layer.id, s.id>>
  <2>1. x \in Contents(ls) <=> \E layer \in ToSet(ls) : x \in Of(layer)
    BY Zenon DEF Contents
  <2>2. ASSUME NEW layer
        PROVE  x \in Of(layer) <=>
                  x = <<layer.id, 0>> \/ \E s \in ToSet(layer.strokes) : x = <<layer.id, s.id>>
    <3>1. \A k : k \in Ids(layer.strokes) <=> \E s \in ToSet(layer.strokes) : k = s.id
      BY DEF Ids, ToSet
    <3>2. x \in Of(layer) <=>
             x = <<layer.id, 0>> \/ \E k \in Ids(layer.strokes) : x = <<layer.id, k>>
      BY DEF Of
    <3>. QED
      BY <3>1, <3>2
  <2>. QED
    BY <2>1, <2>2
<1> DEFINE A == {<<c[2], c[1].id>> : c \in DocStrokes(ls)}
           B == {<<l[1], 0>> : l \in DocProps(ls)}
<1>2. /\ \A layer \in ToSet(ls) : \A s \in ToSet(layer.strokes) : <<s, layer.id>> \in DocStrokes(ls)
      /\ \A c \in DocStrokes(ls) :
           \E layer \in ToSet(ls) : \E s \in ToSet(layer.strokes) : c = <<s, layer.id>>
  BY DEF DocStrokes, StrokesOn
<1>3. /\ \A layer \in ToSet(ls) : <<layer.id, layer.props>> \in DocProps(ls)
      /\ \A l \in DocProps(ls) : \E layer \in ToSet(ls) : l = <<layer.id, layer.props>>
  BY DEF DocProps
<1>4. ASSUME NEW x \in Contents(ls) PROVE x \in A \cup B
  <2>1. PICK layer \in ToSet(ls) :
             x = <<layer.id, 0>> \/ \E s \in ToSet(layer.strokes) : x = <<layer.id, s.id>>
    BY <1>1
  <2>2. CASE x = <<layer.id, 0>>
    <3> DEFINE l == <<layer.id, layer.props>>
    <3>1. l \in DocProps(ls) /\ <<l[1], 0>> = x
      BY <1>3, <2>2
    <3> HIDE DEF l
    <3>. QED
      BY <3>1
  <2>3. CASE \E s \in ToSet(layer.strokes) : x = <<layer.id, s.id>>
    <3>1. PICK s \in ToSet(layer.strokes) : x = <<layer.id, s.id>>
      BY <2>3
    <3> DEFINE c == <<s, layer.id>>
    <3>2. c \in DocStrokes(ls) /\ <<c[2], c[1].id>> = x
      BY <1>2, <3>1
    <3> HIDE DEF c
    <3>. QED
      BY <3>2
  <2>. QED
    BY <2>1, <2>2, <2>3
<1>5. ASSUME NEW c \in DocStrokes(ls) PROVE <<c[2], c[1].id>> \in Contents(ls)
  <2>0. PICK layer \in ToSet(ls) : \E s \in ToSet(layer.strokes) : c = <<s, layer.id>>
    BY <1>2
  <2>1. PICK s \in ToSet(layer.strokes) : c = <<s, layer.id>>
    BY <2>0
  <2>2. <<c[2], c[1].id>> = <<layer.id, s.id>>
    BY <2>1
  <2>. QED
    BY <1>1, <2>2
<1>6. ASSUME NEW l \in DocProps(ls) PROVE <<l[1], 0>> \in Contents(ls)
  <2>1. PICK layer \in ToSet(ls) : l = <<layer.id, layer.props>>
    BY <1>3
  <2>2. <<l[1], 0>> = <<layer.id, 0>>
    BY <2>1
  <2>. QED
    BY <1>1, <2>2
<1>. QED
  BY <1>4, <1>5, <1>6

LEMMA EntryPartsOfCopies ==
    ASSUME NEW e
    PROVE  /\ \A c \in EntryStrokes(e) : <<c[2], c[1].id>> \in EntryParts(e)
           /\ \A l \in EntryProps(e) : <<l[1], 0>> \in EntryParts(e)
BY DEF EntryStrokes, EntryProps, EntryParts, StrokesOn, Of, Ids, ToSet

LEMMA EditParts ==
    ASSUME NEW ls \in Seq(Layer), NEW e \in Edit, CanApply(e, ls)
    PROVE  Contents(LayersAfter(e, ls)) \subseteq Contents(ls) \cup EntryParts(e)
<1> DEFINE new == LayersAfter(e, ls)
<1>1. /\ DocStrokes(new) \subseteq DocStrokes(ls) \cup EntryStrokes(e)
      /\ DocProps(new) \subseteq DocProps(ls) \cup EntryProps(e)
  BY EditConserves, Zenon DEF Conserves
<1> HIDE DEF new
<1>2. /\ \A c \in EntryStrokes(e) : <<c[2], c[1].id>> \in EntryParts(e)
      /\ \A l \in EntryProps(e) : <<l[1], 0>> \in EntryParts(e)
  BY EntryPartsOfCopies
<1>3. /\ \A x \in Contents(new) : \/ \E c \in DocStrokes(new) : x = <<c[2], c[1].id>>
                                  \/ \E l \in DocProps(new) : x = <<l[1], 0>>
      /\ \A c \in DocStrokes(ls) : <<c[2], c[1].id>> \in Contents(ls)
      /\ \A l \in DocProps(ls) : <<l[1], 0>> \in Contents(ls)
  BY ContentsOfCopies
<1>. QED
  BY <1>1, <1>2, <1>3 DEF new

(***************************************************************************)
(* The versions along the line.                                            *)
(***************************************************************************)
Contiguous(vs) ==
    \A i, j, k \in 1..Len(vs) :
        i <= j /\ j <= k => Parts(vs[i]) \cap Parts(vs[k]) \subseteq Parts(vs[j])

\* A part that was minted and is not that of the stroke in flight.
MintedPart(x) ==
    /\ x[1] \in KnownLayers
    /\ x[2] \in {0} \cup KnownStrokes
    /\ HasActiveStroke => x[2] # active.id

Minted(P) == \A x \in P : MintedPart(x)

VersionsInv ==
    /\ LineInv
    /\ \A i \in 1..Len(versions) : NoDuplicates(versions[i]) /\ Minted(Parts(versions[i]))
    /\ Contiguous(versions)

LEMMA PrefixAppend ==
    ASSUME NEW S, NEW seq \in Seq(S), NEW n \in 1..Len(seq), NEW x \in S
    PROVE  /\ Append(SubSeq(seq, 1, n), x) \in Seq(S)
           /\ Len(Append(SubSeq(seq, 1, n), x)) = n + 1
           /\ \A i \in 1..n : Append(SubSeq(seq, 1, n), x)[i] = seq[i] /\ i \in 1..Len(seq)
           /\ Append(SubSeq(seq, 1, n), x)[n + 1] = x
<1> DEFINE front == SubSeq(seq, 1, n)
<1>0. Len(seq) \in Nat
  BY LenProperties
<1>1. /\ front \in Seq(S) /\ Len(front) = n
      /\ \A i \in 1..n : front[i] = seq[i]
  BY <1>0, SubSeqProperties
<1> HIDE DEF front
<1>2. /\ Append(front, x) \in Seq(S) /\ Len(Append(front, x)) = n + 1
      /\ \A i \in 1..n : Append(front, x)[i] = front[i]
      /\ Append(front, x)[n + 1] = x
  BY <1>1, AppendProperties
<1>. QED
  BY <1>0, <1>1, <1>2 DEF front

\* A new version has what the current one has, and what no version ever had.
LEMMA ContiguousCommit ==
    ASSUME NEW vs \in Seq(Seq(Shape)), Contiguous(vs), NEW n \in 1..Len(vs), NEW T \in Seq(Shape),
           NEW F, Parts(T) \subseteq Parts(vs[n]) \cup F,
           \A i \in 1..Len(vs) : Parts(vs[i]) \cap F = {}
    PROVE  Contiguous(Append(SubSeq(vs, 1, n), T))
<1> DEFINE new == Append(SubSeq(vs, 1, n), T)
<1>0. Len(vs) \in Nat
  BY LenProperties
<1>1. /\ Len(new) = n + 1
      /\ \A i \in 1..n : new[i] = vs[i] /\ i \in 1..Len(vs)
      /\ new[n + 1] = T
  BY PrefixAppend
<1> HIDE DEF new
<1>2. SUFFICES ASSUME NEW i \in 1..Len(new), NEW j \in 1..Len(new), NEW k \in 1..Len(new),
                      i <= j, j <= k, NEW x \in Parts(new[i]), x \in Parts(new[k])
               PROVE  x \in Parts(new[j])
  BY DEF Contiguous, new
<1>n. /\ n \in Nat /\ n \in 1..n
      /\ k # n + 1 => i \in 1..n /\ j \in 1..n /\ k \in 1..n
      /\ j = n + 1 => k = j
      /\ k = n + 1 /\ j # n + 1 => i \in 1..n /\ j \in 1..n /\ j <= n
  <2>1. n \in Nat /\ n >= 1
    BY <1>0
  <2>2. i \in 1..n + 1 /\ j \in 1..n + 1 /\ k \in 1..n + 1 /\ i <= j /\ j <= k
    BY <1>1, <1>2
  <2>. QED
    BY <2>1, <2>2
<1>3. CASE k # n + 1
  <2>1. i \in 1..n /\ j \in 1..n /\ k \in 1..n
    BY <1>n, <1>3
  <2>. QED
    BY <1>1, <1>2, <2>1 DEF Contiguous
<1>4. CASE j = n + 1
  <2>1. k = j
    BY <1>n, <1>4
  <2>. QED
    BY <1>2, <2>1
<1>5. CASE k = n + 1 /\ j # n + 1
  <2>1. i \in 1..n /\ j \in 1..n /\ n \in 1..n /\ j <= n
    BY <1>n, <1>5
  <2>2. x \in Parts(T) /\ x \in Parts(vs[i])
    BY <1>1, <1>2, <1>5, <2>1
  <2>3. x \notin F
    BY <1>1, <2>1, <2>2
  <2>4. x \in Parts(vs[n])
    BY <2>2, <2>3
  <2>c. \A a, b, d \in 1..Len(vs) :
           a <= b /\ b <= d => Parts(vs[a]) \cap Parts(vs[d]) \subseteq Parts(vs[b])
    BY DEF Contiguous
  <2>d. i \in 1..Len(vs) /\ j \in 1..Len(vs) /\ n \in 1..Len(vs) /\ i <= j /\ j <= n
    BY <1>1, <1>2, <2>1
  <2>e. Parts(vs[i]) \cap Parts(vs[n]) \subseteq Parts(vs[j])
    BY <2>c, <2>d
  <2>5. x \in Parts(vs[j])
    BY <2>2, <2>4, <2>e
  <2>. QED
    BY <1>1, <2>1, <2>5
<1>. QED
  BY <1>3, <1>4, <1>5

\* No entry of the stacks holds a copy of what the document has.
LEMMA EntriesApart ==
    ASSUME VersionsInv, NEW e \in ToSet(past) \cup ToSet(future)
    PROVE  /\ EntryParts(e) \cap Contents(layers) = {}
           /\ \E i \in 1..Len(versions) : EntryParts(e) \subseteq Parts(versions[i])
<1> DEFINE S == Structure(layers)
           n == Len(past) + 1
           m == Len(versions)
<1>1. /\ layers \in Seq(Layer) /\ past \in Seq(Edit) /\ future \in Seq(Edit)
      /\ Len(past) \in Nat /\ Len(future) \in Nat
  BY LineTyped, LenProperties DEF VersionsInv
<1>2. Parts(S) = Contents(layers)
  BY <1>1, StructureParts
<1>3. /\ versions \in Seq(Seq(Shape)) /\ m = Len(past) + 1 + Len(future) /\ versions[n] = S
      /\ \A i \in 1..Len(past) : Moves(past[i], versions[i + 1], versions[i])
      /\ \A i \in 1..Len(future) : Moves(future[i], versions[m - i], versions[m - i + 1])
  BY DEF VersionsInv, LineInv, Line
<1>4. \A i \in 1..m : versions[i] \in Seq(Shape) /\ NoDuplicates(versions[i])
  BY <1>3, ElementOfSeq DEF VersionsInv
<1>5. \A i, j, k \in 1..m :
         i <= j /\ j <= k => Parts(versions[i]) \cap Parts(versions[k]) \subseteq Parts(versions[j])
  BY DEF VersionsInv, Contiguous
<1> HIDE DEF S
<1>6. CASE e \in ToSet(past)
  <2>1. PICK i \in 1..Len(past) : past[i] = e
    BY <1>1, <1>6, SetMember
  <2>2. i \in 1..m /\ i + 1 \in 1..m /\ n \in 1..m /\ i <= i + 1 /\ i + 1 <= n
    BY <1>1, <1>3
  <2>3. e \in Edit
    BY <1>1, <2>1, ElementOfSeq
  <2> DEFINE after == versions[i + 1]
             before == versions[i]
  <2>4. Moves(e, after, before) /\ after \in Seq(Shape) /\ NoDuplicates(after) /\ before \in Seq(Shape)
    BY <1>3, <1>4, <2>1, <2>2
  <2>5. Parts(before) \cap Parts(S) \subseteq Parts(after)
    BY <1>3, <1>5, <2>2
  <2> HIDE DEF after, before, n, m
  <2>6. EntryParts(e) \subseteq Parts(before) /\ EntryParts(e) \cap Parts(after) = {}
    BY <2>3, <2>4, MovesParts
  <2>7. EntryParts(e) \cap Parts(S) = {}
    BY <2>5, <2>6
  <2>. QED
    BY <1>2, <2>2, <2>6, <2>7 DEF before, m
<1>7. CASE e \in ToSet(future)
  <2>1. PICK i \in 1..Len(future) : future[i] = e
    BY <1>1, <1>7, SetMember
  <2>2. /\ m - i \in 1..m /\ m - i + 1 \in 1..m /\ n \in 1..m
        /\ n <= m - i /\ m - i <= m - i + 1
    BY <1>1, <1>3
  <2>3. e \in Edit
    BY <1>1, <2>1, ElementOfSeq
  <2> DEFINE before == versions[m - i]
             after == versions[m - i + 1]
  <2>4. Moves(e, before, after) /\ before \in Seq(Shape) /\ NoDuplicates(before) /\ after \in Seq(Shape)
    BY <1>3, <1>4, <2>1, <2>2
  <2>5. Parts(S) \cap Parts(after) \subseteq Parts(before)
    <3>1. /\ n \in 1..m /\ m - i \in 1..m /\ m - i + 1 \in 1..m
          /\ n <= m - i /\ m - i <= m - i + 1
      BY <2>2
    <3>2. Parts(versions[n]) \cap Parts(versions[m - i + 1]) \subseteq Parts(versions[m - i])
      BY <1>5, <3>1
    <3>. QED
      BY <1>3, <3>2
  <2>a. after = versions[m - i + 1] /\ m - i + 1 \in 1..Len(versions)
    BY <2>2
  <2> HIDE DEF after, before, n, m
  <2>6. EntryParts(e) \subseteq Parts(after) /\ EntryParts(e) \cap Parts(before) = {}
    BY <2>3, <2>4, MovesParts
  <2>7. EntryParts(e) \cap Parts(S) = {}
    BY <2>5, <2>6
  <2>. QED
    BY <1>2, <2>a, <2>6, <2>7
<1>. QED
  BY <1>6, <1>7

(***************************************************************************)
(* What a step does to the counters and to what was minted.                *)
(***************************************************************************)
\* Ids are handed out one at a time, and only a new stroke takes a new one.
Counting ==
    /\ nextStrokeId \in Nat \ {0} /\ nextStrokeId' \in {nextStrokeId, nextStrokeId + 1}
    /\ nextLayerId \in Nat \ {0} /\ nextLayerId' \in {nextLayerId, nextLayerId + 1}
    /\ HasActiveStroke' => \/ HasActiveStroke /\ active'.id = active.id
                           \/ active'.id = nextStrokeId

LEMMA StepCounting ==
    ASSUME HInv, [AuditNext]_auditVars
    PROVE  Counting
<1>1. /\ nextStrokeId \in Nat \ {0} /\ nextLayerId \in Nat \ {0}
      /\ HasActiveStroke => active \in Stroke
  BY ActiveTyped DEF HInv, IInv, TypeOK, StrokeId, LayerId
<1>2. CASE UNCHANGED <<strokeVars, ids>>
  BY <1>1, <1>2 DEF Counting, strokeVars, ids, HasActiveStroke
<1>3. CASE active' = NoStroke /\ UNCHANGED ids
  BY <1>1, <1>3 DEF Counting, ids, HasActiveStroke
<1>4. CASE AuditAddLayer
  BY <1>1, <1>4 DEF AuditAddLayer, NewTopLayer, Counting, strokeVars, HasActiveStroke
<1>5. ASSUME NEW sample \in NewSamples, AuditBeginStroke(sample) PROVE Counting
  BY <1>1, <1>5 DEF AuditBeginStroke, BeginStroke, Counting
<1>6. ASSUME NEW id, NEW sample, AddSample(id, sample) PROVE Counting
  <2>1. active'.id = active.id /\ HasActiveStroke /\ UNCHANGED ids
    BY <1>6 DEF AddSample
  <2>. QED
    BY <1>1, <2>1 DEF Counting, ids
<1>7. ASSUME NEW id, NEW u, AuditReviseSample(id, u) PROVE Counting
  <2>1. UNCHANGED ids
    BY <1>7 DEF AuditReviseSample, ReviseSample
  <2>2. CASE UNCHANGED active
    BY <1>1, <2>1, <2>2 DEF Counting, ids, HasActiveStroke
  <2>3. CASE RevisesActive(id, u) /\ active' = Revise(active, u)
    <3>1. HasActiveStroke /\ active'.id = active.id
      BY <1>1, <2>3, ReviseTyped DEF RevisesActive
    <3>. QED
      BY <1>1, <2>1, <3>1 DEF Counting, ids
  <2>. QED
    BY <1>7, <2>2, <2>3 DEF AuditReviseSample, ReviseSample
<1>8. CASE UNCHANGED auditVars
  BY <1>2, <1>8 DEF auditVars, vars, strokeVars, ids
<1>9. CASE \/ \E id \in KnownStrokes : AuditEndStroke(id)
           \/ \E id \in KnownStrokes : CancelStroke(id) /\ UNCHANGED audit
  BY <1>3, <1>9 DEF AuditEndStroke, EndStroke, CancelStroke
<1>10. CASE \/ \E id \in KnownLayers : AuditRemoveLayer(id)
            \/ \E id \in KnownLayers : \E index \in 1..Len(layers) + 1 : AuditMoveLayer(id, index)
            \/ \E id \in KnownLayers : SetActiveLayer(id) /\ UNCHANGED audit
            \/ \E id \in KnownLayers : \E props \in LayerProps : AuditSetLayerProps(id, props)
            \/ Undo /\ UNCHANGED audit
            \/ Redo /\ UNCHANGED audit
  BY <1>2, <1>10 DEF AuditRemoveLayer, DropLayer, AuditMoveLayer, ReorderLayer, SetActiveLayer,
                     AuditSetLayerProps, SetLayerProps, Undo, Redo
<1>. QED
  BY <1>4, <1>5, <1>6, <1>7, <1>8, <1>9, <1>10 DEF AuditNext

LEMMA Widened ==
    ASSUME NEW n \in Nat, NEW m \in {n, n + 1}
    PROVE  \A k \in 1..(n - 1) : k \in 1..(m - 1)
OBVIOUS

LEMMA MintedStays ==
    ASSUME Counting, NEW x, MintedPart(x)
    PROVE  MintedPart(x)'
<1>1. nextStrokeId \notin {0} \cup KnownStrokes
  BY DEF Counting, KnownStrokes
<1>2. \A k \in KnownLayers : k \in KnownLayers'
  <2>1. nextLayerId \in Nat /\ nextLayerId' \in {nextLayerId, nextLayerId + 1}
    BY DEF Counting
  <2>. QED
    BY <2>1, Widened DEF KnownLayers
<1>3. \A k \in KnownStrokes : k \in KnownStrokes'
  <2>1. nextStrokeId \in Nat /\ nextStrokeId' \in {nextStrokeId, nextStrokeId + 1}
    BY DEF Counting
  <2>. QED
    BY <2>1, Widened DEF KnownStrokes
<1>4. /\ x[1] \in KnownLayers /\ x[2] \in {0} \cup KnownStrokes
      /\ HasActiveStroke => x[2] # active.id
  BY DEF MintedPart
<1>5. HasActiveStroke' => \/ HasActiveStroke /\ active'.id = active.id
                         \/ active'.id = nextStrokeId
  BY DEF Counting
<1>. QED
  BY <1>1, <1>2, <1>3, <1>4, <1>5 DEF MintedPart

LEMMA DocumentMinted ==
    HInv => /\ Minted(Contents(layers))
            /\ NoDuplicates(Structure(layers))
            /\ Structure(layers) \in Seq(Shape)
<1> SUFFICES ASSUME HInv
             PROVE  /\ Minted(Contents(layers))
                    /\ NoDuplicates(Structure(layers))
                    /\ Structure(layers) \in Seq(Shape)
  OBVIOUS
<1>1. layers \in Seq(Layer) /\ NoDuplicates(layers)
  BY DEF HInv, IInv, TypeOK, Distinct
<1>2. NoDuplicates(Structure(layers)) /\ Structure(layers) \in Seq(Shape)
  BY <1>1, StructureIds, StructureTyped
<1>3. Minted(Contents(layers))
  BY ContentsMinted DEF HInv, Minted, MintedPart
<1>. QED
  BY <1>2, <1>3

LEMMA DocumentMintedNext ==
    HInv' => /\ Minted(Contents(layers))'
             /\ NoDuplicates(Structure(layers))'
             /\ (Structure(layers) \in Seq(Shape))'
BY DocumentMinted, PTL

(***************************************************************************)
(* The versions along the line, step by step.                              *)
(***************************************************************************)
LEMMA SameVersionsInv ==
    ASSUME VersionsInv, LineInv', Counting, UNCHANGED versions
    PROVE  VersionsInv'
<1>1. \A i \in 1..Len(versions) : NoDuplicates(versions[i]) /\ Minted(Parts(versions[i]))
  BY DEF VersionsInv
<1>2. \A i \in 1..Len(versions') : NoDuplicates(versions'[i])
  BY <1>1
<1>3. ASSUME NEW i \in 1..Len(versions'), NEW x \in Parts(versions'[i])
      PROVE  MintedPart(x)'
  <2>1. MintedPart(x)
    BY <1>1 DEF Minted
  <2>. QED
    BY <2>1, MintedStays
<1>4. Contiguous(versions)'
  BY DEF VersionsInv, Contiguous
<1>. QED
  BY <1>2, <1>3, <1>4 DEF VersionsInv, Minted

LEMMA CommitVersionsInv ==
    ASSUME VersionsInv, LineInv', Counting, NEW e \in Edit, CanApply(e, layers), Commit(e), NewVersion,
           \A i \in 1..Len(versions) : Parts(versions[i]) \cap EntryParts(e) = {}
    PROVE  VersionsInv'
<1> DEFINE n == Len(past) + 1
           T == Structure(layers')
           F == EntryParts(e)
           vs == versions
           new == Append(SubSeq(vs, 1, n), T)
<1>1. /\ layers \in Seq(Layer) /\ past \in Seq(Edit) /\ future \in Seq(Edit)
      /\ Len(past) \in Nat /\ Len(future) \in Nat
  BY LineTyped, LenProperties DEF VersionsInv
<1>2. /\ vs \in Seq(Seq(Shape)) /\ vs[n] = Structure(layers) /\ n \in 1..Len(vs)
      /\ Contiguous(vs)
      /\ \A i \in 1..Len(vs) : NoDuplicates(vs[i]) /\ Minted(Parts(vs[i]))
  BY <1>1 DEF VersionsInv, LineInv, Line
<1>3. layers' = LayersAfter(e, layers) /\ versions' = new
  BY DEF Commit, NewVersion
<1>4. layers' \in Seq(Layer)
  BY <1>1, <1>3, EditTyped
<1>5. Parts(vs[n]) = Contents(layers) /\ Parts(T) = Contents(layers')
  <2>1. \A ls \in Seq(Layer) : Parts(Structure(ls)) = Contents(ls)
    BY StructureParts
  <2>. QED
    BY <1>1, <1>2, <1>4, <2>1
<1>6. Parts(T) \subseteq Parts(vs[n]) \cup F
  BY <1>1, <1>3, <1>5, EditParts
<1>7. HInv'
  BY DEF LineInv
<1>8. /\ \A x \in Contents(layers') : MintedPart(x)'
      /\ NoDuplicates(T) /\ T \in Seq(Shape)
  BY <1>7, DocumentMintedNext DEF Minted
<1>9. \A x \in Parts(T) : MintedPart(x)'
  BY <1>5, <1>8
<1>10. \A i \in 1..Len(vs) : Parts(vs[i]) \cap F = {}
  OBVIOUS
<1>a. versions = vs
  OBVIOUS
<1> HIDE DEF T, F, n, vs
<1>11. Contiguous(new)
  BY <1>2, <1>6, <1>8, <1>10, ContiguousCommit
<1>12. /\ Len(new) = n + 1
       /\ \A i \in 1..n : new[i] = vs[i] /\ i \in 1..Len(vs)
       /\ new[n + 1] = T
  BY <1>2, <1>8, PrefixAppend
<1> HIDE DEF new
<1>13. ASSUME NEW i \in 1..Len(new) PROVE NoDuplicates(new[i]) /\ \A x \in Parts(new[i]) : MintedPart(x)'
  <2>1. CASE i = n + 1
    BY <1>8, <1>9, <1>12, <2>1
  <2>2. CASE i \in 1..n
    <3>1. new[i] = vs[i] /\ i \in 1..Len(vs)
      BY <1>12, <2>2
    <3>2. NoDuplicates(vs[i]) /\ \A x \in Parts(vs[i]) : MintedPart(x)
      BY <1>2, <3>1 DEF Minted
    <3>. QED
      BY <3>1, <3>2, MintedStays
  <2>3. n \in Nat
    BY <1>1 DEF n
  <2>4. i \in 1..n \/ i = n + 1
    BY <1>12, <2>3
  <2>. QED
    BY <2>1, <2>2, <2>4
<1>. QED
  BY <1>3, <1>11, <1>13 DEF VersionsInv, Minted

(***************************************************************************)
(* The commands that record an entry, each with the edit it commits.       *)
(***************************************************************************)
Commits(e) == e \in Edit /\ CanApply(e, layers) /\ Commit(e) /\ NewVersion

\* The stroke that ends is in no version.
LEMMA EndStrokeCommits ==
    ASSUME VersionsInv, NEW id, AuditEndStroke(id)
    PROVE  /\ Commits(AddStroke(active, activeStrokeLayer))
           /\ HasActiveStroke /\ active' = NoStroke
           /\ UNCHANGED <<ids, drawnOn, chosen, finalised>>
           /\ \A i \in 1..Len(versions) :
                Parts(versions[i]) \cap EntryParts(AddStroke(active, activeStrokeLayer)) = {}
<1> DEFINE e == AddStroke(active, activeStrokeLayer)
<1>1. /\ HInv /\ EndStroke(id) /\ NewVersion
      /\ HasActiveStroke /\ active' = NoStroke /\ UNCHANGED <<ids, drawnOn, chosen, finalised>>
  BY DEF VersionsInv, LineInv, AuditEndStroke, EndStroke
<1>2. active \in Stroke
  BY <1>1, ActiveTyped DEF HInv, IInv
<1>3. /\ StrokeTarget = activeStrokeLayer
      /\ activeStrokeLayer \in LayerId /\ activeStrokeLayer \in Ids(layers)
  BY <1>1, StrokeTargetIsCaptured DEF HInv
<1>4. e \in Edit /\ CanApply(e, layers)
  BY <1>2, <1>3 DEF AddStroke, Edit, CanApply
<1>5. Commit(e)
  BY <1>1, <1>3, <1>4, Zenon DEF EndStroke
<1>6. EntryParts(e) = {<<activeStrokeLayer, active.id>>}
  BY DEF EntryParts, AddStroke
<1>7. \A i \in 1..Len(versions) : \A x \in Parts(versions[i]) : x[2] # active.id
  BY <1>1 DEF VersionsInv, Minted, MintedPart
<1> HIDE DEF e
<1>8. \A i \in 1..Len(versions) : Parts(versions[i]) \cap EntryParts(e) = {}
  BY <1>6, <1>7
<1>. QED
  BY <1>1, <1>4, <1>5, <1>8 DEF Commits, e

\* Nor is the layer that is minted.
LEMMA AddLayerCommits ==
    ASSUME VersionsInv, AuditAddLayer
    PROVE  \E e :
             /\ Commits(e) /\ e.op = "AddLayer" /\ e.layer = NewLayer(nextLayerId)
             /\ \A i \in 1..Len(versions) : Parts(versions[i]) \cap EntryParts(e) = {}
<1> DEFINE l == NewLayer(nextLayerId)
           e == AddLayer(l, Len(layers) + 1, FALSE)
<1>1. Commit(e) /\ NewVersion
  BY DEF AuditAddLayer, NewTopLayer
<1>2. nextLayerId \in LayerId /\ Len(layers) \in Nat
  BY LenProperties DEF VersionsInv, LineInv, HInv, IInv, TypeOK
<1>3. l \in Layer /\ l.id = nextLayerId /\ l.strokes = << >>
  BY <1>2, DefaultPropsAssumption DEF NewLayer, Layer
<1>4. e.op = "AddLayer" /\ e.layer = l /\ e.index = Len(layers) + 1 /\ e.wasActive = FALSE
  BY DEF AddLayer
<1>5. e \in Edit
  BY <1>2, <1>3 DEF AddLayer, Edit
<1>l. l = NewLayer(nextLayerId)
  OBVIOUS
<1> HIDE DEF e, l
<1>6. CanApply(e, layers)
  BY <1>4 DEF CanApply
<1>7. EntryParts(e) = Of(l)
  BY <1>4 DEF EntryParts
<1>8. \A x \in Of(l) : x[1] \notin KnownLayers
  <2>1. \A x \in Of(l) : x[1] = nextLayerId
    BY <1>3 DEF Of
  <2>2. nextLayerId \notin KnownLayers
    BY <1>2 DEF KnownLayers, LayerId
  <2>. QED
    BY <2>1, <2>2
<1>9. \A i \in 1..Len(versions) : \A x \in Parts(versions[i]) : x[1] \in KnownLayers
  BY DEF VersionsInv, Minted, MintedPart
<1>10. \A i \in 1..Len(versions) : Parts(versions[i]) \cap EntryParts(e) = {}
  BY <1>7, <1>8, <1>9
<1>. QED
  BY <1>1, <1>4, <1>5, <1>6, <1>10, <1>l DEF Commits

LEMMA RemoveLayerCommits ==
    ASSUME NEW id \in KnownLayers, AuditRemoveLayer(id)
    PROVE  /\ Commits(RemoveLayer(id)) /\ EntryParts(RemoveLayer(id)) = {}
           /\ EntryStrokes(RemoveLayer(id)) = {} /\ EntryProps(RemoveLayer(id)) = {}
<1>1. id \in LayerId
  BY DEF KnownLayers, LayerId
<1>2. RemoveLayer(id) \in Edit
  BY <1>1 DEF RemoveLayer, Edit
<1>3. EntryParts(RemoveLayer(id)) = {} /\ EntryStrokes(RemoveLayer(id)) = {} /\ EntryProps(RemoveLayer(id)) = {}
  BY DEF EntryParts, EntryStrokes, EntryProps, RemoveLayer
<1>. QED
  BY <1>2, <1>3 DEF AuditRemoveLayer, DropLayer, Commits

LEMMA MoveLayerCommits ==
    ASSUME VersionsInv, NEW id \in KnownLayers, NEW index \in 1..Len(layers) + 1,
           AuditMoveLayer(id, index)
    PROVE  /\ Commits(MoveLayer(id, index)) /\ EntryParts(MoveLayer(id, index)) = {}
           /\ EntryStrokes(MoveLayer(id, index)) = {} /\ EntryProps(MoveLayer(id, index)) = {}
<1>1. id \in LayerId /\ index \in Nat \ {0}
  BY LenProperties DEF KnownLayers, LayerId, VersionsInv, LineInv, HInv, IInv, TypeOK
<1>2. MoveLayer(id, index) \in Edit
  BY <1>1 DEF MoveLayer, Edit
<1>3. /\ EntryParts(MoveLayer(id, index)) = {} /\ EntryStrokes(MoveLayer(id, index)) = {}
      /\ EntryProps(MoveLayer(id, index)) = {}
  BY DEF EntryParts, EntryStrokes, EntryProps, MoveLayer
<1>. QED
  BY <1>2, <1>3 DEF AuditMoveLayer, ReorderLayer, Commits

LEMMA NextVersionsInv == VersionsInv /\ [AuditNext]_auditVars => VersionsInv'
<1> SUFFICES ASSUME VersionsInv, [AuditNext]_auditVars PROVE VersionsInv'
  OBVIOUS
<1>1. LineInv' /\ Counting
  BY NextLineInv, StepCounting DEF VersionsInv, LineInv
<1>2. ASSUME NEW e, Commits(e),
             \A i \in 1..Len(versions) : Parts(versions[i]) \cap EntryParts(e) = {}
      PROVE  VersionsInv'
  BY <1>1, <1>2, CommitVersionsInv DEF Commits
<1>3. CASE UNCHANGED versions
  BY <1>1, <1>3, SameVersionsInv
<1>4. ASSUME NEW id \in KnownStrokes, AuditEndStroke(id) PROVE VersionsInv'
  BY <1>2, <1>4, EndStrokeCommits
<1>5. CASE AuditAddLayer
  BY <1>2, <1>5, AddLayerCommits
<1>6. ASSUME NEW id \in KnownLayers, AuditRemoveLayer(id) PROVE VersionsInv'
  BY <1>2, <1>6, RemoveLayerCommits
<1>7. ASSUME NEW id \in KnownLayers, NEW index \in 1..Len(layers) + 1, AuditMoveLayer(id, index)
      PROVE  VersionsInv'
  BY <1>2, <1>7, MoveLayerCommits
<1>8. CASE \/ \E sample \in NewSamples : AuditBeginStroke(sample)
           \/ \E id \in KnownStrokes : \E u \in UpdateIndexes : AuditReviseSample(id, u)
           \/ \E id \in KnownLayers : \E props \in LayerProps : AuditSetLayerProps(id, props)
           \/ UNCHANGED audit
           \/ UNCHANGED auditVars
  BY <1>3, <1>8 DEF AuditBeginStroke, AuditReviseSample, AuditSetLayerProps, audit, auditVars
<1>. QED
  BY <1>4, <1>5, <1>6, <1>7, <1>8 DEF AuditNext

LEMMA InitVersionsInv == AuditInit => VersionsInv
<1> SUFFICES ASSUME AuditInit PROVE VersionsInv
  OBVIOUS
<1>1. LineInv /\ HInv /\ layers \in Seq(Layer)
  BY InitLineInv, LineTyped DEF LineInv
<1>2. versions = <<Structure(layers)>>
  BY DEF AuditInit
<1>3. Minted(Contents(layers)) /\ NoDuplicates(Structure(layers))
  BY <1>1, DocumentMinted
<1>4. Parts(Structure(layers)) = Contents(layers)
  BY <1>1, StructureParts
<1> DEFINE S == Structure(layers)
<1> HIDE DEF S
<1>5. /\ Len(<<S>>) = 1 /\ \A i \in 1..1 : <<S>>[i] = S
      /\ \A i, j \in 1..1 : i = j
  OBVIOUS
<1>6. Contiguous(<<S>>)
  BY <1>5 DEF Contiguous
<1>. QED
  BY <1>1, <1>2, <1>3, <1>4, <1>5, <1>6 DEF VersionsInv, S

(***************************************************************************)
(* All the copies, and what is true of each.                               *)
(***************************************************************************)
EveryStroke == DocStrokes(layers) \cup StackStrokes(past) \cup StackStrokes(future)

EveryProps == DocProps(layers) \cup StackProps(past) \cup StackProps(future)

RevisedIn(s) == {i \in DOMAIN s.samples : s.samples[i].revised}

\* A revised sample is Committed: it is not revised a second time.
RevisedOnce(s) == \A i \in DOMAIN s.samples : s.samples[i].revised => s.samples[i].est = 0

Kept(c, home, count) ==
    /\ c[1] \in Stroke
    /\ c[1].id \in 1..Len(home)
    /\ c[2] = home[c[1].id]
    /\ RevisedOnce(c[1])
    /\ Cardinality(RevisedIn(c[1])) = count[c[1].id]

CopyInv ==
    /\ VersionsInv
    /\ drawnOn \in Seq(LayerId) /\ Len(drawnOn) = nextStrokeId - 1
    /\ finalised \in Seq(Nat) /\ Len(finalised) = nextStrokeId - 1
    /\ chosen \in Seq(LayerProps) /\ Len(chosen) = nextLayerId - 1
    /\ \A c \in EveryStroke : Kept(c, drawnOn, finalised)
    /\ HasActiveStroke => Kept(<<active, activeStrokeLayer>>, drawnOn, finalised)
    /\ \A l \in EveryProps : l[1] \in 1..Len(chosen) /\ l[2] = chosen[l[1]]

LEMMA CommitCopies ==
    ASSUME LineInv, NEW e, Commits(e)
    PROVE  /\ EveryStroke' \subseteq EveryStroke \cup EntryStrokes(e)
           /\ EveryProps' \subseteq EveryProps \cup EntryProps(e)
<1> DEFINE back == InverseOf(e, layers, activeLayer)
           new == LayersAfter(e, layers)
<1>1. layers \in Seq(Layer) /\ past \in Seq(Edit) /\ future \in Seq(Edit)
  BY LineTyped
<1>2. e \in Edit /\ CanApply(e, layers) /\ back \in Edit
  BY <1>1, EditTyped DEF Commits
<1>3. /\ DocStrokes(new) \cup EntryStrokes(back) \subseteq DocStrokes(layers) \cup EntryStrokes(e)
      /\ DocProps(new) \cup EntryProps(back) \subseteq DocProps(layers) \cup EntryProps(e)
  BY <1>1, <1>2, EditConserves, Zenon DEF Conserves
<1>4. layers' = new /\ past' = Append(past, back) /\ future' = << >>
  BY DEF Commits, Commit
<1> HIDE DEF back, new
<1>5. /\ StackStrokes(Append(past, back)) = StackStrokes(past) \cup EntryStrokes(back)
      /\ StackProps(Append(past, back)) = StackProps(past) \cup EntryProps(back)
  BY <1>1, <1>2, StackPush
<1>6. /\ EveryStroke' = DocStrokes(new) \cup StackStrokes(Append(past, back)) \cup StackStrokes(<< >>)
      /\ EveryProps' = DocProps(new) \cup StackProps(Append(past, back)) \cup StackProps(<< >>)
  BY <1>4 DEF EveryStroke, EveryProps
<1>. QED
  BY <1>3, <1>5, <1>6, StackEmpty DEF EveryStroke, EveryProps

\* What is popped off one stack is applied, and its inverse pushed on the other.
LEMMA PopCopies ==
    ASSUME LineInv, NEW from \in Seq(Edit), from # << >>, NEW to \in Seq(Edit), CanApply(Last(from), layers)
    PROVE  LET e == Last(from)
               new == LayersAfter(e, layers)
               pushed == Append(to, InverseOf(e, layers, activeLayer))
           IN  /\ DocStrokes(new) \cup StackStrokes(Front(from)) \cup StackStrokes(pushed)
                    \subseteq DocStrokes(layers) \cup StackStrokes(from) \cup StackStrokes(to)
               /\ DocProps(new) \cup StackProps(Front(from)) \cup StackProps(pushed)
                    \subseteq DocProps(layers) \cup StackProps(from) \cup StackProps(to)
<1> DEFINE e == Last(from)
           new == LayersAfter(e, layers)
           back == InverseOf(e, layers, activeLayer)
<1>1. layers \in Seq(Layer)
  BY LineTyped
<1>2. e \in Edit /\ CanApply(e, layers) /\ back \in Edit
  BY <1>1, LastAndFront, EditTyped
<1>3. /\ DocStrokes(new) \cup EntryStrokes(back) \subseteq DocStrokes(layers) \cup EntryStrokes(e)
      /\ DocProps(new) \cup EntryProps(back) \subseteq DocProps(layers) \cup EntryProps(e)
  BY <1>1, <1>2, EditConserves, Zenon DEF Conserves
<1>4. /\ StackStrokes(Front(from)) \cup EntryStrokes(e) \subseteq StackStrokes(from)
      /\ StackProps(Front(from)) \cup EntryProps(e) \subseteq StackProps(from)
  BY StackPop
<1> HIDE DEF back, new, e
<1>5. /\ StackStrokes(Append(to, back)) = StackStrokes(to) \cup EntryStrokes(back)
      /\ StackProps(Append(to, back)) = StackProps(to) \cup EntryProps(back)
  BY <1>2, StackPush
<1>6. /\ DocStrokes(new) \cup StackStrokes(Front(from)) \cup StackStrokes(Append(to, back))
           \subseteq DocStrokes(layers) \cup StackStrokes(from) \cup StackStrokes(to)
      /\ DocProps(new) \cup StackProps(Front(from)) \cup StackProps(Append(to, back))
           \subseteq DocProps(layers) \cup StackProps(from) \cup StackProps(to)
  BY <1>3, <1>4, <1>5
<1>. QED
  BY <1>6 DEF back, new, e

LEMMA UndoCopies ==
    ASSUME LineInv, Undo
    PROVE  EveryStroke' \subseteq EveryStroke /\ EveryProps' \subseteq EveryProps
<1>1. /\ past \in Seq(Edit) /\ future \in Seq(Edit)
      /\ Chain(Versions, past, Contents(layers)) /\ Chain(Versions, future, Contents(layers)) /\ HInv
  BY LineTyped DEF LineInv, HInv
<1>2. past # << >>
  BY DEF Undo
<1>3. CanApply(Last(past), layers)
  BY <1>1, <1>2, PopChains
<1>4. /\ layers' = LayersAfter(Last(past), layers)
      /\ past' = Front(past)
      /\ future' = Append(future, InverseOf(Last(past), layers, activeLayer))
  BY <1>3, Zenon DEF Undo
<1>. QED
  BY <1>1, <1>2, <1>3, <1>4, PopCopies DEF EveryStroke, EveryProps

LEMMA RedoCopies ==
    ASSUME LineInv, Redo
    PROVE  EveryStroke' \subseteq EveryStroke /\ EveryProps' \subseteq EveryProps
<1>1. /\ past \in Seq(Edit) /\ future \in Seq(Edit)
      /\ Chain(Versions, past, Contents(layers)) /\ Chain(Versions, future, Contents(layers)) /\ HInv
  BY LineTyped DEF LineInv, HInv
<1>2. future # << >>
  BY DEF Redo
<1>3. CanApply(Last(future), layers)
  BY <1>1, <1>2, PopChains
<1>4. /\ layers' = LayersAfter(Last(future), layers)
      /\ future' = Front(future)
      /\ past' = Append(past, InverseOf(Last(future), layers, activeLayer))
  BY <1>3, Zenon DEF Redo
<1>. QED
  BY <1>1, <1>2, <1>3, <1>4, PopCopies DEF EveryStroke, EveryProps

(***************************************************************************)
(* What a step does to a copy.                                             *)
(***************************************************************************)
LEMMA KeptWithMore ==
    ASSUME NEW c, NEW home \in Seq(LayerId), NEW count \in Seq(Nat), Len(count) = Len(home),
           Kept(c, home, count), NEW k \in LayerId, NEW n \in Nat
    PROVE  Kept(c, Append(home, k), Append(count, n))
<1>1. /\ c[1] \in Stroke /\ c[1].id \in 1..Len(home) /\ c[2] = home[c[1].id]
      /\ RevisedOnce(c[1]) /\ Cardinality(RevisedIn(c[1])) = count[c[1].id]
  BY DEF Kept
<1>2. /\ Len(home) \in Nat
      /\ Len(Append(home, k)) = Len(home) + 1
      /\ \A i \in 1..Len(home) : Append(home, k)[i] = home[i]
      /\ \A i \in 1..Len(count) : Append(count, n)[i] = count[i]
  BY AppendProperties, LenProperties
<1> DEFINE home2 == Append(home, k)
           count2 == Append(count, n)
<1> HIDE DEF home2, count2
<1>3. c[1].id \in 1..Len(home) + 1
  BY <1>1, <1>2
<1>4. /\ Len(home2) = Len(home) + 1 /\ home2[c[1].id] = home[c[1].id]
      /\ count2[c[1].id] = count[c[1].id]
  BY <1>1, <1>2 DEF home2, count2
<1>5. Kept(c, home2, count2)
  BY <1>1, <1>3, <1>4 DEF Kept
<1>. QED
  BY <1>5 DEF home2, count2

LEMMA KeptElsewhere ==
    ASSUME NEW c, NEW home, NEW count \in Seq(Nat), Kept(c, home, count), NEW id, c[1].id # id
    PROVE  Kept(c, home, [count EXCEPT ![id] = @ + 1])
<1>1. [count EXCEPT ![id] = @ + 1][c[1].id] = count[c[1].id]
  <2>1. CASE c[1].id \in DOMAIN count
    BY <2>1
  <2>2. CASE c[1].id \notin DOMAIN count
    BY <2>2
  <2>. QED
    BY <2>1, <2>2
<1>. QED
  BY <1>1 DEF Kept

\* A revision counts once: the sample it takes was not revised.
LEMMA ReviseKept ==
    ASSUME NEW s, NEW k, NEW home \in Seq(LayerId), NEW count \in Seq(Nat), Len(count) = Len(home),
           Kept(<<s, k>>, home, count), NEW u \in UpdateIndexes, Revisable(s, u) # {}
    PROVE  Kept(<<Revise(s, u), k>>, home, [count EXCEPT ![s.id] = @ + 1])
<1> DEFINE i == Max(Revisable(s, u))
           new == Revise(s, u)
           r == [est |-> 0, revised |-> TRUE]
           m == Len(s.samples)
<1>1. /\ s \in Stroke /\ s.id \in 1..Len(home) /\ k = home[s.id]
      /\ RevisedOnce(s) /\ Cardinality(RevisedIn(s)) = count[s.id]
  BY DEF Kept
<1>2. s.samples \in Seq(Sample)
  BY <1>1 DEF Stroke
<1>3. DOMAIN s.samples = 1..m /\ m \in Nat
  BY <1>2, LenProperties
<1>4. Revisable(s, u) \subseteq 1..m
  BY <1>3 DEF Revisable
<1>5. i \in Revisable(s, u)
  BY <1>3, <1>4, MaxOfPositions
<1>6. i \in 1..m /\ s.samples[i].est = u
  BY <1>3, <1>5 DEF Revisable
<1>7. new \in Stroke /\ new.id = s.id
  BY <1>1, ReviseTyped
<1>8. new.samples = [s.samples EXCEPT ![i] = r]
  BY <1>1 DEF Revise, Stroke
<1>9. r \in Sample
  BY DEF Sample
<1> HIDE DEF i, r, new
<1>10. /\ DOMAIN new.samples = 1..m
       /\ \A j \in 1..m : new.samples[j] = IF j = i THEN r ELSE s.samples[j]
  BY <1>3, <1>6, <1>8
<1>11. r.revised /\ r.est = 0
  BY DEF r
<1>12. u # 0
  BY UpdateIndexesAssumption
<1>13. i \notin RevisedIn(s)
  BY <1>1, <1>3, <1>6, <1>12 DEF RevisedIn, RevisedOnce
<1>14. RevisedIn(new) = RevisedIn(s) \cup {i}
  BY <1>3, <1>6, <1>10, <1>11 DEF RevisedIn
<1>15. RevisedOnce(new)
  BY <1>1, <1>3, <1>10, <1>11 DEF RevisedOnce
<1>16. IsFiniteSet(RevisedIn(s))
  <2>1. RevisedIn(s) \subseteq 1..m
    BY <1>3 DEF RevisedIn
  <2>2. IsFiniteSet(1..m)
    BY <1>3, FS_Interval
  <2>. QED
    BY <2>1, <2>2, FS_Subset
<1>17. Cardinality(RevisedIn(new)) = count[s.id] + 1
  BY <1>1, <1>13, <1>14, <1>16, FS_AddElement
<1>18. [count EXCEPT ![s.id] = @ + 1][s.id] = count[s.id] + 1
  BY <1>1, LenProperties
<1>19. <<new, k>>[1] = new /\ <<new, k>>[2] = k
  OBVIOUS
<1> DEFINE c == <<new, k>>
<1> HIDE DEF c
<1>20. c[1] = new /\ c[2] = k
  BY <1>19 DEF c
<1>21. Kept(c, home, [count EXCEPT ![s.id] = @ + 1])
  BY <1>1, <1>7, <1>15, <1>17, <1>18, <1>20 DEF Kept
<1>. QED
  BY <1>21 DEF c, new

LEMMA AddSampleKept ==
    ASSUME NEW s, NEW k, NEW home, NEW count, Kept(<<s, k>>, home, count), NEW sample \in NewSamples
    PROVE  Kept(<<[s EXCEPT !.samples = Append(@, sample)], k>>, home, count)
<1> DEFINE new == [s EXCEPT !.samples = Append(@, sample)]
           m == Len(s.samples)
           c == <<new, k>>
<1>1. /\ s \in Stroke /\ s.id \in 1..Len(home) /\ k = home[s.id]
      /\ RevisedOnce(s) /\ Cardinality(RevisedIn(s)) = count[s.id]
  BY DEF Kept
<1>2. s.samples \in Seq(Sample) /\ sample \in Sample
  BY <1>1, NewSamplesTyped DEF Stroke
<1>3. ~sample.revised
  BY DEF NewSamples, FreshSample
<1>4. DOMAIN s.samples = 1..m /\ m \in Nat
  BY <1>2, LenProperties
<1> DEFINE samples == Append(s.samples, sample)
<1>a. samples \in Seq(Sample)
  BY <1>2, AppendProperties
<1>b. new = [s EXCEPT !.samples = samples]
  OBVIOUS
<1> HIDE DEF samples, new
<1>d. new \in Stroke /\ new.id = s.id /\ new.samples = samples
  BY <1>1, <1>a, <1>b DEF Stroke
<1>5. new \in Stroke /\ new.id = s.id /\ new.samples = Append(s.samples, sample)
  BY <1>d DEF samples
<1>6. /\ DOMAIN new.samples = 1..m + 1
      /\ \A j \in 1..m : new.samples[j] = s.samples[j]
      /\ new.samples[m + 1] = sample
  BY <1>2, <1>4, <1>5, AppendProperties
<1>c. c[1] = new /\ c[2] = k
  OBVIOUS
<1> HIDE DEF c
<1>7. \A j : j \in 1..m + 1 <=> j \in 1..m \/ j = m + 1
  BY <1>4
<1> HIDE DEF m
<1>8. RevisedIn(new) = RevisedIn(s)
  BY <1>3, <1>4, <1>6, <1>7 DEF RevisedIn
<1>9. RevisedOnce(new)
  BY <1>1, <1>3, <1>4, <1>6, <1>7 DEF RevisedOnce
<1>10. Kept(c, home, count)
  BY <1>1, <1>5, <1>8, <1>9, <1>c DEF Kept
<1>. QED
  BY <1>10 DEF new, c

(***************************************************************************)
(* A copy outside the document is not of what the document has.            *)
(***************************************************************************)
LEMMA StackCopyParts ==
    ASSUME VersionsInv
    PROVE  /\ \A c \in StackStrokes(past) \cup StackStrokes(future) :
                /\ <<c[2], c[1].id>> \notin Contents(layers)
                /\ MintedPart(<<c[2], c[1].id>>)
           /\ \A l \in StackProps(past) \cup StackProps(future) :
                <<l[1], 0>> \notin Contents(layers)
<1>1. ASSUME NEW e \in ToSet(past) \cup ToSet(future)
      PROVE  \A x \in EntryParts(e) : x \notin Contents(layers) /\ MintedPart(x)
  <2>1. EntryParts(e) \cap Contents(layers) = {}
    BY EntriesApart
  <2>2. PICK i \in 1..Len(versions) : EntryParts(e) \subseteq Parts(versions[i])
    BY EntriesApart
  <2>3. \A x \in Parts(versions[i]) : MintedPart(x)
    BY DEF VersionsInv, Minted
  <2>. QED
    BY <2>1, <2>2, <2>3
<1>2. ASSUME NEW e \in ToSet(past) \cup ToSet(future)
      PROVE  /\ \A c \in EntryStrokes(e) : /\ <<c[2], c[1].id>> \notin Contents(layers)
                                           /\ MintedPart(<<c[2], c[1].id>>)
             /\ \A l \in EntryProps(e) : <<l[1], 0>> \notin Contents(layers)
  <2>1. /\ \A c \in EntryStrokes(e) : <<c[2], c[1].id>> \in EntryParts(e)
        /\ \A l \in EntryProps(e) : <<l[1], 0>> \in EntryParts(e)
    BY EntryPartsOfCopies
  <2>. QED
    BY <1>1, <2>1
<1>. QED
  BY <1>2 DEF StackStrokes, StackProps

LEMMA DocCopyParts ==
    /\ \A c \in DocStrokes(layers) : <<c[2], c[1].id>> \in Contents(layers)
    /\ \A l \in DocProps(layers) : <<l[1], 0>> \in Contents(layers)
BY ContentsOfCopies

\* No copy is of the stroke in flight.
LEMMA CopiesNotActive ==
    ASSUME VersionsInv, HasActiveStroke
    PROVE  \A c \in EveryStroke : c[1].id # active.id
<1>1. \A x \in Contents(layers) : MintedPart(x)
  BY DocumentMinted DEF VersionsInv, LineInv, Minted
<1>2. ASSUME NEW c \in EveryStroke PROVE MintedPart(<<c[2], c[1].id>>)
  BY <1>1, <1>2, StackCopyParts, DocCopyParts DEF EveryStroke
<1>3. ASSUME NEW x, NEW y, MintedPart(<<x, y>>) PROVE y # active.id
  BY <1>3 DEF MintedPart
<1>. QED
  BY <1>2, <1>3

(***************************************************************************)
(* The steps.                                                              *)
(***************************************************************************)
\* Every copy was there before, or is of the stroke that was in flight.
NoNewCopy ==
    /\ UNCHANGED <<ids, drawnOn, chosen, finalised>>
    /\ \A c \in EveryStroke' :
          c \in EveryStroke \/ (HasActiveStroke /\ c = <<active, activeStrokeLayer>>)
    /\ EveryProps' \subseteq EveryProps
    /\ HasActiveStroke' => UNCHANGED strokeVars

LEMMA SameCopies ==
    ASSUME CopyInv, VersionsInv', NoNewCopy
    PROVE  CopyInv'
<1>1. UNCHANGED <<nextStrokeId, nextLayerId, drawnOn, chosen, finalised>>
  BY DEF ids, NoNewCopy
<1>2. \A c \in EveryStroke' : Kept(c, drawnOn, finalised)
  BY DEF CopyInv, NoNewCopy
<1>3. HasActiveStroke' => Kept(<<active', activeStrokeLayer'>>, drawnOn, finalised)
  BY DEF CopyInv, NoNewCopy, strokeVars, HasActiveStroke
<1>4. \A l \in EveryProps' : l[1] \in 1..Len(chosen) /\ l[2] = chosen[l[1]]
  BY DEF CopyInv, NoNewCopy
<1>5. /\ drawnOn \in Seq(LayerId) /\ Len(drawnOn) = nextStrokeId - 1
      /\ finalised \in Seq(Nat) /\ Len(finalised) = nextStrokeId - 1
      /\ chosen \in Seq(LayerProps) /\ Len(chosen) = nextLayerId - 1
  BY DEF CopyInv
<1>6. /\ drawnOn' \in Seq(LayerId) /\ Len(drawnOn') = nextStrokeId' - 1
      /\ finalised' \in Seq(Nat) /\ Len(finalised') = nextStrokeId' - 1
      /\ chosen' \in Seq(LayerProps) /\ Len(chosen') = nextLayerId' - 1
  BY <1>1, <1>5
<1>7. \A c \in EveryStroke' : Kept(c, drawnOn', finalised')
  BY <1>1, <1>2
<1>8. HasActiveStroke' => Kept(<<active', activeStrokeLayer'>>, drawnOn', finalised')
  BY <1>1, <1>3
<1>9. \A l \in EveryProps' : l[1] \in 1..Len(chosen') /\ l[2] = chosen'[l[1]]
  BY <1>1, <1>4
<1>. QED
  BY <1>6, <1>7, <1>8, <1>9 DEF CopyInv

LEMMA BeginStrokeCopies ==
    ASSUME CopyInv, VersionsInv', NEW sample \in NewSamples, AuditBeginStroke(sample)
    PROVE  CopyInv'
<1> DEFINE n == nextStrokeId
           s == [id |-> n, samples |-> <<sample>>]
           home == Append(drawnOn, activeLayer)
           count == Append(finalised, 0)
<1>1. /\ drawnOn \in Seq(LayerId) /\ Len(drawnOn) = n - 1
      /\ finalised \in Seq(Nat) /\ Len(finalised) = n - 1
      /\ chosen \in Seq(LayerProps) /\ Len(chosen) = nextLayerId - 1
      /\ \A c \in EveryStroke : Kept(c, drawnOn, finalised)
      /\ \A l \in EveryProps : l[1] \in 1..Len(chosen) /\ l[2] = chosen[l[1]]
  BY DEF CopyInv
<1>2. activeLayer \in LayerId /\ n \in Nat \ {0}
  BY DEF CopyInv, VersionsInv, LineInv, HInv, IInv, TypeOK, StrokeId
<1>3. /\ active' = s /\ activeStrokeLayer' = activeLayer
      /\ nextStrokeId' = n + 1 /\ drawnOn' = home /\ finalised' = count
      /\ UNCHANGED <<layers, past, future, nextLayerId, chosen>>
  BY DEF AuditBeginStroke, BeginStroke, docVars, history
<1>4. /\ home \in Seq(LayerId) /\ Len(home) = n /\ home[n] = activeLayer
      /\ count \in Seq(Nat) /\ Len(count) = n /\ count[n] = 0
  BY <1>1, <1>2, AppendProperties
<1>5. EveryStroke' = EveryStroke /\ EveryProps' = EveryProps
  BY <1>3 DEF EveryStroke, EveryProps
<1>6. \A c \in EveryStroke : Kept(c, home, count)
  BY <1>1, <1>2, KeptWithMore
<1>7. sample \in Sample /\ ~sample.revised
  BY NewSamplesTyped DEF NewSamples, FreshSample
<1>8. s \in Stroke /\ s.id = n /\ s.samples = <<sample>>
  BY <1>2, <1>7 DEF Stroke, StrokeId
<1>9. RevisedIn(s) = {} /\ RevisedOnce(s)
  <2>1. DOMAIN s.samples = 1..1 /\ s.samples[1] = sample
    BY <1>8
  <2> HIDE DEF s
  <2>. QED
    BY <1>7, <2>1 DEF RevisedIn, RevisedOnce
<1> DEFINE c == <<s, activeLayer>>
<1>c. c[1] = s /\ c[2] = activeLayer
  OBVIOUS
<1> HIDE DEF s, home, count, c
<1>10. n \in 1..Len(home)
  BY <1>2, <1>4
<1>11. Kept(c, home, count)
  BY <1>4, <1>8, <1>9, <1>10, <1>c, FS_EmptySet DEF Kept
<1>12. Len(drawnOn') = nextStrokeId' - 1 /\ Len(finalised') = nextStrokeId' - 1
  <2>1. n + 1 - 1 = n
    BY <1>2
  <2>. QED
    BY <1>3, <1>4, <2>1
<1>. QED
  BY <1>1, <1>3, <1>4, <1>5, <1>6, <1>11, <1>12 DEF CopyInv, c

LEMMA AddSampleCopies ==
    ASSUME CopyInv, VersionsInv', NEW id, NEW sample \in NewSamples, AddSample(id, sample), UNCHANGED audit
    PROVE  CopyInv'
<1>1. /\ active' = [active EXCEPT !.samples = Append(@, sample)] /\ HasActiveStroke
      /\ UNCHANGED <<layers, past, future, activeStrokeLayer, nextStrokeId, nextLayerId, drawnOn, chosen, finalised>>
  BY DEF AddSample, docVars, history, ids, audit
<1>2. Kept(<<active, activeStrokeLayer>>, drawnOn, finalised)
  BY <1>1 DEF CopyInv
<1>3. Kept(<<active', activeStrokeLayer'>>, drawnOn', finalised')
  BY <1>1, <1>2, AddSampleKept
<1>4. EveryStroke' = EveryStroke /\ EveryProps' = EveryProps
  BY <1>1 DEF EveryStroke, EveryProps
<1>. QED
  BY <1>1, <1>3, <1>4 DEF CopyInv

LEMMA CountedTyped ==
    ASSUME NEW count \in Seq(Nat), NEW id \in 1..Len(count)
    PROVE  /\ [count EXCEPT ![id] = @ + 1] \in Seq(Nat)
           /\ Len([count EXCEPT ![id] = @ + 1]) = Len(count)
<1>1. count[id] \in Nat
  BY ElementOfSeq
<1>2. count[id] + 1 \in Nat
  BY <1>1
<1>. QED
  BY <1>2, ExceptSeq

LEMMA ReviseActiveCopies ==
    ASSUME CopyInv, VersionsInv', NEW id, NEW u \in UpdateIndexes, AuditReviseSample(id, u),
           RevisesActive(id, u), active' = Revise(active, u), UNCHANGED layers
    PROVE  CopyInv'
<1> DEFINE count == [finalised EXCEPT ![active.id] = @ + 1]
<1>1. /\ HasActiveStroke /\ active.id = id /\ Revisable(active, u) # {} /\ finalised' = count
      /\ UNCHANGED <<layers, past, future, activeStrokeLayer, nextStrokeId, nextLayerId, drawnOn, chosen>>
  BY DEF AuditReviseSample, ReviseSample, RevisesActive, history, ids
<1>2. /\ drawnOn \in Seq(LayerId) /\ Len(drawnOn) = nextStrokeId - 1
      /\ finalised \in Seq(Nat) /\ Len(finalised) = nextStrokeId - 1
      /\ chosen \in Seq(LayerProps) /\ Len(chosen) = nextLayerId - 1
      /\ \A c \in EveryStroke : Kept(c, drawnOn, finalised)
      /\ Kept(<<active, activeStrokeLayer>>, drawnOn, finalised)
      /\ \A l \in EveryProps : l[1] \in 1..Len(chosen) /\ l[2] = chosen[l[1]]
      /\ VersionsInv
  BY <1>1 DEF CopyInv
<1>3. active.id \in 1..Len(finalised)
  BY <1>2 DEF Kept
<1>4. count \in Seq(Nat) /\ Len(count) = Len(finalised)
  BY <1>2, <1>3, CountedTyped
<1>5. \A c \in EveryStroke : Kept(c, drawnOn, count)
  BY <1>1, <1>2, CopiesNotActive, KeptElsewhere
<1>6. Kept(<<Revise(active, u), activeStrokeLayer>>, drawnOn, count)
  BY <1>1, <1>2, ReviseKept
<1> HIDE DEF count
<1>7. EveryStroke' = EveryStroke /\ EveryProps' = EveryProps
  BY <1>1 DEF EveryStroke, EveryProps
<1>. QED
  BY <1>1, <1>2, <1>4, <1>5, <1>6, <1>7 DEF CopyInv

\* A revision of a committed stroke changes one copy, the one it found.
LEMMA ReviseLayersCopies ==
    ASSUME NEW ls \in Seq(Layer), Distinct(ls), Separate(Contents(ls)), NEW id, id # 0,
           NEW u, RevisableLayers(ls, id, u) # {}
    PROVE  \E s, k :
             /\ <<s, k>> \in DocStrokes(ls) /\ s.id = id /\ Revisable(s, u) # {}
             /\ \A c \in DocStrokes(ReviseLayers(ls, id, u)) :
                  (c \in DocStrokes(ls) /\ c[1].id # id) \/ c = <<Revise(s, u), k>>
             /\ DocProps(ReviseLayers(ls, id, u)) \subseteq DocProps(ls)
<1> DEFINE p == Max(RevisableLayers(ls, id, u))
           drawn == ls[p].strokes
           n == Len(drawn)
           s == drawn[n]
           k == ls[p].id
           new == [drawn EXCEPT ![n] = Revise(s, u)]
           others == {c \in DocStrokes(ls) : c[1].id # id}
<1>1. DOMAIN ls = 1..Len(ls) /\ Len(ls) \in Nat
  BY LenProperties
<1>2. p \in RevisableLayers(ls, id, u)
  BY <1>1, MaxOfPositions DEF RevisableLayers
<1>3. /\ p \in 1..Len(ls) /\ drawn # << >> /\ s.id = id /\ Revisable(s, u) # {}
  BY <1>1, <1>2 DEF RevisableLayers, Last
<1>4. drawn \in Seq(Stroke) /\ ls[p] \in Layer /\ ls[p] \in ToSet(ls)
  BY <1>3, LayerAt, SetMember
<1>5. n \in 1..Len(drawn) /\ n \in Nat
  BY <1>3, <1>4, EmptySeq, LenProperties
<1>6. s \in Stroke /\ Revise(s, u) \in Stroke
  BY <1>3, <1>4, <1>5, ElementOfSeq, ReviseTyped
<1>7. ReviseLayers(ls, id, u) = WithStrokes(ls, p, new)
  BY DEF ReviseLayers, WithStrokes
<1>8. NoDuplicates(drawn)
  BY <1>4 DEF Distinct
<1>9. s \in ToSet(drawn)
  BY <1>4, <1>5, SetMember
<1>10. StrokesOn(ls[p]) \subseteq DocStrokes(ls) /\ <<k, ls[p].props>> \in DocProps(ls)
  BY <1>3, LayerCopiesIn
<1>11. <<s, k>> \in DocStrokes(ls)
  BY <1>9, <1>10 DEF StrokesOn
<1>12. \A c \in StrokesOn(ls[p]) : c[1] \in ToSet(drawn) /\ c[2] = k
  BY DEF StrokesOn
<1>w. WithStrokes(ls, p, new) = [ls EXCEPT ![p] = [ls[p] EXCEPT !.strokes = new]]
  BY DEF WithStrokes
<1>d. drawn = ls[p].strokes /\ k = ls[p].id
  OBVIOUS
<1> HIDE DEF p, n, s, k, drawn
<1>13. /\ new \in Seq(Stroke) /\ Len(new) = Len(drawn)
       /\ \A i \in 1..Len(drawn) : new[i] = IF i = n THEN Revise(s, u) ELSE drawn[i]
  BY <1>4, <1>5, <1>6, ExceptSeq
<1>14. \A i \in 1..Len(drawn) : i # n => drawn[i].id # id
  <2>1. DOMAIN drawn = 1..Len(drawn)
    BY <1>4, LenProperties
  <2>2. drawn[n].id = id
    BY <1>3 DEF s
  <2>. QED
    BY <1>5, <1>8, <2>1, <2>2 DEF NoDuplicates
<1> HIDE DEF new
<1> DEFINE l == [ls[p] EXCEPT !.strokes = new]
<1>15. l \in Layer /\ l.id = k /\ l.props = ls[p].props /\ l.strokes = new
  BY <1>4, <1>13, <1>d DEF Layer
<1> DEFINE after == ReviseLayers(ls, id, u)
<1>16. after = [ls EXCEPT ![p] = l]
  BY <1>7, <1>w
<1> HIDE DEF l, after
<1>17. /\ after \in Seq(Layer) /\ Len(after) = Len(ls)
       /\ \A i \in 1..Len(ls) : after[i] = IF i = p THEN l ELSE ls[i]
  BY <1>3, <1>15, <1>16, ExceptSeq
<1>18. ASSUME NEW c \in StrokesOn(l) PROVE c \in others \/ c = <<Revise(s, u), k>>
  <2>1. PICK t \in ToSet(new) : c = <<t, k>>
    BY <1>15, <1>18 DEF StrokesOn
  <2>2. PICK i \in 1..Len(new) : new[i] = t
    BY <1>13, SetMember
  <2>3. CASE i = n
    BY <1>13, <2>1, <2>2, <2>3
  <2>4. CASE i # n
    <3>1. t = drawn[i] /\ t.id # id /\ i \in 1..Len(drawn)
      BY <1>13, <1>14, <2>2, <2>4
    <3>2. t \in ToSet(drawn)
      BY <1>4, <3>1, SetMember
    <3>3. c \in StrokesOn(ls[p])
      BY <1>d, <2>1, <3>2 DEF StrokesOn
    <3>4. c[1] = t
      BY <2>1
    <3>. QED
      BY <1>10, <3>1, <3>3, <3>4
  <2>. QED
    BY <2>3, <2>4
<1>19. ASSUME NEW i \in 1..Len(ls), i # p, NEW c \in StrokesOn(ls[i]) PROVE c \in others
  <2>1. c \in DocStrokes(ls)
    BY <1>19, LayerCopiesIn
  <2>2. c[2] = ls[i].id /\ <<ls[i].id, c[1].id>> \in Contents(ls)
    <3>1. <<c[2], c[1].id>> \in Contents(ls)
      BY <2>1, ContentsOfCopies
    <3>2. c[2] = ls[i].id
      BY <1>19 DEF StrokesOn
    <3>. QED
      BY <3>1, <3>2
  <2>3. <<k, id>> \in Contents(ls)
    <3>1. <<<<s, k>>[2], <<s, k>>[1].id>> \in Contents(ls)
      BY <1>11, ContentsOfCopies
    <3>. QED
      BY <1>3, <3>1
  <2>4. ls[i].id # k
    BY <1>1, <1>3, <1>19, <1>d DEF Distinct, NoDuplicates
  <2>5. \A x, y \in Contents(ls) : x[2] # 0 /\ x[2] = y[2] => x[1] = y[1]
    BY DEF Separate
  <2>6. c[1].id # id
    <3>1. SUFFICES ASSUME c[1].id = id PROVE FALSE
      OBVIOUS
    <3> DEFINE x == <<ls[i].id, id>>
               y == <<k, id>>
    <3>2. x \in Contents(ls) /\ y \in Contents(ls) /\ x[1] = ls[i].id /\ x[2] = id /\ y[1] = k /\ y[2] = id
      BY <2>2, <2>3, <3>1
    <3> HIDE DEF x, y
    <3>. QED
      BY <2>4, <2>5, <3>2
  <2>. QED
    BY <2>1, <2>6
<1>20. ASSUME NEW layer \in ToSet(after)
       PROVE  /\ \A c \in StrokesOn(layer) : c \in others \/ c = <<Revise(s, u), k>>
              /\ <<layer.id, layer.props>> \in DocProps(ls)
  <2>1. PICK i \in 1..Len(after) : after[i] = layer
    BY <1>17, SetMember
  <2>2. i \in 1..Len(ls) /\ layer = IF i = p THEN l ELSE ls[i]
    BY <1>17, <2>1
  <2>3. CASE i = p
    BY <1>10, <1>15, <1>18, <2>2, <2>3
  <2>4. CASE i # p
    BY <1>19, <2>2, <2>4, LayerCopiesIn
  <2>. QED
    BY <2>3, <2>4
<1>21. /\ \A c \in DocStrokes(after) : (c \in DocStrokes(ls) /\ c[1].id # id) \/ c = <<Revise(s, u), k>>
       /\ DocProps(after) \subseteq DocProps(ls)
  BY <1>20 DEF DocStrokes, DocProps
<1>. QED
  BY <1>3, <1>11, <1>21 DEF after

LEMMA ReviseCommittedCopies ==
    ASSUME CopyInv, VersionsInv', NEW id \in KnownStrokes, NEW u \in UpdateIndexes,
           AuditReviseSample(id, u), RevisableLayers(layers, id, u) # {},
           layers' = ReviseLayers(layers, id, u), UNCHANGED active
    PROVE  CopyInv'
<1> DEFINE count == [finalised EXCEPT ![id] = @ + 1]
<1>1. /\ finalised' = count
      /\ UNCHANGED <<past, future, active, activeStrokeLayer, nextStrokeId, nextLayerId, drawnOn, chosen>>
  BY DEF AuditReviseSample, ReviseSample, history, ids
<1>2. /\ drawnOn \in Seq(LayerId) /\ Len(drawnOn) = nextStrokeId - 1
      /\ finalised \in Seq(Nat) /\ Len(finalised) = nextStrokeId - 1
      /\ chosen \in Seq(LayerProps) /\ Len(chosen) = nextLayerId - 1
      /\ \A c \in EveryStroke : Kept(c, drawnOn, finalised)
      /\ HasActiveStroke => Kept(<<active, activeStrokeLayer>>, drawnOn, finalised)
      /\ \A l \in EveryProps : l[1] \in 1..Len(chosen) /\ l[2] = chosen[l[1]]
      /\ VersionsInv /\ LineInv /\ HInv
  BY DEF CopyInv, VersionsInv, LineInv
<1>3. layers \in Seq(Layer) /\ Distinct(layers) /\ Separate(Contents(layers)) /\ id # 0
  BY <1>2, LineTyped, ContentsMinted DEF Versions, KnownStrokes
<1>4. PICK s, k :
             /\ <<s, k>> \in DocStrokes(layers) /\ s.id = id /\ Revisable(s, u) # {}
             /\ \A c \in DocStrokes(layers') :
                  (c \in DocStrokes(layers) /\ c[1].id # id) \/ c = <<Revise(s, u), k>>
             /\ DocProps(layers') \subseteq DocProps(layers)
  <2> DEFINE after == ReviseLayers(layers, id, u)
  <2>1. \E s, k :
             /\ <<s, k>> \in DocStrokes(layers) /\ s.id = id /\ Revisable(s, u) # {}
             /\ \A c \in DocStrokes(after) :
                  (c \in DocStrokes(layers) /\ c[1].id # id) \/ c = <<Revise(s, u), k>>
             /\ DocProps(after) \subseteq DocProps(layers)
    BY <1>3, ReviseLayersCopies, Zenon
  <2>2. layers' = after
    OBVIOUS
  <2> HIDE DEF after
  <2>. QED
    BY <2>1, <2>2
<1>5. Kept(<<s, k>>, drawnOn, finalised)
  BY <1>2, <1>4 DEF EveryStroke
<1>6. id \in 1..Len(finalised) /\ k = drawnOn[id] /\ id \in 1..Len(drawnOn)
  <2>1. s.id \in 1..Len(drawnOn) /\ k = drawnOn[s.id]
    BY <1>5 DEF Kept
  <2>. QED
    BY <1>2, <1>4, <2>1
<1>7. count \in Seq(Nat) /\ Len(count) = Len(finalised)
  BY <1>2, <1>6, CountedTyped
<1>8. Kept(<<Revise(s, u), k>>, drawnOn, count)
  BY <1>2, <1>4, <1>5, ReviseKept
<1>9. <<k, id>> \in Contents(layers)
  <2>1. <<<<s, k>>[2], <<s, k>>[1].id>> \in Contents(layers)
    BY <1>4, DocCopyParts
  <2>. QED
    BY <1>4, <2>1
<1>10. ASSUME NEW c \in StackStrokes(past) \cup StackStrokes(future) PROVE c[1].id # id
  <2>1. c[2] = drawnOn[c[1].id]
    BY <1>2, <1>10 DEF EveryStroke, Kept
  <2>2. <<c[2], c[1].id>> \notin Contents(layers)
    BY <1>2, <1>10, StackCopyParts
  <2>. QED
    BY <1>6, <1>9, <2>1, <2>2
<1>11. HasActiveStroke => active.id # id
  <2>1. HasActiveStroke => \A x \in Contents(layers) : x[2] # active.id
    BY <1>2 DEF HInv
  <2>2. <<k, id>>[2] = id
    OBVIOUS
  <2>. QED
    BY <1>9, <2>1, <2>2
<1>12. \A c : Kept(c, drawnOn, finalised) /\ c[1].id # id => Kept(c, drawnOn, count)
  BY <1>2, KeptElsewhere
<1> HIDE DEF count
<1>13. EveryStroke' = DocStrokes(layers') \cup StackStrokes(past) \cup StackStrokes(future)
  BY <1>1 DEF EveryStroke
<1>14. \A c \in EveryStroke' : Kept(c, drawnOn, count)
  BY <1>2, <1>4, <1>8, <1>10, <1>12, <1>13 DEF EveryStroke
<1>15. EveryProps' \subseteq EveryProps
  BY <1>1, <1>4 DEF EveryProps
<1>16. HasActiveStroke => Kept(<<active, activeStrokeLayer>>, drawnOn, count)
  <2>1. <<active, activeStrokeLayer>>[1] = active
    OBVIOUS
  <2>. QED
    BY <1>2, <1>11, <1>12, <2>1
<1>. QED
  BY <1>1, <1>2, <1>7, <1>14, <1>15, <1>16 DEF CopyInv, HasActiveStroke

\* Attributes set on a layer change one copy, the one in the document.
LEMMA SetLayerPropsCopies ==
    ASSUME CopyInv, VersionsInv', NEW id \in KnownLayers, NEW props \in LayerProps,
           AuditSetLayerProps(id, props)
    PROVE  CopyInv'
<1> DEFINE p == Position(layers, id)
           old == layers[p]
           l == [old EXCEPT !.props = props]
           new == [chosen EXCEPT ![id] = props]
<1>1. /\ drawnOn \in Seq(LayerId) /\ Len(drawnOn) = nextStrokeId - 1
      /\ finalised \in Seq(Nat) /\ Len(finalised) = nextStrokeId - 1
      /\ chosen \in Seq(LayerProps) /\ Len(chosen) = nextLayerId - 1
      /\ \A c \in EveryStroke : Kept(c, drawnOn, finalised)
      /\ HasActiveStroke => Kept(<<active, activeStrokeLayer>>, drawnOn, finalised)
      /\ \A k \in EveryProps : k[1] \in 1..Len(chosen) /\ k[2] = chosen[k[1]]
      /\ VersionsInv /\ LineInv /\ HInv
  BY DEF CopyInv, VersionsInv, LineInv
<1>2. /\ id \in Ids(layers) /\ layers' = [layers EXCEPT ![p] = l] /\ chosen' = new
      /\ UNCHANGED <<past, future, active, activeStrokeLayer, nextStrokeId, nextLayerId, drawnOn, finalised>>
  BY DEF AuditSetLayerProps, SetLayerProps, strokeVars, history, ids
<1>3. layers \in Seq(Layer) /\ NoDuplicates(layers)
  BY <1>1, LineTyped
<1>4. p \in 1..Len(layers) /\ old.id = id
  BY <1>2, <1>3, PositionFound
<1>5. old \in Layer
  BY <1>3, <1>4, LayerAt
<1>6. l \in Layer /\ l.id = id /\ l.strokes = old.strokes /\ l.props = props
  BY <1>4, <1>5 DEF Layer
<1>o. old = layers[p]
  OBVIOUS
<1> HIDE DEF l, old, p
<1> DEFINE after == layers'
<1>7. /\ after \in Seq(Layer) /\ Len(after) = Len(layers)
      /\ \A i \in 1..Len(layers) : after[i] = IF i = p THEN l ELSE layers[i]
  BY <1>2, <1>3, <1>4, <1>6, ExceptSeq
<1> HIDE DEF after
<1>8. ASSUME NEW layer \in ToSet(after)
      PROVE  /\ StrokesOn(layer) \subseteq DocStrokes(layers)
             /\ \/ layer.id = id /\ layer.props = props
                \/ <<layer.id, layer.props>> \in DocProps(layers) /\ layer.id # id
  <2>1. PICK i \in 1..Len(after) : after[i] = layer
    BY <1>7, SetMember
  <2>2. i \in 1..Len(layers) /\ layer = IF i = p THEN l ELSE layers[i]
    BY <1>7, <2>1
  <2>3. CASE i = p
    <3>1. StrokesOn(l) = StrokesOn(old)
      BY <1>4, <1>6, Zenon DEF StrokesOn
    <3>. QED
      <4>1. StrokesOn(old) \subseteq DocStrokes(layers)
        BY <1>3, <1>4, <1>o, LayerCopiesIn
      <4>. QED
        BY <1>6, <2>2, <2>3, <3>1, <4>1
  <2>4. CASE i # p
    <3>1. layers[i].id # id
      <4>1. DOMAIN layers = 1..Len(layers)
        BY <1>3, LenProperties
      <4>. QED
        BY <1>3, <1>4, <1>o, <2>2, <2>4, <4>1 DEF NoDuplicates
    <3>. QED
      BY <1>3, <2>2, <2>4, <3>1, LayerCopiesIn
  <2>. QED
    BY <2>3, <2>4
<1>9. /\ DocStrokes(after) \subseteq DocStrokes(layers)
      /\ \A k \in DocProps(after) : \/ k[1] = id /\ k[2] = props
                                    \/ k \in DocProps(layers) /\ k[1] # id
  <2>1. DocStrokes(after) \subseteq DocStrokes(layers)
    BY <1>8 DEF DocStrokes
  <2>2. ASSUME NEW k \in DocProps(after)
        PROVE  \/ k[1] = id /\ k[2] = props
               \/ k \in DocProps(layers) /\ k[1] # id
    <3>1. PICK layer \in ToSet(after) : k = <<layer.id, layer.props>>
      BY <2>2 DEF DocProps
    <3>2. k[1] = layer.id /\ k[2] = layer.props
      BY <3>1
    <3>. QED
      BY <1>8, <3>1, <3>2
  <2>. QED
    BY <2>1, <2>2
<1>10. <<id, 0>> \in Contents(layers)
  BY <1>2, <1>3, LayerOf
<1>11. \A k \in StackProps(past) \cup StackProps(future) : k[1] # id
  BY <1>1, <1>10, StackCopyParts
<1>12. id \in 1..Len(chosen)
  BY <1>1 DEF KnownLayers
<1>13. /\ new \in Seq(LayerProps) /\ Len(new) = Len(chosen) /\ new[id] = props
       /\ \A i \in 1..Len(chosen) : i # id => new[i] = chosen[i]
  BY <1>1, <1>12, ExceptSeq
<1> HIDE DEF new
<1>14. EveryStroke' \subseteq EveryStroke
  BY <1>2, <1>9 DEF EveryStroke, after
<1>15. EveryProps' = DocProps(after) \cup StackProps(past) \cup StackProps(future)
  BY <1>2 DEF EveryProps, after
<1>16. \A k \in EveryProps' : k[1] \in 1..Len(new) /\ k[2] = new[k[1]]
  BY <1>1, <1>9, <1>11, <1>12, <1>13, <1>15 DEF EveryProps
<1>17. HasActiveStroke' = HasActiveStroke
  BY <1>2 DEF HasActiveStroke
<1>. QED
  BY <1>1, <1>2, <1>13, <1>14, <1>16, <1>17 DEF CopyInv

LEMMA AddLayerCopies ==
    ASSUME CopyInv, VersionsInv', AuditAddLayer
    PROVE  CopyInv'
<1> DEFINE n == nextLayerId
           new == Append(chosen, DefaultProps)
<1>1. /\ drawnOn \in Seq(LayerId) /\ Len(drawnOn) = nextStrokeId - 1
      /\ finalised \in Seq(Nat) /\ Len(finalised) = nextStrokeId - 1
      /\ chosen \in Seq(LayerProps) /\ Len(chosen) = n - 1
      /\ \A c \in EveryStroke : Kept(c, drawnOn, finalised)
      /\ HasActiveStroke => Kept(<<active, activeStrokeLayer>>, drawnOn, finalised)
      /\ \A l \in EveryProps : l[1] \in 1..Len(chosen) /\ l[2] = chosen[l[1]]
      /\ VersionsInv /\ LineInv
  BY DEF CopyInv, VersionsInv
<1>2. n \in Nat \ {0}
  BY DEF CopyInv, VersionsInv, LineInv, HInv, IInv, TypeOK, LayerId
<1>3. /\ n + 1 = nextLayerId' /\ chosen' = new
      /\ UNCHANGED <<active, activeStrokeLayer, nextStrokeId, drawnOn, finalised>>
  BY DEF AuditAddLayer, NewTopLayer, strokeVars
<1>4. PICK e : Commits(e) /\ e.op = "AddLayer" /\ e.layer = NewLayer(n)
  BY <1>1, AddLayerCommits
<1>5. /\ EveryStroke' \subseteq EveryStroke \cup EntryStrokes(e)
      /\ EveryProps' \subseteq EveryProps \cup EntryProps(e)
  BY <1>1, <1>4, CommitCopies
<1>6. EntryStrokes(e) = {} /\ EntryProps(e) = {<<n, DefaultProps>>}
  <2>1. ToSet(<< >>) = {}
    BY DEF ToSet
  <2>. QED
    BY <1>4, <2>1 DEF EntryStrokes, EntryProps, StrokesOn, NewLayer
<1>7. /\ new \in Seq(LayerProps) /\ Len(new) = n /\ new[n] = DefaultProps
      /\ \A i \in 1..Len(chosen) : new[i] = chosen[i]
  BY <1>1, <1>2, DefaultPropsAssumption, AppendProperties
<1>8. n \in 1..n /\ \A i \in 1..(n - 1) : i \in 1..n
  BY <1>2
<1>9. ASSUME NEW l \in EveryProps' PROVE l[1] \in 1..Len(new) /\ l[2] = new[l[1]]
  <2>1. CASE l \in EveryProps
    BY <1>1, <1>7, <1>8, <2>1
  <2>2. CASE l = <<n, DefaultProps>>
    <3>1. l[1] = n /\ l[2] = DefaultProps
      BY <2>2
    <3>. QED
      BY <1>7, <1>8, <3>1
  <2>. QED
    BY <1>5, <1>6, <1>9, <2>1, <2>2
<1> HIDE DEF new
<1>10. Len(chosen') = nextLayerId' - 1
  <2>1. n + 1 - 1 = n
    BY <1>2
  <2>. QED
    BY <1>3, <1>7, <2>1
<1>11. HasActiveStroke' = HasActiveStroke
  BY <1>3 DEF HasActiveStroke
<1>12. \A c \in EveryStroke' : Kept(c, drawnOn, finalised)
  BY <1>1, <1>5, <1>6
<1>. QED
  BY <1>1, <1>3, <1>7, <1>9, <1>10, <1>11, <1>12 DEF CopyInv

LEMMA NextCopyInv == CopyInv /\ [AuditNext]_auditVars => CopyInv'
<1> SUFFICES ASSUME CopyInv, [AuditNext]_auditVars PROVE CopyInv'
  OBVIOUS
<1>1. VersionsInv /\ LineInv /\ HInv
  BY DEF CopyInv, VersionsInv, LineInv
<1>2. VersionsInv'
  BY <1>1, NextVersionsInv
<1>3. ASSUME UNCHANGED <<layers, past, future, ids, drawnOn, chosen, finalised>>,
             active' = NoStroke \/ UNCHANGED strokeVars
      PROVE  CopyInv'
  <2>1. EveryStroke' = EveryStroke /\ EveryProps' = EveryProps
    BY <1>3 DEF EveryStroke, EveryProps
  <2>2. NoNewCopy
    BY <1>3, <2>1 DEF NoNewCopy, HasActiveStroke
  <2>. QED
    BY <1>2, <2>2, SameCopies
<1>4. ASSUME NEW id \in KnownStrokes, AuditEndStroke(id) PROVE CopyInv'
  <2> DEFINE e == AddStroke(active, activeStrokeLayer)
  <2>1. /\ Commits(e) /\ HasActiveStroke /\ active' = NoStroke
        /\ UNCHANGED <<ids, drawnOn, chosen, finalised>>
    BY <1>1, <1>4, EndStrokeCommits
  <2>2. EntryStrokes(e) = {<<active, activeStrokeLayer>>} /\ EntryProps(e) = {}
    BY DEF EntryStrokes, EntryProps, AddStroke
  <2> HIDE DEF e
  <2>3. /\ EveryStroke' \subseteq EveryStroke \cup {<<active, activeStrokeLayer>>}
        /\ EveryProps' \subseteq EveryProps
    BY <1>1, <2>1, <2>2, CommitCopies
  <2>4. NoNewCopy
    BY <2>1, <2>3 DEF NoNewCopy, HasActiveStroke
  <2>. QED
    BY <1>2, <2>4, SameCopies
<1>5. ASSUME NEW e, Commits(e), EntryStrokes(e) = {}, EntryProps(e) = {},
             UNCHANGED <<strokeVars, ids, drawnOn, chosen, finalised>>
      PROVE  CopyInv'
  <2>1. EveryStroke' \subseteq EveryStroke /\ EveryProps' \subseteq EveryProps
    BY <1>1, <1>5, CommitCopies
  <2>2. NoNewCopy
    BY <1>5, <2>1 DEF NoNewCopy
  <2>. QED
    BY <1>2, <2>2, SameCopies
<1>6. ASSUME NEW id \in KnownLayers, AuditRemoveLayer(id) PROVE CopyInv'
  <2>1. UNCHANGED <<strokeVars, ids, drawnOn, chosen, finalised>>
    BY <1>6 DEF AuditRemoveLayer, DropLayer
  <2>. QED
    BY <1>5, <1>6, <2>1, RemoveLayerCommits
<1>7. ASSUME NEW id \in KnownLayers, NEW index \in 1..Len(layers) + 1, AuditMoveLayer(id, index)
      PROVE  CopyInv'
  <2>1. UNCHANGED <<strokeVars, ids, drawnOn, chosen, finalised>>
    BY <1>7 DEF AuditMoveLayer, ReorderLayer
  <2>. QED
    BY <1>1, <1>5, <1>7, <2>1, MoveLayerCommits
<1>8. CASE (Undo \/ Redo) /\ UNCHANGED audit
  <2>1. EveryStroke' \subseteq EveryStroke /\ EveryProps' \subseteq EveryProps
    BY <1>1, <1>8, UndoCopies, RedoCopies
  <2>2. UNCHANGED <<strokeVars, ids, drawnOn, chosen, finalised>>
    BY <1>8 DEF Undo, Redo, audit
  <2>3. NoNewCopy
    BY <2>1, <2>2 DEF NoNewCopy
  <2>. QED
    BY <1>2, <2>3, SameCopies
<1>9. CASE \/ \E id \in KnownStrokes : CancelStroke(id) /\ UNCHANGED audit
           \/ \E id \in KnownLayers : SetActiveLayer(id) /\ UNCHANGED audit
           \/ UNCHANGED auditVars
  BY <1>3, <1>9 DEF CancelStroke, SetActiveLayer, audit, auditVars, vars, docVars, history, ids, strokeVars
<1>10. ASSUME NEW id \in KnownStrokes, NEW u \in UpdateIndexes, AuditReviseSample(id, u) PROVE CopyInv'
  <2>1. CASE RevisesActive(id, u) /\ active' = Revise(active, u) /\ UNCHANGED layers
    BY <1>2, <1>10, <2>1, ReviseActiveCopies
  <2>2. CASE RevisableLayers(layers, id, u) # {} /\ layers' = ReviseLayers(layers, id, u) /\ UNCHANGED active
    BY <1>2, <1>10, <2>2, ReviseCommittedCopies
  <2>. QED
    BY <1>10, <2>1, <2>2 DEF AuditReviseSample, ReviseSample
<1>. QED
  BY <1>2, <1>4, <1>6, <1>7, <1>8, <1>9, <1>10, AddLayerCopies, BeginStrokeCopies, AddSampleCopies,
     SetLayerPropsCopies DEF AuditNext

LEMMA InitCopyInv == AuditInit => CopyInv
<1> SUFFICES ASSUME AuditInit PROVE CopyInv
  OBVIOUS
<1>1. VersionsInv
  BY InitVersionsInv
<1>2. /\ layers = <<NewLayer(1)>> /\ past = << >> /\ future = << >> /\ active = NoStroke
      /\ nextStrokeId = 1 /\ nextLayerId = 2
      /\ drawnOn = << >> /\ finalised = << >> /\ chosen = <<DefaultProps>>
  BY DEF AuditInit, Init
<1>3. /\ ToSet(<<NewLayer(1)>>) = {NewLayer(1)}
      /\ ToSet(<< >>) = {} /\ NewLayer(1).strokes = << >>
      /\ NewLayer(1).id = 1 /\ NewLayer(1).props = DefaultProps
  BY DEF ToSet, NewLayer
<1>4. DocStrokes(layers) = {} /\ DocProps(layers) = {<<1, DefaultProps>>}
  BY <1>2, <1>3 DEF DocStrokes, DocProps, StrokesOn
<1>5. EveryStroke = {} /\ EveryProps = {<<1, DefaultProps>>}
  BY <1>2, <1>4, StackEmpty DEF EveryStroke, EveryProps
<1>6. /\ drawnOn \in Seq(LayerId) /\ Len(drawnOn) = nextStrokeId - 1
      /\ finalised \in Seq(Nat) /\ Len(finalised) = nextStrokeId - 1
      /\ chosen \in Seq(LayerProps) /\ Len(chosen) = nextLayerId - 1 /\ chosen[1] = DefaultProps
  BY <1>2, DefaultPropsAssumption
<1>7. \A l \in EveryProps : l[1] \in 1..Len(chosen) /\ l[2] = chosen[l[1]]
  <2>1. Len(chosen) = 1
    BY <1>2
  <2>2. \A l \in EveryProps : l[1] = 1 /\ l[2] = DefaultProps
    BY <1>5
  <2>3. 1 \in 1..Len(chosen)
    BY <2>1
  <2>4. \A l \in EveryProps : l[2] = chosen[l[1]]
    BY <1>6, <2>2, Zenon
  <2>. QED
    BY <2>2, <2>3, <2>4, Zenon
<1>. QED
  BY <1>1, <1>2, <1>5, <1>6, <1>7 DEF CopyInv, HasActiveStroke

(***************************************************************************)
(* FlattenSeq, which puts the strokes of a version 1 file on one layer. It *)
(* is defined by recursion: what it does follows by looking at the first   *)
(* place where it would not.                                               *)
(***************************************************************************)
ConcatTo(seqs, m, f) ==
    f = [i \in 1..m |-> IF i = 1 THEN seqs[i] ELSE f[i - 1] \o seqs[i]]

LEMMA ConcatExists ==
    ASSUME NEW seqs, NEW n \in Nat \ {0}
    PROVE  \E f : ConcatTo(seqs, n, f)
<1> DEFINE T == {m \in 1..n : ~ \E f : ConcatTo(seqs, m, f)}
           m == Min(T)
<1>1. SUFFICES ASSUME T # {} PROVE FALSE
  OBVIOUS
<1>2. m \in T /\ \A y \in T : m <= y
  BY <1>1, MinOfNat
<1>m. m \in 1..n /\ ~ \E f : ConcatTo(seqs, m, f)
  BY <1>2
<1>t. \A y \in 1..n : y < m => \E f : ConcatTo(seqs, y, f)
  BY <1>2
<1> HIDE DEF m, T
<1>3. CASE m = 1
  <2> DEFINE f == [i \in 1..1 |-> seqs[1]]
  <2>1. f = [i \in 1..1 |-> IF i = 1 THEN seqs[i] ELSE f[i - 1] \o seqs[i]]
    OBVIOUS
  <2>2. ConcatTo(seqs, m, f)
    BY <1>3, <2>1 DEF ConcatTo
  <2>. QED
    BY <1>m, <2>2
<1>4. CASE m # 1
  <2>1. m - 1 \in 1..n /\ m - 1 < m /\ m \in Nat
    BY <1>m, <1>4
  <2>2. PICK g : ConcatTo(seqs, m - 1, g)
    BY <1>t, <2>1
  <2> DEFINE f == [i \in 1..m |-> IF i = m THEN g[m - 1] \o seqs[m] ELSE g[i]]
             h == [i \in 1..m |-> IF i = 1 THEN seqs[i] ELSE f[i - 1] \o seqs[i]]
  <2>3. g = [i \in 1..m - 1 |-> IF i = 1 THEN seqs[i] ELSE g[i - 1] \o seqs[i]]
    BY <2>2, Zenon DEF ConcatTo
  <2>4. ASSUME NEW i \in 1..m PROVE f[i] = h[i]
    <3>1. CASE i = m
      <4>1. m - 1 \in 1..m /\ m - 1 # m /\ i # 1
        BY <1>4, <2>1, <3>1
      <4>2. f[i] = g[m - 1] \o seqs[m] /\ f[m - 1] = g[m - 1]
        BY <3>1, <4>1
      <4>. QED
        BY <3>1, <4>1, <4>2
    <3>2. CASE i = 1
      <4>1. i \in 1..m - 1 /\ i # m
        BY <1>4, <2>1, <3>2
      <4>2. f[i] = g[i] /\ g[i] = seqs[i]
        BY <2>3, <3>2, <4>1
      <4>. QED
        BY <3>2, <4>2
    <3>3. CASE i # m /\ i # 1
      <4>1. i \in 1..m - 1 /\ i - 1 \in 1..m /\ i - 1 # m
        BY <2>1, <3>3
      <4>2. g[i] = g[i - 1] \o seqs[i]
        BY <2>3, <3>3, <4>1
      <4>3. f[i] = g[i] /\ f[i - 1] = g[i - 1]
        BY <3>3, <4>1
      <4>. QED
        BY <3>3, <4>2, <4>3
    <3>. QED
      BY <3>1, <3>2, <3>3
  <2>5. f = h
    BY <2>4
  <2>6. ConcatTo(seqs, m, f)
    BY <2>5, Zenon DEF ConcatTo
  <2>. QED
    BY <1>m, <2>6
<1>. QED
  BY <1>3, <1>4

LEMMA ConcatSet ==
    ASSUME NEW S, NEW s \in Seq(S), NEW t \in Seq(S)
    PROVE  s \o t \in Seq(S) /\ ToSet(s \o t) = ToSet(s) \cup ToSet(t)
<1> DEFINE n == Len(s)
           m == Len(t)
           new == s \o t
<1>1. /\ new \in Seq(S) /\ Len(new) = n + m /\ n \in Nat /\ m \in Nat
      /\ \A i \in 1..n + m : new[i] = IF i <= n THEN s[i] ELSE t[i - n]
  BY ConcatProperties, LenProperties
<1>2. /\ \A x : x \in ToSet(s) <=> \E i \in 1..n : x = s[i]
      /\ \A x : x \in ToSet(t) <=> \E i \in 1..m : x = t[i]
  BY SetIs
<1> HIDE DEF new
<1>3. \A x : x \in ToSet(new) <=> \E i \in 1..Len(new) : x = new[i]
  BY <1>1, SetIs
<1> HIDE DEF n, m
<1>4. ASSUME NEW x \in ToSet(new) PROVE x \in ToSet(s) \cup ToSet(t)
  <2>1. PICK i \in 1..n + m : x = new[i]
    BY <1>1, <1>3
  <2>2. i \in 1..n \/ (i - n \in 1..m /\ ~(i <= n))
    BY <1>1
  <2>. QED
    BY <1>1, <1>2, <2>1, <2>2
<1>5. ASSUME NEW x \in ToSet(s) PROVE x \in ToSet(new)
  <2>1. PICK i \in 1..n : x = s[i]
    BY <1>2
  <2>2. i \in 1..n + m /\ i <= n
    BY <1>1
  <2>. QED
    BY <1>1, <1>3, <2>1, <2>2
<1>6. ASSUME NEW x \in ToSet(t) PROVE x \in ToSet(new)
  <2>1. PICK i \in 1..m : x = t[i]
    BY <1>2
  <2>2. n + i \in 1..n + m /\ ~(n + i <= n) /\ n + i - n = i
    BY <1>1
  <2>3. new[n + i] = t[i]
    BY <1>1, <2>2
  <2>. QED
    BY <1>1, <1>3, <2>1, <2>2, <2>3
<1>. QED
  BY <1>1, <1>4, <1>5, <1>6 DEF new

LEMMA UnionSplit ==
    ASSUME NEW seqs, NEW A, NEW B, NEW b, B = A \cup {b}
    PROVE  UNION {ToSet(seqs[p]) : p \in B} = (UNION {ToSet(seqs[p]) : p \in A}) \cup ToSet(seqs[b])
<1> DEFINE F(p) == ToSet(seqs[p])
<1> HIDE DEF F
<1>2. \A x : x \in UNION {F(p) : p \in B} <=> \E p \in B : x \in F(p)
  BY Zenon
<1>3. \A x : x \in UNION {F(p) : p \in A} <=> \E p \in A : x \in F(p)
  BY Zenon
<1>1. UNION {F(p) : p \in B} = (UNION {F(p) : p \in A}) \cup F(b)
  BY <1>2, <1>3
<1>. QED
  BY <1>1 DEF F

Collects(seqs, f, S, k) ==
    f[k] \in Seq(S) /\ ToSet(f[k]) = UNION {ToSet(seqs[p]) : p \in 1..k}

LEMMA ConcatCollects ==
    ASSUME NEW S, NEW seqs \in Seq(Seq(S)), NEW f, ConcatTo(seqs, Len(seqs), f)
    PROVE  \A k \in 1..Len(seqs) : Collects(seqs, f, S, k)
<1> DEFINE n == Len(seqs)
           Right(j) == Collects(seqs, f, S, j)
           T == {j \in 1..n : ~Right(j)}
           m == Min(T)
<1>1. SUFFICES ASSUME T # {} PROVE FALSE
  OBVIOUS
<1>n. n \in Nat /\ \A p \in 1..n : seqs[p] \in Seq(S)
  BY LenProperties, ElementOfSeq
<1> HIDE DEF Right, n
<1>s. T \subseteq Nat
  BY <1>n
<1>2. m \in T /\ \A y \in T : m <= y
  BY <1>1, <1>s, MinOfNat
<1> HIDE DEF m
<1>m. m \in 1..n /\ ~Right(m)
  BY <1>2
<1>t. \A y \in 1..n : y < m => Right(y)
  <2>1. SUFFICES ASSUME NEW y \in 1..n, y < m, ~Right(y) PROVE FALSE
    OBVIOUS
  <2>2. y \in T
    BY <2>1
  <2>3. m <= y /\ m \in Nat /\ y \in Nat
    BY <1>2, <1>s, <2>2
  <2> HIDE DEF T
  <2>. QED
    BY <2>1, <2>3
<1>3. \A i \in 1..n : f[i] = IF i = 1 THEN seqs[i] ELSE f[i - 1] \o seqs[i]
  <2>1. f = [i \in 1..n |-> IF i = 1 THEN seqs[i] ELSE f[i - 1] \o seqs[i]]
    BY Zenon DEF ConcatTo, n
  <2>. QED
    BY <2>1
<1> HIDE DEF T
<1>4. CASE m = 1
  <2>1. f[m] = seqs[1] /\ 1 \in 1..n
    BY <1>3, <1>4, <1>m
  <2>2. 1..m = {1}
    BY <1>4
  <2>3. UNION {ToSet(seqs[p]) : p \in 1..m} = ToSet(seqs[1])
    BY <2>2
  <2>. QED
    BY <1>4, <1>m, <1>n, <2>1, <2>3 DEF Right, Collects
<1>5. CASE m # 1
  <2>1. m - 1 \in 1..n /\ m - 1 < m /\ m \in Nat
    BY <1>m, <1>n, <1>5
  <2>2. Right(m - 1)
    BY <1>t, <2>1
  <2>3. f[m] = f[m - 1] \o seqs[m]
    BY <1>3, <1>m, <1>5
  <2>4. f[m] \in Seq(S) /\ ToSet(f[m]) = ToSet(f[m - 1]) \cup ToSet(seqs[m])
    BY <1>m, <1>n, <2>2, <2>3, ConcatSet DEF Right, Collects
  <2>5. 1..m = 1..(m - 1) \cup {m}
    BY <2>1
  <2>6. UNION {ToSet(seqs[p]) : p \in 1..m} =
          (UNION {ToSet(seqs[p]) : p \in 1..(m - 1)}) \cup ToSet(seqs[m])
    <3> DEFINE A == 1..(m - 1)
               B == 1..m
    <3>1. B = A \cup {m}
      BY <2>5
    <3> HIDE DEF A, B
    <3>2. UNION {ToSet(seqs[p]) : p \in B} = (UNION {ToSet(seqs[p]) : p \in A}) \cup ToSet(seqs[m])
      BY <3>1, UnionSplit
    <3>. QED
      BY <3>2 DEF A, B
  <2>. QED
    BY <1>m, <2>2, <2>4, <2>6 DEF Right, Collects
<1>. QED
  BY <1>4, <1>5

LEMMA FlattenedSet ==
    ASSUME NEW S, NEW seqs \in Seq(Seq(S)), seqs # << >>
    PROVE  /\ FlattenSeq(seqs) \in Seq(S)
           /\ ToSet(FlattenSeq(seqs)) = UNION {ToSet(seqs[p]) : p \in 1..Len(seqs)}
<1> DEFINE n == Len(seqs)
           f == CHOOSE g : ConcatTo(seqs, n, g)
<1>1. n \in Nat \ {0}
  BY LenProperties, EmptySeq
<1>2. ConcatTo(seqs, n, f)
  BY <1>1, ConcatExists, Zenon
<1>3. FlattenSeq(seqs) = f[n]
  BY <1>1, Zenon DEF FlattenSeq, ConcatTo
<1>4. n \in 1..n
  BY <1>1
<1> HIDE DEF f
<1>5. f[n] \in Seq(S) /\ ToSet(f[n]) = UNION {ToSet(seqs[p]) : p \in 1..n}
  <2>1. Collects(seqs, f, S, n)
    BY <1>2, <1>4, ConcatCollects
  <2>. QED
    BY <2>1 DEF Collects
<1>. QED
  BY <1>3, <1>5

(***************************************************************************)
(* Saving and loading.                                                     *)
(***************************************************************************)
\* What bump_to leaves is past every id it saw.
LEMMA Bumped ==
    ASSUME NEW n \in Nat, NEW counter \in 1..n, NEW seen, \A id \in seen : id \in Nat /\ id + 1 \in 1..n
    PROVE  \A id \in seen : id < BumpTo(counter, seen)
<1> DEFINE T == {counter} \cup {id + 1 : id \in seen}
<1>1. T \subseteq 1..n /\ T # {}
  OBVIOUS
<1>2. Max(T) \in 1..n /\ \A y \in T : y <= Max(T)
  BY <1>1, MaxOfPositions
<1>3. BumpTo(counter, seen) = Max(T)
  BY DEF BumpTo
<1>4. SUFFICES ASSUME NEW id \in seen PROVE id < Max(T)
  BY <1>3
<1>5. id + 1 <= Max(T) /\ id \in Nat /\ Max(T) \in Nat
  BY <1>2
<1> HIDE DEF T
<1>. QED
  BY <1>5

LEMMA DocumentIds ==
    ASSUME HInv
    PROVE  /\ layers \in Seq(Layer) /\ layers # << >> /\ NoDuplicates(layers)
           /\ activeLayer \in Ids(layers)
           /\ Ids(layers) \subseteq KnownLayers /\ StrokeIds(layers) \subseteq KnownStrokes
           /\ nextStrokeId \in Nat \ {0} /\ nextLayerId \in Nat \ {0}
<1>1. /\ layers \in Seq(Layer) /\ NoDuplicates(layers) /\ activeLayer \in Ids(layers)
      /\ nextStrokeId \in Nat \ {0} /\ nextLayerId \in Nat \ {0}
  BY DEF HInv, IInv, TypeOK, ActiveLayerExists, Distinct, StrokeId, LayerId
<1>2. layers # << >>
  BY <1>1 DEF Ids
<1>3. Ids(layers) \subseteq KnownLayers
  <2>1. SUFFICES ASSUME NEW k \in Ids(layers) PROVE k \in KnownLayers
    OBVIOUS
  <2>2. <<k, 0>> \in Contents(layers)
    BY <1>1, LayerOf
  <2>. QED
    BY <2>2, ContentsMinted
<1>4. ASSUME NEW s \in StrokeIds(layers) PROVE s \in KnownStrokes
  <2>1. PICK p \in DOMAIN layers : s \in Ids(layers[p].strokes)
    BY <1>4 DEF StrokeIds
  <2>2. p \in 1..Len(layers)
    BY <1>1, <2>1, LenProperties
  <2>3. layers[p] \in ToSet(layers) /\ layers[p] \in Layer
    BY <1>1, <2>2, SetMember, LayerAt
  <2>4. s \in StrokeId /\ s # 0
    BY <2>1, <2>3, StrokeIdsTyped DEF StrokeId
  <2>5. <<layers[p].id, s>> \in Contents(layers)
    BY <1>1, <2>1, <2>3, <2>4, StrokeOf
  <2>. QED
    BY <2>4, <2>5, ContentsMinted
<1>. QED
  BY <1>1, <1>2, <1>3, <1>4

\* Whatever strokes a version 1 file gets, they are those of the layers.
LEMMA FlatStrokes ==
    ASSUME HInv
    PROVE  AllStrokes \in Seq(Stroke) /\ Ids(AllStrokes) = StrokeIds(layers)
<1> DEFINE seqs == [p \in DOMAIN layers |-> layers[p].strokes]
           flat == FlattenSeq(seqs)
<1>1. layers \in Seq(Layer) /\ layers # << >>
  BY DocumentIds
<1>2. DOMAIN layers = 1..Len(layers) /\ Len(layers) \in Nat /\ 1 \in 1..Len(layers)
  BY <1>1, LenProperties, EmptySeq
<1>3. \A p \in 1..Len(layers) : seqs[p] = layers[p].strokes /\ layers[p].strokes \in Seq(Stroke)
  BY <1>1, <1>2, LayerAt
<1>4. seqs \in [1..Len(layers) -> Seq(Stroke)]
  BY <1>2, <1>3
<1> HIDE DEF seqs
<1>5. seqs \in Seq(Seq(Stroke)) /\ Len(seqs) = Len(layers)
  BY <1>2, <1>4, FunctionIsSeq
<1>6. seqs # << >>
  BY <1>2, <1>5
<1>7. flat \in Seq(Stroke) /\ ToSet(flat) = UNION {ToSet(seqs[p]) : p \in 1..Len(layers)}
  BY <1>5, <1>6, FlattenedSet
<1>8. AllStrokes = flat
  BY DEF AllStrokes, seqs
<1> HIDE DEF flat
<1>9. \A x : x \in Ids(flat) <=> \E s \in ToSet(flat) : x = s.id
  <2>1. Ids(flat) = {s.id : s \in ToSet(flat)}
    BY <1>7, SetMember
  <2>. QED
    BY <2>1
<1>10. \A x : x \in StrokeIds(layers) <=> \E p \in 1..Len(layers) : x \in Ids(layers[p].strokes)
  BY <1>2 DEF StrokeIds
<1>11. \A p \in 1..Len(layers) : Ids(layers[p].strokes) = {s.id : s \in ToSet(layers[p].strokes)}
  BY <1>3, SetMember
<1>12. \A s : s \in ToSet(flat) <=> \E p \in 1..Len(layers) : s \in ToSet(layers[p].strokes)
  <2>1. \A s : s \in ToSet(flat) <=> \E p \in 1..Len(layers) : s \in ToSet(seqs[p])
    BY <1>7
  <2>. QED
    BY <1>3, <2>1
<1>13. \A p \in 1..Len(layers) : \A x :
         x \in Ids(layers[p].strokes) <=> \E s \in ToSet(layers[p].strokes) : x = s.id
  BY <1>11
<1>14. Ids(flat) = StrokeIds(layers)
  <2>1. ASSUME NEW x \in Ids(flat) PROVE x \in StrokeIds(layers)
    <3>1. PICK s \in ToSet(flat) : x = s.id
      BY <1>9, <2>1
    <3>2. PICK p \in 1..Len(layers) : s \in ToSet(layers[p].strokes)
      BY <1>12, <3>1
    <3>3. x \in Ids(layers[p].strokes)
      BY <1>13, <3>1, <3>2
    <3>. QED
      BY <1>10, <3>3
  <2>2. ASSUME NEW x \in StrokeIds(layers) PROVE x \in Ids(flat)
    <3>1. PICK p \in 1..Len(layers) : x \in Ids(layers[p].strokes)
      BY <1>10, <2>2
    <3>2. PICK s \in ToSet(layers[p].strokes) : x = s.id
      BY <1>13, <3>1
    <3>3. s \in ToSet(flat)
      BY <1>12, <3>2
    <3>. QED
      BY <1>9, <3>2, <3>3
  <2>. QED
    BY <2>1, <2>2
<1>. QED
  BY <1>7, <1>8, <1>14

\* What Load makes of a file, by name.
Loaded(file, next) ==
    IF file.layers = << >> THEN <<[NewLayer(next.layer) EXCEPT !.strokes = file.strokes]>>
                           ELSE file.layers

LEMMA LoadIs ==
    ASSUME NEW file, NEW next
    PROVE  /\ Load(file, next).layers = Loaded(file, next)
           /\ Load(file, next).activeLayer =
                IF file.activeLayer \in Ids(Loaded(file, next)) THEN file.activeLayer
                                                                ELSE Loaded(file, next)[1].id
           /\ Load(file, next).nextStrokeId = BumpTo(next.stroke, StrokeIds(Loaded(file, next)))
           /\ Load(file, next).nextLayerId = BumpTo(next.layer, Ids(Loaded(file, next)))
BY DEF Load, Loaded

LEMMA FileIs ==
    ASSUME NEW file \in Files, layers # << >>
    PROVE  file.layers = layers \/ (file.layers = << >> /\ file.strokes = AllStrokes)
BY DEF Files, Save, File

LEMMA ProcessIs ==
    ASSUME HInv, NEW next \in Processes
    PROVE  next.stroke \in 1..nextStrokeId /\ next.layer \in 1..nextLayerId
<1>1. nextStrokeId \in Nat \ {0} /\ nextLayerId \in Nat \ {0}
  BY DocumentIds
<1>. QED
  BY <1>1 DEF Processes

\* Both wire shapes load to a document with unique layers and the strokes saved.
LEMMA LoadedDocument ==
    ASSUME HInv, NEW file \in Files, NEW next \in Processes
    PROVE  /\ NoDuplicates(Loaded(file, next))
           /\ Loaded(file, next)[1].id \in Ids(Loaded(file, next))
           /\ Ids(Loaded(file, next)) \subseteq 1..nextLayerId
           /\ StrokeIds(Loaded(file, next)) = StrokeIds(layers)
<1>1. /\ layers \in Seq(Layer) /\ layers # << >> /\ NoDuplicates(layers)
      /\ Ids(layers) \subseteq KnownLayers /\ nextLayerId \in Nat \ {0}
  BY DocumentIds
<1>2. next.layer \in 1..nextLayerId
  BY ProcessIs
<1>3. CASE file.layers = layers
  <2>1. Loaded(file, next) = layers
    BY <1>1, <1>3 DEF Loaded
  <2>2. 1 \in DOMAIN layers
    BY <1>1, LenProperties, EmptySeq
  <2>3. layers[1].id \in Ids(layers)
    BY <2>2 DEF Ids
  <2>4. KnownLayers \subseteq 1..nextLayerId
    BY <1>1 DEF KnownLayers
  <2>. QED
    BY <1>1, <2>1, <2>3, <2>4
<1>4. CASE file.layers = << >> /\ file.strokes = AllStrokes
  <2> DEFINE l == [NewLayer(next.layer) EXCEPT !.strokes = file.strokes]
  <2>1. Loaded(file, next) = <<l>> /\ l.id = next.layer /\ l.strokes = AllStrokes
    BY <1>4 DEF Loaded, NewLayer
  <2> HIDE DEF l
  <2>2. DOMAIN <<l>> = {1} /\ <<l>>[1] = l
    OBVIOUS
  <2>3. NoDuplicates(<<l>>)
    BY <2>2, Zenon DEF NoDuplicates
  <2>4. Ids(<<l>>) = {l.id}
    BY <2>2 DEF Ids
  <2>5. StrokeIds(<<l>>) = Ids(l.strokes)
    BY <2>2 DEF StrokeIds
  <2>. QED
    BY <1>2, <2>1, <2>2, <2>3, <2>4, <2>5, FlatStrokes
<1>. QED
  BY <1>1, <1>3, <1>4, FileIs

LEMMA LoadFresh ==
    ASSUME HInv, NEW file \in Files, NEW next \in Processes
    PROVE  /\ \A id \in Ids(Loaded(file, next)) : id < Load(file, next).nextLayerId
           /\ \A id \in StrokeIds(Loaded(file, next)) : id < Load(file, next).nextStrokeId
<1> DEFINE ls == Loaded(file, next)
<1>1. /\ nextStrokeId \in Nat \ {0} /\ nextLayerId \in Nat \ {0}
      /\ StrokeIds(layers) \subseteq KnownStrokes
  BY DocumentIds
<1>2. next.stroke \in 1..nextStrokeId /\ next.layer \in 1..nextLayerId
  BY ProcessIs
<1>3. Ids(ls) \subseteq 1..nextLayerId /\ StrokeIds(ls) = StrokeIds(layers)
  BY LoadedDocument
<1>4. /\ Load(file, next).nextStrokeId = BumpTo(next.stroke, StrokeIds(ls))
      /\ Load(file, next).nextLayerId = BumpTo(next.layer, Ids(ls))
  BY LoadIs
<1> HIDE DEF ls
<1>5. /\ nextLayerId + 1 \in Nat /\ next.layer \in 1..nextLayerId + 1
      /\ \A id \in Ids(ls) : id \in Nat /\ id + 1 \in 1..nextLayerId + 1
  BY <1>1, <1>2, <1>3
<1>6. \A id \in Ids(ls) : id < BumpTo(next.layer, Ids(ls))
  BY <1>5, Bumped
<1>7. /\ nextStrokeId \in Nat /\ next.stroke \in 1..nextStrokeId
      /\ \A id \in StrokeIds(ls) : id \in Nat /\ id + 1 \in 1..nextStrokeId
  BY <1>1, <1>2, <1>3 DEF KnownStrokes
<1>8. \A id \in StrokeIds(ls) : id < BumpTo(next.stroke, StrokeIds(ls))
  BY <1>7, Bumped
<1>. QED
  BY <1>4, <1>6, <1>8 DEF ls

(***************************************************************************)
(* The theorems.                                                           *)
(***************************************************************************)
\* The copies the properties range over are among those of the invariant.
LEMMA CopiesCounted ==
    /\ StrokeCopies \subseteq EveryStroke
    /\ \A l \in LayerCopies : <<l.id, l.props>> \in EveryProps
<1>1. \A f : Range(f) = ToSet(f)
  BY Zenon DEF Range, ToSet
<1>2. \A e \in Entries : EntryStrokes(e) \subseteq EveryStroke /\ EntryProps(e) \subseteq EveryProps
  BY <1>1 DEF Entries, EveryStroke, EveryProps, StackStrokes, StackProps
<1>3. \A l \in LayerCopies : StrokesOn(l) \subseteq EveryStroke /\ <<l.id, l.props>> \in EveryProps
  <2>1. SUFFICES ASSUME NEW l \in LayerCopies
                 PROVE  StrokesOn(l) \subseteq EveryStroke /\ <<l.id, l.props>> \in EveryProps
    OBVIOUS
  <2>2. CASE l \in ToSet(layers)
    BY <2>2 DEF EveryStroke, EveryProps, DocStrokes, DocProps
  <2>3. CASE \E e \in Entries : e.op = "AddLayer" /\ l = e.layer
    <3>1. PICK e \in Entries : e.op = "AddLayer" /\ l = e.layer
      BY <2>3
    <3>2. EntryStrokes(e) = StrokesOn(l) /\ EntryProps(e) = {<<l.id, l.props>>}
      BY <3>1 DEF EntryStrokes, EntryProps
    <3>. QED
      BY <1>2, <3>2
  <2>. QED
    BY <1>1, <2>2, <2>3 DEF LayerCopies
<1>4. ASSUME NEW c \in StrokeCopies PROVE c \in EveryStroke
  <2>1. CASE \E l \in LayerCopies : c \in StrokesOn(l)
    BY <1>3, <2>1
  <2>2. CASE \E e \in Entries : e.op = "AddStroke" /\ c = <<e.stroke, e.layer>>
    <3>1. PICK e \in Entries : e.op = "AddStroke" /\ c = <<e.stroke, e.layer>>
      BY <2>2
    <3>2. EntryStrokes(e) = {c}
      BY <3>1 DEF EntryStrokes
    <3>. QED
      BY <1>2, <3>2
  <2>3. \A l : {<<s, l.id>> : s \in Range(l.strokes)} = StrokesOn(l)
    BY <1>1 DEF StrokesOn
  <2>4. c \in (UNION {StrokesOn(l) : l \in LayerCopies})
               \cup {<<e.stroke, e.layer>> : e \in {f \in Entries : f.op = "AddStroke"}}
    BY <1>4, <2>3 DEF StrokeCopies
  <2>. QED
    BY <2>1, <2>2, <2>4
<1>. QED
  BY <1>3, <1>4

\* The invariant that carries the properties of the copies: the undo line, a
\* stroke in consecutive versions only, and every copy in the document and in
\* the payloads as the history variables say, whatever commands come.
THEOREM CopiesInvariant == AuditSpec => []CopyInv
BY InitCopyInv, NextCopyInv, PTL DEF AuditSpec

\* Every copy of a stroke, in the document or in an undo payload, is on the
\* layer that was active when the stroke began (StrokesStayOnTheirLayer), for
\* every number of strokes, layers and edits.
THEOREM StrokesKeepTheirLayer == AuditSpec => []StrokesStayOnTheirLayer
<1>1. CopyInv => StrokesStayOnTheirLayer
  BY CopiesCounted DEF CopyInv, Kept, StrokesStayOnTheirLayer
<1>. QED
  BY <1>1, CopiesInvariant, PTL

\* Every copy of a stroke has as many revised samples as revisions of it were
\* accepted (RevisionsSurviveUndo): none is lost to an undo, to a redo, or to
\* a layer that is removed and restored.
THEOREM RevisionsAreNeverLost == AuditSpec => []RevisionsSurviveUndo
<1>1. ASSUME CopyInv, NEW c \in StrokeCopies
      PROVE  Cardinality({i \in DOMAIN c[1].samples : c[1].samples[i].revised}) = finalised[c[1].id]
  BY <1>1, CopiesCounted DEF CopyInv, Kept, RevisedIn
<1>2. CopyInv => RevisionsSurviveUndo
  BY <1>1, Zenon DEF RevisionsSurviveUndo
<1>. QED
  BY <1>2, CopiesInvariant, PTL

\* Every copy of a layer has the attributes last set on it (PropsSurviveUndo):
\* restoring a removed layer never brings older ones back.
THEOREM PropsAreNeverLost == AuditSpec => []PropsSurviveUndo
<1>1. CopyInv => PropsSurviveUndo
  BY CopiesCounted DEF CopyInv, PropsSurviveUndo
<1>. QED
  BY <1>1, CopiesInvariant, PTL

\* A document the engine reaches is what saving and loading it gives back, in
\* this process or in a new one (ReloadKeepsDocument).
THEOREM ReloadGivesTheDocument == AuditSpec => []ReloadKeepsDocument
<1>1. ASSUME HInv, NEW next PROVE Load(Save, next).layers = layers /\ Load(Save, next).activeLayer = activeLayer
  <2>1. layers # << >> /\ activeLayer \in Ids(layers)
    BY <1>1, DocumentIds
  <2>2. Save.layers = layers /\ Save.activeLayer = activeLayer
    BY DEF Save, File
  <2>. QED
    BY <2>1, <2>2 DEF Load
<1>2. HInv => ReloadKeepsDocument
  BY <1>1 DEF ReloadKeepsDocument
<1>3. CopyInv => HInv
  BY DEF CopyInv, VersionsInv, LineInv
<1>. QED
  BY <1>2, <1>3, CopiesInvariant, PTL

\* Whatever file of the document is loaded, of either wire shape, the layers
\* are unique, the active layer exists and the counters are past every id
\* that was loaded (LoadedIdsAreFresh).
THEOREM LoadedIdsStayFresh == AuditSpec => []LoadedIdsAreFresh
<1>1. ASSUME HInv, NEW file \in Files, NEW next \in Processes
      PROVE  LET doc == Load(file, next)
             IN  /\ NoDuplicates(doc.layers)
                 /\ doc.activeLayer \in Ids(doc.layers)
                 /\ \A id \in Ids(doc.layers) : id < doc.nextLayerId
                 /\ \A id \in StrokeIds(doc.layers) : id < doc.nextStrokeId
                 /\ StrokeIds(doc.layers) = StrokeIds(layers)
  <2>1. Load(file, next).layers = Loaded(file, next)
    BY LoadIs
  <2>2. Load(file, next).activeLayer \in Ids(Loaded(file, next))
    BY <1>1, LoadIs, LoadedDocument
  <2>. QED
    BY <1>1, <2>1, <2>2, LoadedDocument, LoadFresh
<1>2. HInv => LoadedIdsAreFresh
  BY <1>1, Zenon DEF LoadedIdsAreFresh
<1>3. CopyInv => HInv
  BY DEF CopyInv, VersionsInv, LineInv
<1>. QED
  BY <1>2, <1>3, CopiesInvariant, PTL

=============================================================================
