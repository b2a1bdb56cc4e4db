---------------------------- MODULE TabletProofs -----------------------------
(***************************************************************************)
(* The adapter on every platform but macOS keeps its gestures whole: for   *)
(* any devices, contacts and events, every pointer has one Down, then      *)
(* Moves of the same tool, then at most one end, and whatever holds a      *)
(* pointer, the flag that silences the mouse included, holds one that is   *)
(* still open.                                                             *)
(*                                                                         *)
(* A device and a contact are both a slot, which holds a pen: the proofs   *)
(* about gestures are of what an event may do to a slot and to the queue   *)
(* (SlotInv), those of the handlers say which of these they do, and those  *)
(* of the platforms what each backend makes of its events.                 *)
(***************************************************************************)
EXTENDS Tablets, SequenceTheorems, TLAPS

Phases   == {"Down", "Move", "Up", "Cancel", "Hover", "Revise", "PencilInteraction"}
Readings == 0 .. 1 \cup [{"position", "pressure"} -> 0 .. 1]

Event == [phase : Phases, pointer : Int, tool : Tool \cup {"none"}, reading : Readings, update : Nat]

SamplesIn(q, p) == {i \in DOMAIN q : q[i].pointer = p /\ q[i].phase # "Revise"}

\* GesturesAreWhole, of one pointer.
Whole(q, p) ==
    \A i \in SamplesIn(q, p) :
        /\ \A j \in SamplesIn(q, p) : q[i].tool = q[j].tool
        /\ (q[i].phase = "Down" <=> \A j \in SamplesIn(q, p) : i <= j)
        /\ q[i].phase \in Ends => \A j \in SamplesIn(q, p) : j <= i

Begun(q, p) == SamplesIn(q, p) # {}

\* The gesture of a pen is not over, and has its tool.
Open(q, pen) ==
    \A i \in SamplesIn(q, pen.pointer) : q[i].tool = pen.tool /\ q[i].phase \notin Ends

(***************************************************************************)
(* What an event at the end of the queue changes.                          *)
(***************************************************************************)
LEMMA QueueIs ==
    ASSUME NEW q \in Seq(Event), NEW e \in Event
    PROVE  /\ Append(q, e) \in Seq(Event)
           /\ DOMAIN q = 1 .. Len(q) /\ Len(q) \in Nat
           /\ DOMAIN Append(q, e) = 1 .. Len(q) + 1
           /\ \A i \in 1 .. Len(q) : Append(q, e)[i] = q[i]
           /\ Append(q, e)[Len(q) + 1] = e
OBVIOUS

LEMMA OthersStay ==
    ASSUME NEW q \in Seq(Event), NEW e \in Event, NEW p, e.pointer # p \/ e.phase = "Revise"
    PROVE  /\ SamplesIn(Append(q, e), p) = SamplesIn(q, p)
           /\ \A i \in SamplesIn(q, p) : Append(q, e)[i] = q[i]
<1> DEFINE n == Len(q)
           r == Append(q, e)
<1>1. /\ DOMAIN q = 1 .. n /\ n \in Nat /\ DOMAIN r = 1 .. n + 1
      /\ \A i \in 1 .. n : r[i] = q[i]
      /\ r[n + 1] = e
  BY QueueIs
<1> HIDE DEF n, r
<1>2. 1 .. n + 1 = 1 .. n \cup {n + 1}
  BY <1>1
<1>3. SamplesIn(r, p) = SamplesIn(q, p)
  BY <1>1, <1>2 DEF SamplesIn
<1>4. \A i \in SamplesIn(q, p) : r[i] = q[i]
  BY <1>1 DEF SamplesIn
<1>. QED
  BY <1>3, <1>4 DEF r

LEMMA OtherGestures ==
    ASSUME NEW q \in Seq(Event), NEW e \in Event, NEW p, e.pointer # p \/ e.phase = "Revise"
    PROVE  /\ Whole(q, p) => Whole(Append(q, e), p)
           /\ Begun(q, p) => Begun(Append(q, e), p)
           /\ \A pen : pen.pointer = p /\ Open(q, pen) => Open(Append(q, e), pen)
<1> DEFINE r == Append(q, e)
<1>1. SamplesIn(r, p) = SamplesIn(q, p) /\ \A i \in SamplesIn(q, p) : r[i] = q[i]
  BY OthersStay
<1> HIDE DEF r
<1>2. ASSUME Whole(q, p) PROVE Whole(r, p)
  <2>1. SUFFICES ASSUME NEW i \in SamplesIn(q, p)
                 PROVE  /\ \A j \in SamplesIn(q, p) : r[i].tool = r[j].tool
                        /\ (r[i].phase = "Down" <=> \A j \in SamplesIn(q, p) : i <= j)
                        /\ r[i].phase \in Ends => \A j \in SamplesIn(q, p) : j <= i
    BY <1>1 DEF Whole
  <2>2. r[i] = q[i] /\ \A j \in SamplesIn(q, p) : r[j] = q[j]
    BY <1>1
  <2>. QED
    BY <1>2, <2>2 DEF Whole
<1>3. Begun(q, p) => Begun(r, p)
  BY <1>1 DEF Begun
<1>4. \A pen : pen.pointer = p /\ Open(q, pen) => Open(r, pen)
  BY <1>1 DEF Open
<1>. QED
  BY <1>2, <1>3, <1>4 DEF r

LEMMA MineGrow ==
    ASSUME NEW q \in Seq(Event), NEW e \in Event, e.phase # "Revise"
    PROVE  /\ SamplesIn(Append(q, e), e.pointer) = SamplesIn(q, e.pointer) \cup {Len(q) + 1}
           /\ \A i \in SamplesIn(q, e.pointer) : Append(q, e)[i] = q[i] /\ i \in 1 .. Len(q)
           /\ Append(q, e)[Len(q) + 1] = e
<1> DEFINE n == Len(q)
           r == Append(q, e)
           p == e.pointer
<1>1. /\ DOMAIN q = 1 .. n /\ n \in Nat /\ DOMAIN r = 1 .. n + 1
      /\ \A i \in 1 .. n : r[i] = q[i]
      /\ r[n + 1] = e
  BY QueueIs
<1> HIDE DEF n, r
<1>2. 1 .. n + 1 = 1 .. n \cup {n + 1}
  BY <1>1
<1>3. SamplesIn(r, p) = SamplesIn(q, p) \cup {n + 1}
  BY <1>1, <1>2 DEF SamplesIn
<1>4. \A i \in SamplesIn(q, p) : r[i] = q[i] /\ i \in 1 .. n
  BY <1>1 DEF SamplesIn
<1>. QED
  BY <1>1, <1>3, <1>4 DEF r, n

\* A Down opens the gesture of a pointer that was not used.
LEMMA DownOpens ==
    ASSUME NEW q \in Seq(Event), NEW e \in Event, e.phase = "Down", ~Begun(q, e.pointer)
    PROVE  /\ Whole(Append(q, e), e.pointer)
           /\ Begun(Append(q, e), e.pointer)
           /\ Open(Append(q, e), [pointer |-> e.pointer, tool |-> e.tool])
<1> DEFINE n == Len(q) + 1
           r == Append(q, e)
           p == e.pointer
<1>1. SamplesIn(r, p) = {n} /\ r[n] = e /\ n \in Nat
  BY MineGrow, QueueIs DEF Begun
<1> HIDE DEF n, r
<1>2. Whole(r, p)
  <2>1. SUFFICES ASSUME NEW i \in SamplesIn(r, p), NEW j \in SamplesIn(r, p) PROVE i = n /\ j = n
    BY <1>1 DEF Whole, Ends
  <2>. QED
    BY <1>1
<1>3. Begun(r, p) /\ Open(r, [pointer |-> p, tool |-> e.tool])
  BY <1>1 DEF Begun, Open, Ends
<1>. QED
  BY <1>2, <1>3 DEF r

\* A later sample of an open gesture keeps it whole, and open unless it ends it.
LEMMA SampleContinues ==
    ASSUME NEW q \in Seq(Event), NEW e \in Event, e.phase \notin {"Down", "Revise"},
           NEW pen, pen.pointer = e.pointer, pen.tool = e.tool,
           Whole(q, e.pointer), Begun(q, e.pointer), Open(q, pen)
    PROVE  /\ Whole(Append(q, e), e.pointer)
           /\ Begun(Append(q, e), e.pointer)
           /\ e.phase \notin Ends => Open(Append(q, e), pen)
<1> DEFINE n == Len(q)
           r == Append(q, e)
           p == e.pointer
           A == SamplesIn(q, p)
<1>1. /\ SamplesIn(r, p) = A \cup {n + 1} /\ r[n + 1] = e /\ n \in Nat
      /\ \A i \in A : r[i] = q[i] /\ i \in 1 .. n
  BY MineGrow, QueueIs
<1>2. A # {} /\ \A i \in A : q[i].tool = e.tool /\ q[i].phase \notin Ends
  BY DEF Begun, Open
<1>3. \A i \in A : (q[i].phase = "Down" <=> \A j \in A : i <= j)
  BY DEF Whole
<1> HIDE DEF n, r, p, A
<1>4. ASSUME NEW i \in A
      PROVE  /\ r[i].tool = e.tool /\ r[i].phase \notin Ends
             /\ (r[i].phase = "Down" <=> \A j \in A \cup {n + 1} : i <= j)
  <2>1. r[i] = q[i] /\ i \in 1 .. n /\ i <= n + 1
    BY <1>1
  <2>2. (\A j \in A : i <= j) <=> (\A j \in A \cup {n + 1} : i <= j)
    BY <2>1
  <2>. QED
    BY <1>2, <1>3, <2>1, <2>2
<1>5. \A i \in A \cup {n + 1} : i <= n + 1
  BY <1>1
<1>6. r[n + 1].phase = "Down" <=> \A j \in A \cup {n + 1} : n + 1 <= j
  <2>1. PICK i \in A : TRUE
    BY <1>2
  <2>2. ~(n + 1 <= i)
    BY <1>1
  <2>. QED
    BY <1>1, <2>1, <2>2
<1>t. \A i, j \in A \cup {n + 1} : r[i].tool = r[j].tool
  <2>1. \A i \in A \cup {n + 1} : r[i].tool = e.tool
    BY <1>1, <1>4
  <2>. QED
    BY <2>1
<1>e. \A i \in A \cup {n + 1} : r[i].phase \in Ends => i = n + 1
  BY <1>4
<1>d. \A i \in A \cup {n + 1} : r[i].phase = "Down" <=> \A j \in A \cup {n + 1} : i <= j
  BY <1>4, <1>6
<1>7. Whole(r, p)
  <2> DEFINE B == A \cup {n + 1}
  <2>1. SamplesIn(r, p) = B
    BY <1>1
  <2>2. SUFFICES ASSUME NEW i \in B
                 PROVE  /\ \A j \in B : r[i].tool = r[j].tool
                        /\ (r[i].phase = "Down" <=> \A j \in B : i <= j)
                        /\ r[i].phase \in Ends => \A j \in B : j <= i
    BY <2>1, Zenon DEF Whole
  <2>. QED
    BY <1>5, <1>t, <1>e, <1>d
<1>8. Begun(r, p)
  BY <1>1 DEF Begun
<1>9. e.phase \notin Ends => Open(r, pen)
  BY <1>1, <1>4 DEF Open, p
<1>. QED
  BY <1>7, <1>8, <1>9 DEF r, p

(***************************************************************************)
(* The slots.                                                              *)
(***************************************************************************)
Pen == [pointer : Int, tool : Tool \cup {"none"}]

Slots == ({"pen"} \X Devices) \cup ({"contact"} \X Contacts)

Drawing(pen) == pen.pointer # NoPointer

\* The pen of a slot was minted; only a contact is a finger, and a contact is
\* known while it draws.
PenOK(h, pen, n) ==
    /\ pen \in Pen
    /\ Drawing(pen) => pen.pointer \in 1 .. n - 1
    /\ pen # NoPen => pen.tool \in Tool
    /\ h[1] = "pen" => pen.tool # "Finger"
    /\ h[1] = "contact" => pen = NoPen \/ Drawing(pen)

\* `q' is the queue, `s' the slots, `act' the pen that silences the mouse and
\* `n' the pointer that is minted next. A finger silences nothing.
SlotInv(q, s, act, n) ==
    /\ n \in Nat \ {0}
    /\ q \in Seq(Event) /\ \A i \in DOMAIN q : q[i].pointer < n
    /\ s \in [Slots -> Pen]
    /\ \A h \in Slots : PenOK(h, s[h], n)
    /\ \A p \in 1 .. n - 1 : Whole(q, p) /\ Begun(q, p)
    /\ \A h \in Slots : Drawing(s[h]) => Open(q, s[h])
    /\ \A h, k \in Slots : Drawing(s[h]) /\ s[h].pointer = s[k].pointer => h = k
    /\ \/ act = NoPointer
       \/ \E h \in Slots : Drawing(s[h]) /\ s[h].pointer = act /\ s[h].tool # "Finger"

\* The function f with v at x.
Put(f, x, v) == [f EXCEPT ![x] = v]

LEMMA PenGrows ==
    ASSUME NEW h, NEW pen, NEW n \in Nat \ {0}, PenOK(h, pen, n)
    PROVE  PenOK(h, pen, n + 1)
BY DEF PenOK

LEMMA NotBegun ==
    ASSUME NEW q, NEW n \in Nat \ {0}, q \in Seq(Event), \A i \in DOMAIN q : q[i].pointer < n
    PROVE  ~Begun(q, n)
BY DEF SamplesIn, Begun, Event

LEMMA QueueBound ==
    ASSUME NEW q \in Seq(Event), NEW e \in Event, NEW n \in Nat, NEW m \in Nat, n <= m,
           \A i \in DOMAIN q : q[i].pointer < n, e.pointer < m
    PROVE  Append(q, e) \in Seq(Event) /\ \A i \in DOMAIN Append(q, e) : Append(q, e)[i].pointer < m
<1> DEFINE r == Append(q, e)
<1>1. /\ r \in Seq(Event) /\ DOMAIN q = 1 .. Len(q) /\ DOMAIN r = 1 .. Len(q) + 1 /\ Len(q) \in Nat
      /\ \A i \in 1 .. Len(q) : r[i] = q[i]
      /\ r[Len(q) + 1] = e
  BY QueueIs
<1>2. \A i \in 1 .. Len(q) : q[i].pointer \in Int
  <2>1. \A i \in 1 .. Len(q) : q[i] \in Event
    BY ElementOfSeq
  <2>. QED
    BY <2>1 DEF Event
<1> HIDE DEF r
<1>3. r \in Seq(Event) /\ \A i \in DOMAIN r : r[i].pointer < m
  BY <1>1, <1>2
<1>. QED
  BY <1>3 DEF r

\* A Down takes a new pointer for its slot. If it does not silence the mouse,
\* it is a finger's, or of a slot that did not draw.
LEMMA SlotDown ==
    ASSUME NEW q, NEW s, NEW act, NEW n, SlotInv(q, s, act, n),
           NEW h \in Slots, NEW e \in Event,
           e.phase = "Down", e.pointer = n, e.tool \in Tool,
           h[1] = "pen" => e.tool # "Finger",
           NEW act2,
           \/ act2 = n /\ e.tool # "Finger"
           \/ act2 = act /\ (Drawing(s[h]) => s[h].tool = "Finger")
    PROVE  SlotInv(Append(q, e), Put(s, h, [pointer |-> n, tool |-> e.tool]), act2, n + 1)
<1> DEFINE pen == [pointer |-> n, tool |-> e.tool]
           t == Put(s, h, pen)
           r == Append(q, e)
<1>1. /\ n \in Nat \ {0} /\ q \in Seq(Event) /\ (\A i \in DOMAIN q : q[i].pointer < n)
      /\ s \in [Slots -> Pen]
      /\ \A p \in 1 .. n - 1 : Whole(q, p) /\ Begun(q, p)
  BY DEF SlotInv
<1>2. \A k \in Slots : PenOK(k, s[k], n)
  BY DEF SlotInv
<1>3. \A k \in Slots : Drawing(s[k]) => Open(q, s[k])
  BY DEF SlotInv
<1>4. \A k, l \in Slots : Drawing(s[k]) /\ s[k].pointer = s[l].pointer => k = l
  BY DEF SlotInv
<1>5. Whole(r, n) /\ Begun(r, n) /\ Open(r, pen)
  BY <1>1, NotBegun, DownOpens
<1>6. \A p \in 1 .. n - 1 : p # n
  BY <1>1
<1>7. \A p \in 1 .. n - 1 : Whole(r, p) /\ Begun(r, p)
  BY <1>1, <1>6, OtherGestures
<1>8. \A k \in Slots : Drawing(s[k]) => Open(r, s[k]) /\ s[k].pointer # n
  <2>1. SUFFICES ASSUME NEW k \in Slots, Drawing(s[k])
                 PROVE  Open(r, s[k]) /\ s[k].pointer # n
    OBVIOUS
  <2>2. s[k].pointer # n
    BY <1>2, <1>6, <2>1 DEF PenOK
  <2>. QED
    BY <1>1, <1>3, <2>1, <2>2, OtherGestures
<1>9. r \in Seq(Event) /\ \A i \in DOMAIN r : r[i].pointer < n + 1
  <2>1. n \in Nat /\ n + 1 \in Nat /\ n <= n + 1 /\ n < n + 1
    BY <1>1
  <2>. QED
    BY <1>1, <2>1, QueueBound
<1> HIDE DEF r
<1>10. /\ pen \in Pen /\ Drawing(pen) /\ pen.pointer = n /\ pen.tool = e.tool
       /\ PenOK(h, pen, n + 1)
  BY <1>1 DEF Pen, Drawing, PenOK, NoPointer
<1> HIDE DEF pen
<1>11. /\ t \in [Slots -> Pen] /\ t[h] = pen
       /\ \A k \in Slots : k # h => t[k] = s[k]
  BY <1>1, <1>10 DEF Put
<1> HIDE DEF t
<1>12. \A k \in Slots : PenOK(k, t[k], n + 1)
  BY <1>1, <1>2, <1>10, <1>11, PenGrows
<1>13. \A k \in Slots : Drawing(t[k]) => Open(r, t[k])
  BY <1>5, <1>8, <1>11
<1>14. \A k, l \in Slots : Drawing(t[k]) /\ t[k].pointer = t[l].pointer => k = l
  <2>1. SUFFICES ASSUME NEW k \in Slots, NEW l \in Slots,
                        Drawing(t[k]), t[k].pointer = t[l].pointer, k # l
                 PROVE  FALSE
    BY Zenon
  <2>2. Drawing(t[l])
    BY <2>1 DEF Drawing
  <2>. QED
    BY <1>4, <1>8, <1>10, <1>11, <2>1, <2>2
<1>15. act2 = NoPointer \/ \E k \in Slots : Drawing(t[k]) /\ t[k].pointer = act2 /\ t[k].tool # "Finger"
  <2>1. CASE act2 = n /\ e.tool # "Finger"
    BY <1>10, <1>11, <2>1
  <2>2. CASE act2 = act /\ (Drawing(s[h]) => s[h].tool = "Finger")
    <3>1. act = NoPointer \/ \E k \in Slots : Drawing(s[k]) /\ s[k].pointer = act /\ s[k].tool # "Finger"
      BY DEF SlotInv
    <3>. QED
      BY <1>11, <2>2, <3>1
  <2>. QED
    BY <2>1, <2>2
<1>16. \A p \in 1 .. n + 1 - 1 : Whole(r, p) /\ Begun(r, p)
  <2>1. \A p \in 1 .. n + 1 - 1 : p = n \/ p \in 1 .. n - 1
    BY <1>1
  <2>. QED
    BY <1>5, <1>7, <2>1
<1>17. n + 1 \in Nat \ {0}
  BY <1>1
<1>18. SlotInv(r, t, act2, n + 1)
  BY <1>9, <1>11, <1>12, <1>13, <1>14, <1>15, <1>16, <1>17 DEF SlotInv
<1>. QED
  BY <1>18 DEF r, t, pen

\* A sample of a slot that draws is one of its gesture.
LEMMA SlotMove ==
    ASSUME NEW q, NEW s, NEW act, NEW n, SlotInv(q, s, act, n),
           NEW h \in Slots, NEW e \in Event, Drawing(s[h]),
           e.phase = "Move", e.pointer = s[h].pointer, e.tool = s[h].tool
    PROVE  SlotInv(Append(q, e), s, act, n)
<1> DEFINE r == Append(q, e)
<1>1. /\ n \in Nat \ {0} /\ q \in Seq(Event) /\ (\A i \in DOMAIN q : q[i].pointer < n)
      /\ s \in [Slots -> Pen]
      /\ \A p \in 1 .. n - 1 : Whole(q, p) /\ Begun(q, p)
  BY DEF SlotInv
<1>2. \A k \in Slots : PenOK(k, s[k], n)
  BY DEF SlotInv
<1>3. \A k \in Slots : Drawing(s[k]) => Open(q, s[k])
  BY DEF SlotInv
<1>4. \A k, l \in Slots : Drawing(s[k]) /\ s[k].pointer = s[l].pointer => k = l
  BY DEF SlotInv
<1>5. e.pointer \in 1 .. n - 1 /\ e.pointer < n
  BY <1>1, <1>2 DEF PenOK
<1>6. Whole(r, e.pointer) /\ Begun(r, e.pointer) /\ Open(r, s[h])
  <2>1. e.phase \notin {"Down", "Revise"} /\ e.phase \notin Ends
    BY DEF Ends
  <2>. QED
    BY <1>1, <1>3, <1>5, <2>1, SampleContinues
<1>7. \A p \in 1 .. n - 1 : Whole(r, p) /\ Begun(r, p)
  BY <1>1, <1>6, OtherGestures
<1>8. \A k \in Slots : Drawing(s[k]) => Open(r, s[k])
  BY <1>1, <1>3, <1>4, <1>6, OtherGestures
<1>9. r \in Seq(Event) /\ \A i \in DOMAIN r : r[i].pointer < n
  BY <1>1, <1>5, QueueBound
<1> HIDE DEF r
<1>10. act = NoPointer \/ \E k \in Slots : Drawing(s[k]) /\ s[k].pointer = act /\ s[k].tool # "Finger"
  BY DEF SlotInv
<1>11. SlotInv(r, s, act, n)
  BY <1>1, <1>2, <1>4, <1>7, <1>8, <1>9, <1>10 DEF SlotInv
<1>. QED
  BY <1>11 DEF r

\* What is left in a slot whose gesture ends.
Lifted(h, pen, left) ==
    left = NoPen \/ (h[1] = "pen" /\ left = [pen EXCEPT !.pointer = NoPointer])

LEMMA LiftedPen ==
    ASSUME NEW h, NEW pen, NEW n, PenOK(h, pen, n), NEW left, Lifted(h, pen, left)
    PROVE  PenOK(h, left, n) /\ ~Drawing(left)
BY DEF PenOK, Lifted, NoPen, NoPointer, Pen, Drawing, Tool

\* An Up or a Cancel of a slot that draws frees it, and the mouse it silenced.
LEMMA SlotEnd ==
    ASSUME NEW q, NEW s, NEW act, NEW n, SlotInv(q, s, act, n),
           NEW h \in Slots, NEW e \in Event, Drawing(s[h]),
           e.phase \in Ends, e.pointer = s[h].pointer, e.tool = s[h].tool,
           NEW left, Lifted(h, s[h], left)
    PROVE  SlotInv(Append(q, e), Put(s, h, left),
                   IF act = s[h].pointer THEN NoPointer ELSE act, n)
<1> DEFINE t == Put(s, h, left)
           r == Append(q, e)
           act2 == IF act = s[h].pointer THEN NoPointer ELSE act
<1>1. /\ n \in Nat \ {0} /\ q \in Seq(Event) /\ (\A i \in DOMAIN q : q[i].pointer < n)
      /\ s \in [Slots -> Pen]
      /\ \A p \in 1 .. n - 1 : Whole(q, p) /\ Begun(q, p)
  BY DEF SlotInv
<1>2. \A k \in Slots : PenOK(k, s[k], n)
  BY DEF SlotInv
<1>3. \A k \in Slots : Drawing(s[k]) => Open(q, s[k])
  BY DEF SlotInv
<1>4. \A k, l \in Slots : Drawing(s[k]) /\ s[k].pointer = s[l].pointer => k = l
  BY DEF SlotInv
<1>5. e.pointer \in 1 .. n - 1 /\ e.pointer < n
  BY <1>1, <1>2 DEF PenOK
<1>6. Whole(r, e.pointer) /\ Begun(r, e.pointer)
  <2>1. e.phase \notin {"Down", "Revise"}
    BY DEF Ends
  <2>. QED
    BY <1>1, <1>3, <1>5, <2>1, SampleContinues
<1>7. \A p \in 1 .. n - 1 : Whole(r, p) /\ Begun(r, p)
  BY <1>1, <1>6, OtherGestures
<1>8. \A k \in Slots : k # h /\ Drawing(s[k]) => Open(r, s[k])
  BY <1>1, <1>3, <1>4, OtherGestures
<1>9. r \in Seq(Event) /\ \A i \in DOMAIN r : r[i].pointer < n
  BY <1>1, <1>5, QueueBound
<1>10. PenOK(h, left, n) /\ ~Drawing(left)
  BY <1>2, LiftedPen
<1>11. /\ t \in [Slots -> Pen] /\ t[h] = left
       /\ \A k \in Slots : k # h => t[k] = s[k]
  BY <1>1, <1>10 DEF PenOK, Put
<1> HIDE DEF r, t
<1>12. \A k \in Slots : PenOK(k, t[k], n)
  BY <1>2, <1>10, <1>11
<1>13. \A k \in Slots : Drawing(t[k]) => Open(r, t[k])
  BY <1>8, <1>10, <1>11
<1>14. \A k, l \in Slots : Drawing(t[k]) /\ t[k].pointer = t[l].pointer => k = l
  BY <1>4, <1>10, <1>11 DEF Drawing
<1>15. act2 = NoPointer \/ \E k \in Slots : Drawing(t[k]) /\ t[k].pointer = act2 /\ t[k].tool # "Finger"
  <2>1. CASE act = s[h].pointer \/ act = NoPointer
    BY <2>1
  <2>2. CASE act # s[h].pointer /\ act # NoPointer
    <3>1. PICK k \in Slots : Drawing(s[k]) /\ s[k].pointer = act /\ s[k].tool # "Finger"
      BY <2>2 DEF SlotInv
    <3>2. k # h
      BY <2>2, <3>1
    <3>. QED
      BY <1>11, <2>2, <3>1, <3>2
  <2>. QED
    BY <2>1, <2>2
<1> HIDE DEF act2
<1>16. SlotInv(r, t, act2, n)
  BY <1>1, <1>7, <1>9, <1>11, <1>12, <1>13, <1>14, <1>15 DEF SlotInv
<1>. QED
  BY <1>16 DEF r, t, act2

\* What is told of no gesture: a hover, a squeeze, a revision.
LEMMA SlotAside ==
    ASSUME NEW q, NEW s, NEW act, NEW n, SlotInv(q, s, act, n),
           NEW e \in Event, e.phase = "Revise" \/ e.pointer \in {Mouse, NoPointer}, e.pointer < n
    PROVE  SlotInv(Append(q, e), s, act, n)
<1> DEFINE r == Append(q, e)
<1>1. /\ n \in Nat \ {0} /\ q \in Seq(Event) /\ (\A i \in DOMAIN q : q[i].pointer < n)
      /\ s \in [Slots -> Pen]
      /\ \A p \in 1 .. n - 1 : Whole(q, p) /\ Begun(q, p)
  BY DEF SlotInv
<1>2. \A k \in Slots : PenOK(k, s[k], n)
  BY DEF SlotInv
<1>3. \A k \in Slots : Drawing(s[k]) => Open(q, s[k])
  BY DEF SlotInv
<1>4. \A k, l \in Slots : Drawing(s[k]) /\ s[k].pointer = s[l].pointer => k = l
  BY DEF SlotInv
<1>5. \A p \in 1 .. n - 1 : e.phase = "Revise" \/ e.pointer # p
  BY <1>1 DEF Mouse, NoPointer
<1>7. \A p \in 1 .. n - 1 : Whole(r, p) /\ Begun(r, p)
  BY <1>1, <1>5, OtherGestures
<1>8. \A k \in Slots : Drawing(s[k]) => Open(r, s[k])
  <2>1. SUFFICES ASSUME NEW k \in Slots, Drawing(s[k]) PROVE Open(r, s[k])
    OBVIOUS
  <2>2. s[k].pointer \in 1 .. n - 1
    BY <1>2, <2>1 DEF PenOK
  <2>. QED
    BY <1>1, <1>3, <1>5, <2>1, <2>2, OtherGestures
<1>9. r \in Seq(Event) /\ \A i \in DOMAIN r : r[i].pointer < n
  BY <1>1, QueueBound
<1> HIDE DEF r
<1>10. act = NoPointer \/ \E k \in Slots : Drawing(s[k]) /\ s[k].pointer = act /\ s[k].tool # "Finger"
  BY DEF SlotInv
<1>11. SlotInv(r, s, act, n)
  BY <1>1, <1>2, <1>4, <1>7, <1>8, <1>9, <1>10 DEF SlotInv
<1>. QED
  BY <1>11 DEF r

\* A slot that does not draw is renamed, or emptied.
LEMMA SlotSet ==
    ASSUME NEW q, NEW s, NEW act, NEW n, SlotInv(q, s, act, n),
           NEW h \in Slots, ~Drawing(s[h]), NEW pen, PenOK(h, pen, n), ~Drawing(pen)
    PROVE  SlotInv(q, Put(s, h, pen), act, n)
<1> DEFINE t == Put(s, h, pen)
<1>1. /\ n \in Nat \ {0} /\ q \in Seq(Event) /\ (\A i \in DOMAIN q : q[i].pointer < n)
      /\ s \in [Slots -> Pen]
      /\ \A p \in 1 .. n - 1 : Whole(q, p) /\ Begun(q, p)
  BY DEF SlotInv
<1>2. \A k \in Slots : PenOK(k, s[k], n)
  BY DEF SlotInv
<1>3. \A k \in Slots : Drawing(s[k]) => Open(q, s[k])
  BY DEF SlotInv
<1>4. \A k, l \in Slots : Drawing(s[k]) /\ s[k].pointer = s[l].pointer => k = l
  BY DEF SlotInv
<1>11. /\ t \in [Slots -> Pen] /\ t[h] = pen
       /\ \A k \in Slots : k # h => t[k] = s[k]
  BY <1>1 DEF PenOK, Put
<1> HIDE DEF t
<1>12. \A k \in Slots : PenOK(k, t[k], n)
  BY <1>2, <1>11
<1>13. \A k \in Slots : Drawing(t[k]) => Open(q, t[k])
  BY <1>3, <1>11
<1>14. \A k, l \in Slots : Drawing(t[k]) /\ t[k].pointer = t[l].pointer => k = l
  BY <1>4, <1>11 DEF Drawing
<1>15. act = NoPointer \/ \E k \in Slots : Drawing(t[k]) /\ t[k].pointer = act /\ t[k].tool # "Finger"
  <2>1. act = NoPointer \/ \E k \in Slots : Drawing(s[k]) /\ s[k].pointer = act /\ s[k].tool # "Finger"
    BY DEF SlotInv
  <2>. QED
    BY <1>11, <2>1
<1>16. SlotInv(q, t, act, n)
  BY <1>1, <1>11, <1>12, <1>13, <1>14, <1>15 DEF SlotInv
<1>. QED
  BY <1>16 DEF t

(***************************************************************************)
(* The handlers of the adapter.                                            *)
(***************************************************************************)
\* An adapter, and an event, by its fields.
Rec(q, p, c, x, y, n) ==
    [queue |-> q, pens |-> p, contacts |-> c, activePen |-> x, pending |-> y, nextPointer |-> n]

Sample(phase, pointer, tool, reading, update) ==
    [phase |-> phase, pointer |-> pointer, tool |-> tool, reading |-> reading, update |-> update]

SlotMap(p, c) == [h \in Slots |-> IF h[1] = "pen" THEN p[h[2]] ELSE c[h[2]]]

Shape(a) == a = Rec(a.queue, a.pens, a.contacts, a.activePen, a.pending, a.nextPointer)

AdapterInv(a) ==
    /\ Shape(a)
    /\ a.pens \in [Devices -> Pen]
    /\ a.contacts \in [Contacts -> Pen]
    /\ SlotInv(a.queue, SlotMap(a.pens, a.contacts), a.activePen, a.nextPointer)

LEMMA Updated ==
    \A q, p, c, x, y, n, v :
        /\ [Rec(q, p, c, x, y, n) EXCEPT !.queue = v] = Rec(v, p, c, x, y, n)
        /\ [Rec(q, p, c, x, y, n) EXCEPT !.pens = v] = Rec(q, v, c, x, y, n)
        /\ [Rec(q, p, c, x, y, n) EXCEPT !.contacts = v] = Rec(q, p, v, x, y, n)
        /\ [Rec(q, p, c, x, y, n) EXCEPT !.activePen = v] = Rec(q, p, c, v, y, n)
        /\ [Rec(q, p, c, x, y, n) EXCEPT !.pending = v] = Rec(q, p, c, x, v, n)
        /\ [Rec(q, p, c, x, y, n) EXCEPT !.nextPointer = v] = Rec(q, p, c, x, y, v)
BY DEF Rec

LEMMA Fields ==
    \A q, p, c, x, y, n :
        /\ Rec(q, p, c, x, y, n).queue = q
        /\ Rec(q, p, c, x, y, n).pens = p
        /\ Rec(q, p, c, x, y, n).contacts = c
        /\ Rec(q, p, c, x, y, n).activePen = x
        /\ Rec(q, p, c, x, y, n).pending = y
        /\ Rec(q, p, c, x, y, n).nextPointer = n
BY DEF Rec

LEMMA SampleIs ==
    \A phase, pointer, tool, reading, update :
        LET e == Sample(phase, pointer, tool, reading, update)
        IN  /\ e.phase = phase /\ e.pointer = pointer /\ e.tool = tool
            /\ e.reading = reading /\ e.update = update
            /\ phase \in Phases /\ pointer \in Int /\ tool \in Tool \cup {"none"}
                  /\ reading \in Readings /\ update \in Nat => e \in Event
BY DEF Sample, Event

LEMMA AdapterIs ==
    ASSUME NEW q, NEW p, NEW c, NEW x, NEW y, NEW n,
           p \in [Devices -> Pen], c \in [Contacts -> Pen], SlotInv(q, SlotMap(p, c), x, n)
    PROVE  AdapterInv(Rec(q, p, c, x, y, n))
<1> DEFINE r == Rec(q, p, c, x, y, n)
<1>1. r.queue = q /\ r.pens = p /\ r.contacts = c /\ r.activePen = x /\ r.pending = y /\ r.nextPointer = n
  BY Fields
<1>2. r = Rec(r.queue, r.pens, r.contacts, r.activePen, r.pending, r.nextPointer)
  BY <1>1, Zenon
<1> HIDE DEF r
<1>3. AdapterInv(r)
  BY <1>1, <1>2 DEF AdapterInv, Shape
<1>. QED
  BY <1>3 DEF r

LEMMA SlotsAre ==
    ASSUME NEW p, NEW c
    PROVE  /\ \A d \in Devices : <<"pen", d>> \in Slots /\ SlotMap(p, c)[<<"pen", d>>] = p[d]
           /\ \A k \in Contacts : <<"contact", k>> \in Slots /\ SlotMap(p, c)[<<"contact", k>>] = c[k]
           /\ \A h \in Slots : \/ \E d \in Devices : h = <<"pen", d>>
                               \/ \E k \in Contacts : h = <<"contact", k>>
BY DEF Slots, SlotMap

LEMMA SetPenSlot ==
    ASSUME NEW p \in [Devices -> Pen], NEW c \in [Contacts -> Pen], NEW d \in Devices, NEW pen \in Pen
    PROVE  /\ SlotMap(Put(p, d, pen), c) = Put(SlotMap(p, c), <<"pen", d>>, pen)
           /\ Put(p, d, pen) \in [Devices -> Pen]
<1> DEFINE r == Put(p, d, pen)
<1>1. r \in [Devices -> Pen] /\ r[d] = pen /\ \A k \in Devices : k # d => r[k] = p[k]
  BY DEF Put
<1> HIDE DEF r
<1>2. ASSUME NEW h \in Slots
      PROVE  SlotMap(r, c)[h] = Put(SlotMap(p, c), <<"pen", d>>, pen)[h]
  <2>1. CASE \E k \in Devices : h = <<"pen", k>>
    <3>1. PICK k \in Devices : h = <<"pen", k>>
      BY <2>1
    <3>2. SlotMap(r, c)[h] = r[k] /\ SlotMap(p, c)[h] = p[k]
      BY <1>2, <3>1 DEF SlotMap
    <3>3. h = <<"pen", d>> <=> k = d
      BY <3>1
    <3>. QED
      BY <1>1, <1>2, <3>2, <3>3 DEF SlotMap, Put
  <2>2. CASE \E k \in Contacts : h = <<"contact", k>>
    <3>1. PICK k \in Contacts : h = <<"contact", k>>
      BY <2>2
    <3>2. SlotMap(r, c)[h] = c[k] /\ SlotMap(p, c)[h] = c[k] /\ h # <<"pen", d>>
      BY <1>2, <3>1 DEF SlotMap
    <3>. QED
      BY <1>2, <3>2 DEF SlotMap, Put
  <2>. QED
    BY <2>1, <2>2 DEF Slots
<1>3. SlotMap(r, c) = Put(SlotMap(p, c), <<"pen", d>>, pen)
  BY <1>2 DEF SlotMap, Put
<1>. QED
  BY <1>1, <1>3 DEF r

LEMMA SetContactSlot ==
    ASSUME NEW p \in [Devices -> Pen], NEW c \in [Contacts -> Pen], NEW k \in Contacts, NEW pen \in Pen
    PROVE  /\ SlotMap(p, Put(c, k, pen)) = Put(SlotMap(p, c), <<"contact", k>>, pen)
           /\ Put(c, k, pen) \in [Contacts -> Pen]
<1> DEFINE r == Put(c, k, pen)
<1>1. r \in [Contacts -> Pen] /\ r[k] = pen /\ \A j \in Contacts : j # k => r[j] = c[j]
  BY DEF Put
<1> HIDE DEF r
<1>2. ASSUME NEW h \in Slots
      PROVE  SlotMap(p, r)[h] = Put(SlotMap(p, c), <<"contact", k>>, pen)[h]
  <2>1. CASE \E j \in Contacts : h = <<"contact", j>>
    <3>1. PICK j \in Contacts : h = <<"contact", j>>
      BY <2>1
    <3>2. SlotMap(p, r)[h] = r[j] /\ SlotMap(p, c)[h] = c[j]
      BY <1>2, <3>1 DEF SlotMap
    <3>3. h = <<"contact", k>> <=> j = k
      BY <3>1
    <3>. QED
      BY <1>1, <1>2, <3>2, <3>3 DEF SlotMap, Put
  <2>2. CASE \E d \in Devices : h = <<"pen", d>>
    <3>1. PICK d \in Devices : h = <<"pen", d>>
      BY <2>2
    <3>2. SlotMap(p, r)[h] = p[d] /\ SlotMap(p, c)[h] = p[d] /\ h # <<"contact", k>>
      BY <1>2, <3>1 DEF SlotMap
    <3>. QED
      BY <1>2, <3>2 DEF SlotMap, Put
  <2>. QED
    BY <2>1, <2>2 DEF Slots
<1>3. SlotMap(p, r) = Put(SlotMap(p, c), <<"contact", k>>, pen)
  BY <1>2 DEF SlotMap, Put
<1>. QED
  BY <1>1, <1>3 DEF r

LEMMA InitAdapter == AdapterInv(NewAdapter)
<1> DEFINE p == [d \in Devices |-> NoPen]
           c == [k \in Contacts |-> NoPen]
           s == SlotMap(p, c)
<1>1. NewAdapter = Rec(<< >>, p, c, NoPointer, {}, 1)
  BY Zenon DEF NewAdapter, Rec
<1>2. NoPen \in Pen /\ ~Drawing(NoPen) /\ \A h : PenOK(h, NoPen, 1)
  BY DEF NoPen, Pen, Drawing, PenOK, NoPointer
<1>3. p \in [Devices -> Pen] /\ c \in [Contacts -> Pen]
  BY <1>2
<1>4. s \in [Slots -> Pen] /\ \A h \in Slots : s[h] = NoPen
  BY <1>2 DEF SlotMap, Slots
<1> HIDE DEF p, c, s
<1>5. << >> \in Seq(Event) /\ DOMAIN << >> = {} /\ 1 .. 1 - 1 = {}
  OBVIOUS
<1>6. SlotInv(<< >>, s, NoPointer, 1)
  BY <1>2, <1>4, <1>5 DEF SlotInv
<1>. QED
  BY <1>1, <1>3, <1>6, AdapterIs DEF s

\* What is told after `a', up to `b', is of no finger.
Follows(a, b) ==
    /\ Len(a.queue) \in Nat /\ Len(b.queue) \in Nat /\ Len(a.queue) <= Len(b.queue)
    /\ \A i \in 1 .. Len(b.queue) : IF i <= Len(a.queue) THEN b.queue[i] = a.queue[i]
                                                         ELSE b.queue[i].tool # "Finger"

LEMMA FollowsSame ==
    ASSUME NEW a, NEW b, a.queue \in Seq(Event), b.queue = a.queue
    PROVE  Follows(a, b)
<1>1. Len(a.queue) \in Nat
  BY LenProperties
<1>. QED
  BY <1>1 DEF Follows

LEMMA FollowsOne ==
    ASSUME NEW a, NEW b, a.queue \in Seq(Event), NEW e \in Event, e.tool # "Finger",
           b.queue = Append(a.queue, e)
    PROVE  Follows(a, b)
<1>1. /\ b.queue \in Seq(Event) /\ DOMAIN b.queue = 1 .. Len(a.queue) + 1 /\ Len(a.queue) \in Nat
      /\ \A i \in 1 .. Len(a.queue) : b.queue[i] = a.queue[i]
      /\ b.queue[Len(a.queue) + 1] = e
  BY QueueIs
<1>2. Len(b.queue) = Len(a.queue) + 1
  BY AppendProperties
<1>3. \A i \in 1 .. Len(a.queue) + 1 : ~(i <= Len(a.queue)) => i = Len(a.queue) + 1
  BY <1>1
<1>. QED
  BY <1>1, <1>2, <1>3 DEF Follows

LEMMA FollowsOn ==
    ASSUME NEW a, NEW b, NEW c, Follows(a, b), Follows(b, c)
    PROVE  Follows(a, c)
<1>1. Len(a.queue) <= Len(c.queue) /\ Len(a.queue) \in Nat /\ Len(c.queue) \in Nat
  BY DEF Follows
<1>2. ASSUME NEW i \in 1 .. Len(c.queue)
      PROVE  IF i <= Len(a.queue) THEN c.queue[i] = a.queue[i] ELSE c.queue[i].tool # "Finger"
  <2>1. CASE i <= Len(b.queue)
    <3>1. i \in 1 .. Len(b.queue) /\ c.queue[i] = b.queue[i]
      BY <1>2, <2>1 DEF Follows
    <3>. QED
      BY <3>1 DEF Follows
  <2>2. CASE ~(i <= Len(b.queue))
    <3>1. ~(i <= Len(a.queue))
      BY <1>2, <2>2 DEF Follows
    <3>. QED
      BY <1>2, <2>2, <3>1 DEF Follows
  <2>. QED
    BY <2>1, <2>2
<1>. QED
  BY <1>1, <1>2 DEF Follows

\* What the handlers make of a pen, of the flag that silences the mouse and of
\* the updates that are awaited.
Lift(pen)        == [pen EXCEPT !.pointer = NoPointer]
Named(pen, tool) == [pen EXCEPT !.tool = tool]
Freed(x, k)      == IF x = k THEN NoPointer ELSE x
Without(y, k)    == {e \in y : e.pointer # k}

LEMMA DeactivateIs ==
    \A q, p, c, x, y, n, k :
        Deactivate(Rec(q, p, c, x, y, n), k) = Rec(q, p, c, Freed(x, k), y, n)
BY SMT DEF Deactivate, Rec, Freed

LEMMA TakePendingIs ==
    \A q, p, c, x, y, n, k :
        TakePending(Rec(q, p, c, x, y, n), k) = Rec(q, p, c, x, Without(y, k), n)
BY SMT DEF TakePending, Rec, Without

LEMMA EmitIs ==
    \A q, p, c, x, y, n, phase, pointer, tool, reading, update :
        Emit(Rec(q, p, c, x, y, n), phase, pointer, tool, reading, update) =
            Rec(Append(q, Sample(phase, pointer, tool, reading, update)), p, c, x, y, n)
BY SMT DEF Emit, Rec, Sample

LEMMA StartPenIs ==
    \A q, p, c, x, y, n, d, reading :
        StartPen(Rec(q, p, c, x, y, n), d, reading) =
            Rec(Append(q, Sample("Down", n, p[d].tool, reading, 0)),
                Put(p, d, [p[d] EXCEPT !.pointer = n]), c, n, y, n + 1)
<1> TAKE q, p, c, x, y, n, d, reading
<1> DEFINE a == Rec(q, p, c, x, y, n)
           pen == [p[d] EXCEPT !.pointer = n]
           r == Put(p, d, pen)
           b == [a EXCEPT !.pens[d].pointer = a.nextPointer, !.activePen = a.nextPointer,
                          !.nextPointer = @ + 1]
<1>1. b = Rec(q, r, c, n, y, n + 1)
  <2>1. b = [a EXCEPT !.pens = r, !.activePen = n, !.nextPointer = n + 1]
    BY SMT DEF Rec, Put
  <2>0. a = Rec(q, p, c, x, y, n)
    OBVIOUS
  <2> HIDE DEF r, a
  <2>2. [a EXCEPT !.pens = r, !.activePen = n, !.nextPointer = n + 1] = Rec(q, r, c, n, y, n + 1)
    <3> DEFINE b1 == [a EXCEPT !.pens = r]
               b2 == [b1 EXCEPT !.activePen = n]
    <3>1. [a EXCEPT !.pens = r, !.activePen = n, !.nextPointer = n + 1] = [b2 EXCEPT !.nextPointer = n + 1]
      OBVIOUS
    <3>2. b1 = Rec(q, r, c, x, y, n)
      BY Updated, <2>0
    <3> HIDE DEF b1
    <3>3. b2 = Rec(q, r, c, n, y, n)
      BY Updated, <3>2
    <3> HIDE DEF b2
    <3>4. [b2 EXCEPT !.nextPointer = n + 1] = Rec(q, r, c, n, y, n + 1)
      BY Updated, <3>3
    <3>. QED
      BY <3>1, <3>4
  <2>. QED
    BY <2>1, <2>2
<1>2. StartPen(a, d, reading) = Emit(b, "Down", n, p[d].tool, reading, 0)
  BY DEF StartPen, Rec
<1> HIDE DEF b, r
<1>3. StartPen(a, d, reading) = Rec(Append(q, Sample("Down", n, p[d].tool, reading, 0)), r, c, n, y, n + 1)
  BY <1>1, <1>2, EmitIs
<1>. QED
  BY <1>3 DEF r

LEMMA ContinuePenIs ==
    \A q, p, c, x, y, n, d, phase, reading :
        ContinuePen(Rec(q, p, c, x, y, n), d, phase, reading) =
            LET e == Sample(phase, p[d].pointer, p[d].tool, reading, 0)
            IN  IF p[d].pointer = NoPointer
                THEN Rec(q, p, c, x, y, n)
                ELSE IF phase \in Ends
                THEN Rec(Append(q, e), Put(p, d, Lift(p[d])), c,
                         Freed(x, p[d].pointer), y, n)
                ELSE Rec(Append(q, e), p, c, x, y, n)
<1> TAKE q, p, c, x, y, n, d, phase, reading
<1> DEFINE a == Rec(q, p, c, x, y, n)
           r == Put(p, d, Lift(p[d]))
           b == [a EXCEPT !.pens[d].pointer = NoPointer]
           k == p[d].pointer
           e == Sample(phase, k, p[d].tool, reading, 0)
           z == Freed(x, k)
<1>1. b = Rec(q, r, c, x, y, n)
  BY SMT DEF Rec, Put, Lift
<1>2. ContinuePen(a, d, phase, reading) =
        IF k = NoPointer THEN a
        ELSE Emit(IF phase \in Ends THEN Deactivate(b, k) ELSE a, phase, k, p[d].tool, reading, 0)
  BY DEF ContinuePen, Rec
<1> HIDE DEF b, r
<1>3. Deactivate(b, k) = Rec(q, r, c, z, y, n)
  BY <1>1, DeactivateIs
<1> HIDE DEF z
<1>4. Emit(Deactivate(b, k), phase, k, p[d].tool, reading, 0) = Rec(Append(q, e), r, c, z, y, n)
  BY <1>3, EmitIs
<1>5. Emit(a, phase, k, p[d].tool, reading, 0) = Rec(Append(q, e), p, c, x, y, n)
  BY EmitIs
<1> HIDE DEF k, e, a
<1>6. ContinuePen(a, d, phase, reading) =
        IF k = NoPointer THEN a
        ELSE IF phase \in Ends THEN Rec(Append(q, e), r, c, z, y, n) ELSE Rec(Append(q, e), p, c, x, y, n)
  BY <1>2, <1>4, <1>5
<1>. QED
  BY <1>6, Zenon DEF a, k, e, r, z

LEMMA EnteredIs ==
    \A q, p, c, x, y, n, d, tool :
        Entered(Rec(q, p, c, x, y, n), d, tool) =
            IF p[d] # NoPen THEN Rec(q, p, c, x, y, n)
            ELSE Rec(q, Put(p, d, [pointer |-> NoPointer, tool |-> tool]), c, x, y, n)
BY SMT DEF Entered, Rec, Put

LEMMA PenEntersIs ==
    \A q, p, c, x, y, n, d, tool :
        PenEnters(Rec(q, p, c, x, y, n), d, tool) =
            LET r == IF p[d] # NoPen THEN p
                     ELSE Put(p, d, [pointer |-> NoPointer, tool |-> tool])
            IN  Rec(q, Put(r, d, Named(r[d], tool)), c, x, y, n)
<1> TAKE q, p, c, x, y, n, d, tool
<1>. QED
  BY SMT DEF Entered, PenEnters, Rec, Put, Named

LEMMA PenLeavesIs ==
    \A q, p, c, x, y, n, d :
        PenLeaves(Rec(q, p, c, x, y, n), d) =
            LET k == p[d].pointer
                r == Put(p, d, NoPen)
            IN  IF k = NoPointer
                THEN Rec(q, r, c, x, y, n)
                ELSE Rec(Append(q, Sample("Cancel", k, p[d].tool, 0, 0)), r, c,
                         Freed(x, k), Without(y, k), n)
<1> TAKE q, p, c, x, y, n, d
<1> DEFINE a == Rec(q, p, c, x, y, n)
           k == p[d].pointer
           r == Put(p, d, NoPen)
           b == [a EXCEPT !.pens[d] = NoPen]
           e == Sample("Cancel", k, p[d].tool, 0, 0)
           w == Without(y, k)
           z == Freed(x, k)
<1>1. b = Rec(q, r, c, x, y, n)
  BY SMT DEF Rec, Put
<1>2. PenLeaves(a, d) =
        IF k = NoPointer THEN b
        ELSE Deactivate(TakePending(Emit(b, "Cancel", k, p[d].tool, 0, 0), k), k)
  BY DEF PenLeaves, Rec
<1> HIDE DEF b, r
<1>3. Emit(b, "Cancel", k, p[d].tool, 0, 0) = Rec(Append(q, e), r, c, x, y, n)
  BY <1>1, EmitIs
<1>4. TakePending(Emit(b, "Cancel", k, p[d].tool, 0, 0), k) = Rec(Append(q, e), r, c, x, w, n)
  BY <1>3, TakePendingIs
<1>5. Deactivate(TakePending(Emit(b, "Cancel", k, p[d].tool, 0, 0), k), k) = Rec(Append(q, e), r, c, z, w, n)
  BY <1>4, DeactivateIs
<1> HIDE DEF a, k, e, w, z
<1>6. PenLeaves(a, d) = IF k = NoPointer THEN Rec(q, r, c, x, y, n) ELSE Rec(Append(q, e), r, c, z, w, n)
  BY <1>1, <1>2, <1>5
<1>. QED
  BY <1>6, Zenon DEF a, k, e, r, w, z

LEMMA StartContactIs ==
    \A q, p, c, x, y, n, k, tool, activates, reading, update :
        StartContact(Rec(q, p, c, x, y, n), k, tool, activates, reading, update) =
            Rec(Append(q, Sample("Down", n, tool, reading, update)), p,
                Put(c, k, [pointer |-> n, tool |-> tool]),
                IF activates THEN n ELSE x, y, n + 1)
<1> TAKE q, p, c, x, y, n, k, tool, activates, reading, update
<1> DEFINE a == Rec(q, p, c, x, y, n)
           r == Put(c, k, [pointer |-> n, tool |-> tool])
           z == IF activates THEN n ELSE x
           b == [a EXCEPT !.contacts[k] = [pointer |-> a.nextPointer, tool |-> tool],
                          !.activePen = IF activates THEN a.nextPointer ELSE @,
                          !.nextPointer = @ + 1]
<1>1. b = [a EXCEPT !.contacts = r, !.activePen = z, !.nextPointer = n + 1]
  BY SMT DEF Rec, Put
<1>2. StartContact(a, k, tool, activates, reading, update) = Emit(b, "Down", n, tool, reading, update)
  BY DEF StartContact, Rec
<1> HIDE DEF b, r, z
<1>3. b = Rec(q, p, r, z, y, n + 1)
  <2>1. a = Rec(q, p, c, x, y, n)
    OBVIOUS
  <2> HIDE DEF a
  <2>. QED
    <3>1. [a EXCEPT !.contacts = r, !.activePen = z, !.nextPointer = n + 1] = Rec(q, p, r, z, y, n + 1)
      <4> DEFINE b1 == [a EXCEPT !.contacts = r]
                 b2 == [b1 EXCEPT !.activePen = z]
      <4>1. [a EXCEPT !.contacts = r, !.activePen = z, !.nextPointer = n + 1] = [b2 EXCEPT !.nextPointer = n + 1]
        OBVIOUS
      <4>2. b1 = Rec(q, p, r, x, y, n)
        BY Updated, <2>1
      <4> HIDE DEF b1
      <4>3. b2 = Rec(q, p, r, z, y, n)
        BY Updated, <4>2
      <4> HIDE DEF b2
      <4>4. [b2 EXCEPT !.nextPointer = n + 1] = Rec(q, p, r, z, y, n + 1)
        BY Updated, <4>3
      <4>. QED
        BY <4>1, <4>4
    <3>. QED
      BY <1>1, <3>1
<1>4. StartContact(a, k, tool, activates, reading, update) =
        Rec(Append(q, Sample("Down", n, tool, reading, update)), p, r, z, y, n + 1)
  BY <1>2, <1>3, EmitIs
<1>. QED
  BY <1>4 DEF r, z

LEMMA ContinueContactIs ==
    \A q, p, c, x, y, n, k, phase, tool, reading, update :
        ContinueContact(Rec(q, p, c, x, y, n), k, phase, tool, reading, update) =
            LET e == Sample(phase, c[k].pointer, c[k].tool, reading, update)
            IN  IF c[k] = NoPen
                THEN Rec(q, p, c, x, y, n)
                ELSE IF phase \in Ends
                THEN Rec(Append(q, e), p, Put(c, k, NoPen),
                         Freed(x, c[k].pointer), y, n)
                ELSE Rec(Append(q, e), p, c, x, y, n)
<1> TAKE q, p, c, x, y, n, k, phase, tool, reading, update
<1> DEFINE a == Rec(q, p, c, x, y, n)
           r == Put(c, k, NoPen)
           b == [a EXCEPT !.contacts[k] = NoPen]
           j == c[k].pointer
           e == Sample(phase, j, c[k].tool, reading, update)
           z == Freed(x, j)
<1>1. b = Rec(q, p, r, x, y, n)
  BY SMT DEF Rec, Put
<1>2. ContinueContact(a, k, phase, tool, reading, update) =
        IF c[k] = NoPen THEN a
        ELSE Emit(IF phase \in Ends THEN Deactivate(b, j) ELSE a, phase, j, c[k].tool, reading, update)
  BY DEF ContinueContact, Rec
<1> HIDE DEF b, r
<1>3. Deactivate(b, j) = Rec(q, p, r, z, y, n)
  BY <1>1, DeactivateIs
<1> HIDE DEF z
<1>4. Emit(Deactivate(b, j), phase, j, c[k].tool, reading, update) = Rec(Append(q, e), p, r, z, y, n)
  BY <1>3, EmitIs
<1>5. Emit(a, phase, j, c[k].tool, reading, update) = Rec(Append(q, e), p, c, x, y, n)
  BY EmitIs
<1> HIDE DEF j, e, a
<1>6. ContinueContact(a, k, phase, tool, reading, update) =
        IF c[k] = NoPen THEN a
        ELSE IF phase \in Ends THEN Rec(Append(q, e), p, r, z, y, n) ELSE Rec(Append(q, e), p, c, x, y, n)
  BY <1>2, <1>4, <1>5
<1>. QED
  BY <1>6, Zenon DEF a, j, e, r, z

LEMMA ContactLeavesIs ==
    \A q, p, c, x, y, n, k :
        ContactLeaves(Rec(q, p, c, x, y, n), k) =
            IF c[k] = NoPen
            THEN Rec(q, p, c, x, y, n)
            ELSE Rec(Append(q, Sample("Cancel", c[k].pointer, c[k].tool, 0, 0)), p,
                     Put(c, k, NoPen),
                     Freed(x, c[k].pointer),
                     Without(y, c[k].pointer), n)
<1> TAKE q, p, c, x, y, n, k
<1> DEFINE a == Rec(q, p, c, x, y, n)
           j == c[k].pointer
           r == Put(c, k, NoPen)
           b == [a EXCEPT !.contacts[k] = NoPen]
           e == Sample("Cancel", j, c[k].tool, 0, 0)
           w == Without(y, j)
           z == Freed(x, j)
<1>1. b = Rec(q, p, r, x, y, n)
  BY SMT DEF Rec, Put
<1>2. ContactLeaves(a, k) =
        IF c[k] = NoPen THEN a
        ELSE Deactivate(TakePending(Emit(b, "Cancel", j, c[k].tool, 0, 0), j), j)
  BY DEF ContactLeaves, Rec
<1> HIDE DEF b, r
<1>3. Emit(b, "Cancel", j, c[k].tool, 0, 0) = Rec(Append(q, e), p, r, x, y, n)
  BY <1>1, EmitIs
<1>4. TakePending(Emit(b, "Cancel", j, c[k].tool, 0, 0), j) = Rec(Append(q, e), p, r, x, w, n)
  BY <1>3, TakePendingIs
<1>5. Deactivate(TakePending(Emit(b, "Cancel", j, c[k].tool, 0, 0), j), j) = Rec(Append(q, e), p, r, z, w, n)
  BY <1>4, DeactivateIs
<1> HIDE DEF a, j, e, w, z
<1>6. ContactLeaves(a, k) = IF c[k] = NoPen THEN a ELSE Rec(Append(q, e), p, r, z, w, n)
  BY <1>1, <1>2, <1>5
<1>. QED
  BY <1>6, Zenon DEF a, j, e, r, w, z

(***************************************************************************)
(* What each handler keeps.                                                *)
(***************************************************************************)
\* The adapter `a' has these fields.
Parts(a, q, p, c, x, y, n) ==
    /\ a = Rec(q, p, c, x, y, n)
    /\ a.queue = q /\ a.pens = p /\ a.contacts = c /\ a.activePen = x /\ a.pending = y /\ a.nextPointer = n
    /\ p \in [Devices -> Pen] /\ c \in [Contacts -> Pen]
    /\ SlotInv(q, SlotMap(p, c), x, n)

LEMMA PartsAre ==
    ASSUME NEW a, AdapterInv(a)
    PROVE  Parts(a, a.queue, a.pens, a.contacts, a.activePen, a.pending, a.nextPointer)
BY Zenon DEF AdapterInv, Shape, Parts

\* Whether a sample of this tool was told.
Told(q, r, e) == r = q \/ (e \in Event /\ r = Append(q, e))

\* What a handler of device d leaves as it was.
OfPen(a, r, d) ==
    /\ AdapterInv(r)
    /\ Follows(a, r)
    /\ r.contacts = a.contacts /\ r.pending \subseteq a.pending
    /\ \A k \in Devices : k # d => r.pens[k] = a.pens[k]

LEMMA PenResult ==
    ASSUME NEW a, NEW q, NEW p, NEW c, NEW x, NEW y, NEW n, Parts(a, q, p, c, x, y, n),
           NEW d \in Devices, NEW pen \in Pen, NEW e, NEW q2, Told(q, q2, e), e.tool # "Finger",
           NEW x2, NEW y2, y2 \subseteq y, NEW n2,
           SlotInv(q2, Put(SlotMap(p, c), <<"pen", d>>, pen), x2, n2)
    PROVE  LET r == Rec(q2, Put(p, d, pen), c, x2, y2, n2)
           IN  OfPen(a, r, d) /\ r.pens[d] = pen
<1> DEFINE P == Put(p, d, pen)
           r == Rec(q2, P, c, x2, y2, n2)
<1>1. /\ p \in [Devices -> Pen] /\ c \in [Contacts -> Pen] /\ q \in Seq(Event)
      /\ a.queue = q /\ a.pens = p /\ a.contacts = c /\ a.pending = y
  BY DEF Parts, SlotInv
<1>2. P[d] = pen /\ \A k \in Devices : k # d => P[k] = p[k]
  BY <1>1 DEF Put
<1>3. P \in [Devices -> Pen] /\ SlotMap(P, c) = Put(SlotMap(p, c), <<"pen", d>>, pen)
  BY <1>1, SetPenSlot
<1> HIDE DEF P
<1>4. AdapterInv(r)
  BY <1>1, <1>3, AdapterIs
<1>5. r.queue = q2 /\ r.pens = P /\ r.contacts = c /\ r.pending = y2
  BY Fields
<1> HIDE DEF r
<1>6. Follows(a, r)
  BY <1>1, <1>5, FollowsSame, FollowsOne DEF Told
<1>. QED
  BY <1>1, <1>2, <1>4, <1>5, <1>6 DEF OfPen, r, P

LEMMA PenIs ==
    ASSUME NEW a, NEW q, NEW p, NEW c, NEW x, NEW y, NEW n, Parts(a, q, p, c, x, y, n), NEW d \in Devices
    PROVE  /\ n \in Nat \ {0} /\ q \in Seq(Event) /\ p[d] \in Pen
           /\ <<"pen", d>> \in Slots /\ SlotMap(p, c)[<<"pen", d>>] = p[d]
           /\ p[d].tool # "Finger" /\ (p[d] # NoPen => p[d].tool \in Tool)
           /\ PenOK(<<"pen", d>>, p[d], n)
           /\ Drawing(p[d]) => p[d].pointer \in 1 .. n - 1 /\ p[d] # NoPen
<1>1. <<"pen", d>> \in Slots /\ SlotMap(p, c)[<<"pen", d>>] = p[d]
  BY SlotsAre
<1>2. /\ p \in [Devices -> Pen] /\ n \in Nat \ {0} /\ q \in Seq(Event)
      /\ PenOK(<<"pen", d>>, p[d], n)
  BY <1>1 DEF Parts, SlotInv
<1>3. <<"pen", d>>[1] = "pen"
  OBVIOUS
<1>4. p[d].tool # "Finger" /\ (p[d] # NoPen => p[d].tool \in Tool)
  BY <1>2, <1>3 DEF PenOK
<1>5. Drawing(p[d]) => p[d].pointer \in 1 .. n - 1 /\ p[d] # NoPen
  BY <1>2 DEF PenOK, Drawing, NoPen
<1>. QED
  BY <1>1, <1>2, <1>4, <1>5

LEMMA StartPenKeeps ==
    ASSUME NEW a, AdapterInv(a), NEW d \in Devices, a.pens[d] # NoPen, NEW reading \in Readings
    PROVE  LET r == StartPen(a, d, reading)
           IN  OfPen(a, r, d) /\ r.pens[d] = [pointer |-> a.nextPointer, tool |-> a.pens[d].tool]
<1>0. PICK q, p, c, x, y, n : Parts(a, q, p, c, x, y, n)
  BY PartsAre
<1> DEFINE e == Sample("Down", n, p[d].tool, reading, 0)
           pen == [pointer |-> n, tool |-> p[d].tool]
           r == StartPen(a, d, reading)
<1>1. a.pens = p /\ a.nextPointer = n /\ SlotInv(q, SlotMap(p, c), x, n) /\ a = Rec(q, p, c, x, y, n)
  BY <1>0 DEF Parts
<1>2. /\ n \in Nat \ {0} /\ q \in Seq(Event) /\ p[d] \in Pen /\ p[d].tool # "Finger" /\ p[d].tool \in Tool
      /\ <<"pen", d>> \in Slots /\ SlotMap(p, c)[<<"pen", d>>] = p[d]
  BY <1>0, <1>1, PenIs
<1>3. [p[d] EXCEPT !.pointer = n] = pen /\ pen \in Pen
  BY <1>2 DEF Pen
<1>4. e \in Event /\ e.phase = "Down" /\ e.pointer = n /\ e.tool = p[d].tool
  <2>1. "Down" \in Phases /\ n \in Int /\ p[d].tool \in Tool \cup {"none"} /\ reading \in Readings /\ 0 \in Nat
    BY <1>2 DEF Phases
  <2>. QED
    BY <2>1, SampleIs
<1>5. r = Rec(Append(q, e), Put(p, d, pen), c, n, y, n + 1)
  BY <1>1, <1>3, StartPenIs
<1> HIDE DEF e
<1>6. SlotInv(Append(q, e), Put(SlotMap(p, c), <<"pen", d>>, [pointer |-> n, tool |-> e.tool]), n, n + 1)
  BY <1>1, <1>2, <1>4, SlotDown
<1>7. SlotInv(Append(q, e), Put(SlotMap(p, c), <<"pen", d>>, pen), n, n + 1)
  BY <1>4, <1>6
<1> HIDE DEF pen, r
<1>8. Told(q, Append(q, e), e) /\ e.tool # "Finger" /\ y \subseteq y
  BY <1>2, <1>4 DEF Told
<1>9. OfPen(a, r, d) /\ r.pens[d] = pen
  BY <1>0, <1>3, <1>5, <1>7, <1>8, PenResult
<1>. QED
  BY <1>1, <1>9 DEF pen, r

LEMMA EnteredKeeps ==
    ASSUME NEW a, AdapterInv(a), NEW d \in Devices, NEW tool \in Tool \ {"Finger"}
    PROVE  LET r == Entered(a, d, tool)
           IN  OfPen(a, r, d) /\ r.pens[d] # NoPen
               /\ r.pens[d] = IF a.pens[d] # NoPen THEN a.pens[d]
                              ELSE [pointer |-> NoPointer, tool |-> tool]
<1>0. PICK q, p, c, x, y, n : Parts(a, q, p, c, x, y, n)
  BY PartsAre
<1> DEFINE pen == IF p[d] # NoPen THEN p[d] ELSE [pointer |-> NoPointer, tool |-> tool]
           r == Entered(a, d, tool)
           s == SlotMap(p, c)
<1>1. /\ a.pens = p /\ a.queue = q /\ SlotInv(q, s, x, n) /\ a = Rec(q, p, c, x, y, n)
      /\ p \in [Devices -> Pen] /\ s \in [Slots -> Pen]
  BY <1>0 DEF Parts, SlotInv
<1>2. /\ <<"pen", d>> \in Slots /\ s[<<"pen", d>>] = p[d] /\ PenOK(<<"pen", d>>, p[d], n) /\ p[d] \in Pen
      /\ (Drawing(p[d]) => p[d] # NoPen)
  BY <1>0, PenIs
<1>3. pen # NoPen /\ pen \in Pen /\ PenOK(<<"pen", d>>, pen, n) /\ (p[d] = NoPen => ~Drawing(pen))
  BY <1>2 DEF Pen, PenOK, NoPen, NoPointer, Drawing, Tool
<1>4. p[d] # NoPen => Put(p, d, pen) = p /\ Put(s, <<"pen", d>>, pen) = s
  BY <1>1, <1>2 DEF Put
<1>5. r = Rec(q, Put(p, d, pen), c, x, y, n)
  <2>1. r = IF p[d] # NoPen THEN Rec(q, p, c, x, y, n)
            ELSE Rec(q, Put(p, d, [pointer |-> NoPointer, tool |-> tool]), c, x, y, n)
    <3>1. Entered(Rec(q, p, c, x, y, n), d, tool) =
            IF p[d] # NoPen THEN Rec(q, p, c, x, y, n)
            ELSE Rec(q, Put(p, d, [pointer |-> NoPointer, tool |-> tool]), c, x, y, n)
      BY EnteredIs
    <3>. QED
      BY <1>1, <3>1
  <2>2. CASE p[d] # NoPen
    BY <1>4, <2>1, <2>2
  <2>3. CASE p[d] = NoPen
    BY <2>1, <2>3
  <2>. QED
    BY <2>2, <2>3
<1>6. SlotInv(q, Put(s, <<"pen", d>>, pen), x, n)
  <2>1. CASE p[d] # NoPen
    BY <1>1, <1>4, <2>1
  <2>2. CASE p[d] = NoPen
    <3> HIDE DEF pen, s
    <3>. QED
      BY <1>1, <1>2, <1>3, <2>2, SlotSet
  <2>. QED
    BY <2>1, <2>2
<1> DEFINE e == [tool |-> "Pen"]
<1>7. Told(q, q, e) /\ e.tool # "Finger" /\ y \subseteq y
  BY DEF Told
<1> HIDE DEF pen, r, e
<1>8. OfPen(a, r, d) /\ r.pens[d] = pen
  BY <1>0, <1>3, <1>5, <1>6, <1>7, PenResult DEF s
<1>. QED
  BY <1>1, <1>3, <1>8 DEF pen, r

LEMMA ContinuePenKeeps ==
    ASSUME NEW a, AdapterInv(a), NEW d \in Devices,
           NEW phase \in {"Move", "Up", "Cancel"}, NEW reading \in Readings
    PROVE  LET r == ContinuePen(a, d, phase, reading)
           IN  /\ OfPen(a, r, d)
               /\ r.pens[d].tool = a.pens[d].tool /\ (a.pens[d] # NoPen => r.pens[d] # NoPen)
               /\ phase \in Ends \/ a.pens[d].pointer = NoPointer => r.pens[d].pointer = NoPointer
<1>0. PICK q, p, c, x, y, n : Parts(a, q, p, c, x, y, n)
  BY PartsAre
<1> DEFINE old == p[d]
           e == Sample(phase, old.pointer, old.tool, reading, 0)
           left == Lift(old)
           s == SlotMap(p, c)
           h == <<"pen", d>>
           r == ContinuePen(a, d, phase, reading)
<1>1. /\ a.pens = p /\ SlotInv(q, s, x, n) /\ a = Rec(q, p, c, x, y, n) /\ a.queue = q
      /\ p \in [Devices -> Pen] /\ s \in [Slots -> Pen] /\ a.contacts = c /\ a.pending = y
  BY <1>0 DEF Parts, SlotInv
<1>2. /\ n \in Nat \ {0} /\ q \in Seq(Event) /\ old \in Pen /\ old.tool # "Finger"
      /\ h \in Slots /\ s[h] = old /\ (old # NoPen => old.tool \in Tool)
      /\ Drawing(old) => old.pointer \in 1 .. n - 1 /\ old # NoPen
  BY <1>0, PenIs
<1>3. Put(p, d, old) = p /\ Put(s, h, old) = s
  BY <1>1, <1>2 DEF Put
<1>4. /\ left \in Pen /\ left.pointer = NoPointer /\ left.tool = old.tool /\ Lifted(h, old, left)
      /\ old # NoPen => left # NoPen
  <2>1. left \in Pen /\ left.pointer = NoPointer /\ left.tool = old.tool
    BY <1>2 DEF Pen, NoPointer, Lift
  <2>2. h[1] = "pen"
    OBVIOUS
  <2>3. old # NoPen => left # NoPen
    BY <1>2, <2>1 DEF NoPen, Tool
  <2>. QED
    BY <2>1, <2>2, <2>3 DEF Lifted, Lift
<1>5. e.phase = phase /\ e.pointer = old.pointer /\ e.tool = old.tool
      /\ (Drawing(old) => e \in Event)
  <2>1. phase \in Phases /\ reading \in Readings /\ 0 \in Nat
    BY DEF Phases
  <2>2. old.pointer \in Int /\ old.tool \in Tool \cup {"none"}
    BY <1>2 DEF Pen
  <2>. QED
    BY <2>1, <2>2, SampleIs
<1>6. r = IF old.pointer = NoPointer
          THEN Rec(q, p, c, x, y, n)
          ELSE IF phase \in Ends
          THEN Rec(Append(q, e), Put(p, d, left), c, Freed(x, old.pointer), y, n)
          ELSE Rec(Append(q, e), p, c, x, y, n)
  BY <1>1, ContinuePenIs
<1> HIDE DEF e, left, old, s, h, r
<1>7. CASE old.pointer = NoPointer
  <2>1. r = Rec(q, Put(p, d, old), c, x, y, n) /\ SlotInv(q, Put(s, h, old), x, n)
    BY <1>1, <1>3, <1>6, <1>7
  <2>2. Told(q, q, e) /\ e.tool # "Finger" /\ y \subseteq y
    BY <1>2, <1>5 DEF Told
  <2>3. OfPen(a, r, d) /\ r.pens[d] = old
    BY <1>0, <1>2, <2>1, <2>2, PenResult DEF s, h
  <2>. QED
    BY <1>1, <1>7, <2>3 DEF r, old
<1>8. CASE old.pointer # NoPointer /\ phase \in Ends
  <2> DEFINE z == Freed(x, old.pointer)
  <2>1. r = Rec(Append(q, e), Put(p, d, left), c, z, y, n)
    BY <1>6, <1>8
  <2>2. SlotInv(Append(q, e), Put(s, h, left), z, n)
    BY <1>1, <1>2, <1>4, <1>5, <1>8, SlotEnd DEF Drawing, Freed
  <2> HIDE DEF z
  <2>3. Told(q, Append(q, e), e) /\ e.tool # "Finger" /\ y \subseteq y
    BY <1>2, <1>5, <1>8 DEF Told, Drawing
  <2>4. OfPen(a, r, d) /\ r.pens[d] = left
    BY <1>0, <1>4, <2>1, <2>2, <2>3, PenResult DEF s, h
  <2>. QED
    BY <1>1, <1>4, <2>4 DEF r, old
<1>9. CASE old.pointer # NoPointer /\ phase \notin Ends
  <2>1. r = Rec(Append(q, e), Put(p, d, old), c, x, y, n)
    BY <1>3, <1>6, <1>9
  <2>2. phase = "Move"
    BY <1>9 DEF Ends
  <2>3. SlotInv(Append(q, e), s, x, n)
    BY <1>1, <1>2, <1>5, <1>9, <2>2, SlotMove DEF Drawing
  <2>4. Told(q, Append(q, e), e) /\ e.tool # "Finger" /\ y \subseteq y
    BY <1>2, <1>5, <1>9 DEF Told, Drawing
  <2>5. OfPen(a, r, d) /\ r.pens[d] = old
    BY <1>0, <1>2, <1>3, <2>1, <2>3, <2>4, PenResult DEF s, h
  <2>. QED
    BY <1>1, <1>9, <2>5 DEF r, old
<1>. QED
  BY <1>7, <1>8, <1>9 DEF r

LEMMA PenEntersKeeps ==
    ASSUME NEW a, AdapterInv(a), NEW d \in Devices, NEW tool \in Tool \ {"Finger"},
           Drawing(a.pens[d]) => a.pens[d].tool = tool
    PROVE  LET r == PenEnters(a, d, tool)
           IN  /\ OfPen(a, r, d)
               /\ r.pens[d] = [pointer |-> a.pens[d].pointer, tool |-> tool]
<1>0. PICK q, p, c, x, y, n : Parts(a, q, p, c, x, y, n)
  BY PartsAre
<1> DEFINE old == p[d]
           pen == [pointer |-> old.pointer, tool |-> tool]
           s == SlotMap(p, c)
           h == <<"pen", d>>
           r == PenEnters(a, d, tool)
           t == IF old # NoPen THEN p ELSE Put(p, d, [pointer |-> NoPointer, tool |-> tool])
<1>1. /\ a.pens = p /\ SlotInv(q, s, x, n) /\ a = Rec(q, p, c, x, y, n)
      /\ p \in [Devices -> Pen] /\ s \in [Slots -> Pen]
  BY <1>0 DEF Parts, SlotInv
<1>2. /\ n \in Nat \ {0} /\ q \in Seq(Event) /\ old \in Pen
      /\ h \in Slots /\ s[h] = old /\ PenOK(h, old, n)
  BY <1>0, PenIs
<1>3. r = Rec(q, Put(t, d, Named(t[d], tool)), c, x, y, n)
  BY <1>1, PenEntersIs
<1>4. Named(t[d], tool) = pen
  <2>1. CASE old # NoPen
    BY <1>2, <2>1 DEF Pen, Named
  <2>2. CASE old = NoPen
    <3>1. t[d] = [pointer |-> NoPointer, tool |-> tool] /\ old.pointer = NoPointer
      BY <1>1, <2>2 DEF Put, NoPen
    <3>. QED
      BY <3>1 DEF Named
  <2>. QED
    BY <2>1, <2>2
<1>5. Put(t, d, pen) = Put(p, d, pen)
  <2> HIDE DEF pen
  <2>. QED
    BY <1>1 DEF Put
<1>6. pen \in Pen /\ PenOK(h, pen, n) /\ (Drawing(old) => pen = old) /\ (~Drawing(old) => ~Drawing(pen))
  <2>1. pen \in Pen
    BY <1>2 DEF Pen
  <2>2. Drawing(old) => pen = old
    BY <1>1, <1>2 DEF Pen
  <2>3. ~Drawing(old) => ~Drawing(pen)
    BY DEF Drawing
  <2>4. h[1] = "pen"
    OBVIOUS
  <2>5. PenOK(h, pen, n)
    BY <1>2, <2>1, <2>3, <2>4 DEF PenOK, Drawing
  <2>. QED
    BY <2>1, <2>2, <2>3, <2>5
<1>7. Put(s, h, old) = s
  BY <1>1, <1>2 DEF Put
<1>8. r = Rec(q, Put(p, d, pen), c, x, y, n)
  BY <1>3, <1>4, <1>5
<1> DEFINE e == [tool |-> "Pen"]
<1>9. Told(q, q, e) /\ e.tool # "Finger" /\ y \subseteq y
  BY DEF Told
<1> HIDE DEF old, pen, s, h, r, t, e
<1>10. SlotInv(q, Put(s, h, pen), x, n)
  BY <1>1, <1>2, <1>6, <1>7, SlotSet
<1>11. OfPen(a, r, d) /\ r.pens[d] = pen
  BY <1>0, <1>6, <1>8, <1>9, <1>10, PenResult DEF s, h
<1>. QED
  BY <1>1, <1>11 DEF r, pen, old

LEMMA PenLeavesKeeps ==
    ASSUME NEW a, AdapterInv(a), NEW d \in Devices
    PROVE  LET r == PenLeaves(a, d)
           IN  OfPen(a, r, d) /\ r.pens[d] = NoPen
<1>0. PICK q, p, c, x, y, n : Parts(a, q, p, c, x, y, n)
  BY PartsAre
<1> DEFINE old == p[d]
           e == Sample("Cancel", old.pointer, old.tool, 0, 0)
           s == SlotMap(p, c)
           h == <<"pen", d>>
           r == PenLeaves(a, d)
           z == Freed(x, old.pointer)
           w == Without(y, old.pointer)
<1>1. /\ a.pens = p /\ SlotInv(q, s, x, n) /\ a = Rec(q, p, c, x, y, n)
      /\ p \in [Devices -> Pen] /\ s \in [Slots -> Pen]
  BY <1>0 DEF Parts, SlotInv
<1>2. /\ n \in Nat \ {0} /\ q \in Seq(Event) /\ old \in Pen /\ old.tool # "Finger"
      /\ h \in Slots /\ s[h] = old /\ (old # NoPen => old.tool \in Tool)
      /\ Drawing(old) => old.pointer \in 1 .. n - 1 /\ old # NoPen
  BY <1>0, PenIs
<1>3. e.phase = "Cancel" /\ e.pointer = old.pointer /\ e.tool = old.tool
      /\ (Drawing(old) => e \in Event)
  <2>1. "Cancel" \in Phases /\ 0 \in Readings /\ 0 \in Nat
    BY DEF Phases, Readings
  <2>2. old.pointer \in Int /\ old.tool \in Tool \cup {"none"}
    BY <1>2 DEF Pen
  <2>. QED
    BY <2>1, <2>2, SampleIs
<1>4. r = IF old.pointer = NoPointer THEN Rec(q, Put(p, d, NoPen), c, x, y, n)
          ELSE Rec(Append(q, e), Put(p, d, NoPen), c, z, w, n)
  BY <1>1, PenLeavesIs
<1>5. NoPen \in Pen /\ PenOK(h, NoPen, n) /\ ~Drawing(NoPen) /\ Lifted(h, old, NoPen) /\ w \subseteq y
  BY DEF NoPen, Pen, PenOK, Drawing, Lifted, NoPointer, Without
<1> HIDE DEF e, old, s, h, r, w
<1>6. CASE old.pointer = NoPointer
  <2>1. SlotInv(q, Put(s, h, NoPen), x, n)
    BY <1>1, <1>2, <1>5, <1>6, SlotSet DEF Drawing
  <2>2. Told(q, q, e) /\ e.tool # "Finger" /\ y \subseteq y
    BY <1>2, <1>3 DEF Told
  <2>3. OfPen(a, r, d) /\ r.pens[d] = NoPen
    BY <1>0, <1>4, <1>5, <1>6, <2>1, <2>2, PenResult DEF s, h
  <2>. QED
    BY <2>3 DEF r
<1>7. CASE old.pointer # NoPointer
  <2>1. SlotInv(Append(q, e), Put(s, h, NoPen), z, n)
    BY <1>1, <1>2, <1>3, <1>5, <1>7, SlotEnd DEF Drawing, Ends, Freed
  <2> HIDE DEF z
  <2>2. Told(q, Append(q, e), e) /\ e.tool # "Finger"
    BY <1>2, <1>3, <1>7 DEF Told, Drawing
  <2>3. OfPen(a, r, d) /\ r.pens[d] = NoPen
    BY <1>0, <1>4, <1>5, <1>7, <2>1, <2>2, PenResult DEF s, h
  <2>. QED
    BY <2>3 DEF r
<1>. QED
  BY <1>6, <1>7

LEMMA OfPenOn ==
    ASSUME NEW a, NEW b, NEW r, NEW d, OfPen(a, b, d), OfPen(b, r, d)
    PROVE  OfPen(a, r, d)
<1>1. Follows(a, r)
  BY FollowsOn DEF OfPen
<1>. QED
  BY <1>1 DEF OfPen

\* What a sample of device d makes of its pen.
PenDraws(a, r, d, phase, tool) ==
    /\ OfPen(a, r, d)
    /\ r.pens[d] # NoPen
    /\ r.pens[d].tool = IF a.pens[d] # NoPen THEN a.pens[d].tool ELSE tool
    /\ phase \in Ends => r.pens[d].pointer = NoPointer
    /\ phase # "Down" /\ a.pens[d].pointer = NoPointer => r.pens[d].pointer = NoPointer

LEMMA PenRawKeeps ==
    ASSUME NEW a, AdapterInv(a), NEW d \in Devices, NEW tool \in Tool \ {"Finger"},
           NEW phase \in {"Down", "Move", "Up", "Cancel"}, NEW reading \in Readings
    PROVE  PenDraws(a, PenRaw(a, d, phase, tool, reading), d, phase, tool)
<1> DEFINE b == Entered(a, d, tool)
           r == PenRaw(a, d, phase, tool, reading)
<1>1. /\ OfPen(a, b, d) /\ b.pens[d] # NoPen
      /\ b.pens[d] = IF a.pens[d] # NoPen THEN a.pens[d] ELSE [pointer |-> NoPointer, tool |-> tool]
  BY EnteredKeeps
<1>2. AdapterInv(b)
  BY <1>1 DEF OfPen
<1>3. /\ b.pens[d].tool = IF a.pens[d] # NoPen THEN a.pens[d].tool ELSE tool
      /\ a.pens[d].pointer = NoPointer => b.pens[d].pointer = NoPointer
  BY <1>1
<1>4. r = IF phase = "Down" THEN StartPen(b, d, reading) ELSE ContinuePen(b, d, phase, reading)
  BY Zenon DEF PenRaw
<1> HIDE DEF b, r
<1>5. CASE phase = "Down"
  <2>1. OfPen(b, r, d) /\ r.pens[d] = [pointer |-> b.nextPointer, tool |-> b.pens[d].tool]
    BY <1>1, <1>2, <1>4, <1>5, StartPenKeeps
  <2>2. b.nextPointer # NoPointer
    BY <1>2 DEF AdapterInv, SlotInv, NoPointer
  <2>3. r.pens[d] # NoPen /\ r.pens[d].tool = b.pens[d].tool
    BY <2>1, <2>2 DEF NoPen
  <2>4. OfPen(a, r, d)
    BY <1>1, <2>1, OfPenOn
  <2>. QED
    BY <1>3, <1>5, <2>3, <2>4 DEF PenDraws, Ends, r
<1>6. CASE phase # "Down"
  <2>1. phase \in {"Move", "Up", "Cancel"} /\ r = ContinuePen(b, d, phase, reading)
    BY <1>4, <1>6
  <2>2. /\ OfPen(b, r, d)
        /\ r.pens[d].tool = b.pens[d].tool /\ (b.pens[d] # NoPen => r.pens[d] # NoPen)
        /\ phase \in Ends \/ b.pens[d].pointer = NoPointer => r.pens[d].pointer = NoPointer
    BY <1>2, <2>1, ContinuePenKeeps
  <2>4. OfPen(a, r, d)
    BY <1>1, <2>2, OfPenOn
  <2>. QED
    BY <1>1, <1>3, <1>6, <2>2, <2>4 DEF PenDraws, r
<1>. QED
  BY <1>5, <1>6

\* What the proximity of device d makes of its pen.
PenNears(a, r, d, entering, tool) ==
    /\ OfPen(a, r, d)
    /\ r.pens[d] = IF entering THEN [pointer |-> a.pens[d].pointer, tool |-> tool] ELSE NoPen

LEMMA PenProximityKeeps ==
    ASSUME NEW a, AdapterInv(a), NEW d \in Devices, NEW tool \in Tool \ {"Finger"}, NEW entering,
           entering /\ Drawing(a.pens[d]) => a.pens[d].tool = tool
    PROVE  PenNears(a, PenProximity(a, d, entering, tool), d, entering, tool)
<1> DEFINE r == PenProximity(a, d, entering, tool)
<1>1. r = IF entering THEN PenEnters(a, d, tool) ELSE PenLeaves(a, d)
  BY Zenon DEF PenProximity
<1> HIDE DEF r
<1>2. CASE entering
  <2>1. OfPen(a, r, d) /\ r.pens[d] = [pointer |-> a.pens[d].pointer, tool |-> tool]
    BY <1>1, <1>2, PenEntersKeeps
  <2>. QED
    BY <1>2, <2>1 DEF PenNears, r
<1>3. CASE ~entering
  <2>1. OfPen(a, r, d) /\ r.pens[d] = NoPen
    BY <1>1, <1>3, PenLeavesKeeps
  <2>. QED
    BY <1>3, <2>1 DEF PenNears, r
<1>. QED
  BY <1>2, <1>3

\* What a handler of contact k leaves as it was. Only of a finger is a finger told.
OfContact(a, r, k, tool) ==
    /\ AdapterInv(r)
    /\ tool # "Finger" => Follows(a, r)
    /\ r.pens = a.pens /\ r.pending \subseteq a.pending
    /\ \A j \in Contacts : j # k => r.contacts[j] = a.contacts[j]

LEMMA ContactResult ==
    ASSUME NEW a, NEW q, NEW p, NEW c, NEW x, NEW y, NEW n, Parts(a, q, p, c, x, y, n),
           NEW k \in Contacts, NEW pen \in Pen, NEW e, NEW q2, Told(q, q2, e),
           NEW x2, NEW y2, y2 \subseteq y, NEW n2,
           SlotInv(q2, Put(SlotMap(p, c), <<"contact", k>>, pen), x2, n2)
    PROVE  LET r == Rec(q2, p, Put(c, k, pen), x2, y2, n2)
           IN  OfContact(a, r, k, e.tool) /\ r.contacts[k] = pen
<1> DEFINE C == Put(c, k, pen)
           r == Rec(q2, p, C, x2, y2, n2)
<1>1. /\ p \in [Devices -> Pen] /\ c \in [Contacts -> Pen] /\ q \in Seq(Event)
      /\ a.queue = q /\ a.pens = p /\ a.contacts = c /\ a.pending = y
  BY DEF Parts, SlotInv
<1>2. C[k] = pen /\ \A j \in Contacts : j # k => C[j] = c[j]
  BY <1>1 DEF Put
<1>3. C \in [Contacts -> Pen] /\ SlotMap(p, C) = Put(SlotMap(p, c), <<"contact", k>>, pen)
  BY <1>1, SetContactSlot
<1> HIDE DEF C
<1>4. AdapterInv(r)
  BY <1>1, <1>3, AdapterIs
<1>5. r.queue = q2 /\ r.pens = p /\ r.contacts = C /\ r.pending = y2
  BY Fields
<1> HIDE DEF r
<1>6. e.tool # "Finger" => Follows(a, r)
  BY <1>1, <1>5, FollowsSame, FollowsOne DEF Told
<1>. QED
  BY <1>1, <1>2, <1>4, <1>5, <1>6 DEF OfContact, r, C

LEMMA ContactIs ==
    ASSUME NEW a, NEW q, NEW p, NEW c, NEW x, NEW y, NEW n, Parts(a, q, p, c, x, y, n), NEW k \in Contacts
    PROVE  /\ n \in Nat \ {0} /\ q \in Seq(Event) /\ c[k] \in Pen
           /\ <<"contact", k>> \in Slots /\ SlotMap(p, c)[<<"contact", k>>] = c[k]
           /\ PenOK(<<"contact", k>>, c[k], n)
           /\ c[k] # NoPen => Drawing(c[k]) /\ c[k].tool \in Tool /\ c[k].pointer \in 1 .. n - 1
<1>1. <<"contact", k>> \in Slots /\ SlotMap(p, c)[<<"contact", k>>] = c[k]
  BY SlotsAre
<1>2. /\ c \in [Contacts -> Pen] /\ n \in Nat \ {0} /\ q \in Seq(Event)
      /\ PenOK(<<"contact", k>>, c[k], n)
  BY <1>1 DEF Parts, SlotInv
<1>3. <<"contact", k>>[1] = "contact"
  OBVIOUS
<1>4. c[k] # NoPen => Drawing(c[k]) /\ c[k].tool \in Tool /\ c[k].pointer \in 1 .. n - 1
  BY <1>2, <1>3 DEF PenOK
<1>. QED
  BY <1>1, <1>2, <1>4

LEMMA StartContactKeeps ==
    ASSUME NEW a, AdapterInv(a), NEW k \in Contacts, NEW tool \in Tool, NEW activates,
           activates => tool # "Finger",
           ~activates /\ Drawing(a.contacts[k]) => a.contacts[k].tool = "Finger",
           NEW reading \in Readings, NEW update \in Nat
    PROVE  LET r == StartContact(a, k, tool, activates, reading, update)
           IN  OfContact(a, r, k, tool) /\ r.contacts[k] = [pointer |-> a.nextPointer, tool |-> tool]
<1>0. PICK q, p, c, x, y, n : Parts(a, q, p, c, x, y, n)
  BY PartsAre
<1> DEFINE e == Sample("Down", n, tool, reading, update)
           pen == [pointer |-> n, tool |-> tool]
           z == IF activates THEN n ELSE x
           s == SlotMap(p, c)
           h == <<"contact", k>>
           r == StartContact(a, k, tool, activates, reading, update)
<1>1. a.contacts = c /\ a.nextPointer = n /\ SlotInv(q, s, x, n) /\ a = Rec(q, p, c, x, y, n)
  BY <1>0 DEF Parts
<1>2. /\ n \in Nat \ {0} /\ q \in Seq(Event) /\ c[k] \in Pen
      /\ h \in Slots /\ s[h] = c[k] /\ h[1] # "pen"
  BY <1>0, <1>1, ContactIs
<1>3. pen \in Pen
  BY <1>2 DEF Pen
<1>4. e \in Event /\ e.phase = "Down" /\ e.pointer = n /\ e.tool = tool
  <2>1. "Down" \in Phases /\ n \in Int /\ tool \in Tool \cup {"none"} /\ reading \in Readings /\ update \in Nat
    BY <1>2 DEF Phases
  <2>. QED
    BY <2>1, SampleIs
<1>5. r = Rec(Append(q, e), p, Put(c, k, pen), z, y, n + 1)
  BY <1>1, StartContactIs
<1>6. (z = n /\ e.tool # "Finger") \/ (z = x /\ (Drawing(s[h]) => s[h].tool = "Finger"))
  BY <1>1, <1>2, <1>4
<1> HIDE DEF e, z, s, h, r
<1>7. SlotInv(Append(q, e), Put(s, h, [pointer |-> n, tool |-> e.tool]), z, n + 1)
  BY <1>1, <1>2, <1>4, <1>6, SlotDown
<1>8. SlotInv(Append(q, e), Put(s, h, pen), z, n + 1)
  BY <1>4, <1>7
<1> HIDE DEF pen
<1>9. Told(q, Append(q, e), e) /\ y \subseteq y
  BY <1>4 DEF Told
<1>10. OfContact(a, r, k, e.tool) /\ r.contacts[k] = pen
  BY <1>0, <1>3, <1>5, <1>8, <1>9, ContactResult DEF s, h
<1>. QED
  BY <1>1, <1>4, <1>10 DEF pen, r

LEMMA ContinueContactKeeps ==
    ASSUME NEW a, AdapterInv(a), NEW k \in Contacts, NEW tool,
           NEW phase \in {"Move", "Up", "Cancel"}, NEW reading \in Readings, NEW update \in Nat
    PROVE  LET r == ContinueContact(a, k, phase, tool, reading, update)
           IN  /\ OfContact(a, r, k, a.contacts[k].tool)
               /\ r.contacts[k] = IF phase \in Ends THEN NoPen ELSE a.contacts[k]
<1>0. PICK q, p, c, x, y, n : Parts(a, q, p, c, x, y, n)
  BY PartsAre
<1> DEFINE old == c[k]
           e == Sample(phase, old.pointer, old.tool, reading, update)
           s == SlotMap(p, c)
           h == <<"contact", k>>
           r == ContinueContact(a, k, phase, tool, reading, update)
           z == Freed(x, old.pointer)
<1>1. /\ a.contacts = c /\ SlotInv(q, s, x, n) /\ a = Rec(q, p, c, x, y, n)
      /\ c \in [Contacts -> Pen] /\ s \in [Slots -> Pen]
  BY <1>0 DEF Parts, SlotInv
<1>2. /\ n \in Nat \ {0} /\ q \in Seq(Event) /\ old \in Pen
      /\ h \in Slots /\ s[h] = old
      /\ old # NoPen => Drawing(old) /\ old.tool \in Tool /\ old.pointer \in 1 .. n - 1
  BY <1>0, ContactIs
<1>3. Put(c, k, old) = c /\ Put(s, h, old) = s
  BY <1>1, <1>2 DEF Put
<1>4. NoPen \in Pen /\ Lifted(h, old, NoPen)
  BY DEF NoPen, Pen, Lifted, NoPointer
<1>5. e.phase = phase /\ e.pointer = old.pointer /\ e.tool = old.tool
      /\ (old # NoPen => e \in Event)
  <2>1. phase \in Phases /\ reading \in Readings /\ update \in Nat
    BY DEF Phases
  <2>2. old.pointer \in Int /\ old.tool \in Tool \cup {"none"}
    BY <1>2 DEF Pen
  <2>. QED
    BY <2>1, <2>2, SampleIs
<1>6. r = IF old = NoPen
          THEN Rec(q, p, c, x, y, n)
          ELSE IF phase \in Ends
          THEN Rec(Append(q, e), p, Put(c, k, NoPen), z, y, n)
          ELSE Rec(Append(q, e), p, c, x, y, n)
  BY <1>1, ContinueContactIs
<1> HIDE DEF e, old, s, h, r
<1>7. CASE old = NoPen
  <2>1. r = Rec(q, p, Put(c, k, old), x, y, n) /\ SlotInv(q, Put(s, h, old), x, n)
    BY <1>1, <1>3, <1>6, <1>7
  <2>2. Told(q, q, e) /\ y \subseteq y
    BY DEF Told
  <2>3. OfContact(a, r, k, e.tool) /\ r.contacts[k] = old
    BY <1>0, <1>2, <2>1, <2>2, ContactResult DEF s, h
  <2>. QED
    BY <1>1, <1>5, <1>7, <2>3 DEF r, old
<1>8. CASE old # NoPen /\ phase \in Ends
  <2>1. r = Rec(Append(q, e), p, Put(c, k, NoPen), z, y, n)
    BY <1>6, <1>8
  <2>2. SlotInv(Append(q, e), Put(s, h, NoPen), z, n)
    BY <1>1, <1>2, <1>4, <1>5, <1>8, SlotEnd DEF Freed
  <2> HIDE DEF z
  <2>3. Told(q, Append(q, e), e) /\ y \subseteq y
    BY <1>5, <1>8 DEF Told
  <2>4. OfContact(a, r, k, e.tool) /\ r.contacts[k] = NoPen
    BY <1>0, <1>4, <2>1, <2>2, <2>3, ContactResult DEF s, h
  <2>. QED
    BY <1>1, <1>5, <1>8, <2>4 DEF r, old
<1>9. CASE old # NoPen /\ phase \notin Ends
  <2>1. r = Rec(Append(q, e), p, Put(c, k, old), x, y, n)
    BY <1>3, <1>6, <1>9
  <2>2. phase = "Move"
    BY <1>9 DEF Ends
  <2>3. SlotInv(Append(q, e), s, x, n)
    BY <1>1, <1>2, <1>5, <1>9, <2>2, SlotMove
  <2>4. Told(q, Append(q, e), e) /\ y \subseteq y
    BY <1>5, <1>9 DEF Told
  <2>5. OfContact(a, r, k, e.tool) /\ r.contacts[k] = old
    BY <1>0, <1>2, <1>3, <2>1, <2>3, <2>4, ContactResult DEF s, h
  <2>. QED
    BY <1>1, <1>5, <1>9, <2>5 DEF r, old
<1>. QED
  BY <1>7, <1>8, <1>9 DEF r

LEMMA ContactLeavesKeeps ==
    ASSUME NEW a, AdapterInv(a), NEW k \in Contacts
    PROVE  LET r == ContactLeaves(a, k)
           IN  OfContact(a, r, k, a.contacts[k].tool) /\ r.contacts[k] = NoPen
<1>0. PICK q, p, c, x, y, n : Parts(a, q, p, c, x, y, n)
  BY PartsAre
<1> DEFINE old == c[k]
           e == Sample("Cancel", old.pointer, old.tool, 0, 0)
           s == SlotMap(p, c)
           h == <<"contact", k>>
           r == ContactLeaves(a, k)
           z == Freed(x, old.pointer)
           w == Without(y, old.pointer)
<1>1. /\ a.contacts = c /\ SlotInv(q, s, x, n) /\ a = Rec(q, p, c, x, y, n)
      /\ c \in [Contacts -> Pen] /\ s \in [Slots -> Pen]
  BY <1>0 DEF Parts, SlotInv
<1>2. /\ n \in Nat \ {0} /\ q \in Seq(Event) /\ old \in Pen
      /\ h \in Slots /\ s[h] = old
      /\ old # NoPen => Drawing(old) /\ old.tool \in Tool /\ old.pointer \in 1 .. n - 1
  BY <1>0, ContactIs
<1>3. Put(c, k, old) = c /\ Put(s, h, old) = s
  BY <1>1, <1>2 DEF Put
<1>4. NoPen \in Pen /\ Lifted(h, old, NoPen) /\ w \subseteq y
  BY DEF NoPen, Pen, Lifted, NoPointer, Without
<1>5. e.phase = "Cancel" /\ e.pointer = old.pointer /\ e.tool = old.tool
      /\ (old # NoPen => e \in Event)
  <2>1. "Cancel" \in Phases /\ 0 \in Readings /\ 0 \in Nat
    BY DEF Phases, Readings
  <2>2. old.pointer \in Int /\ old.tool \in Tool \cup {"none"}
    BY <1>2 DEF Pen
  <2>. QED
    BY <2>1, <2>2, SampleIs
<1>6. r = IF old = NoPen THEN Rec(q, p, c, x, y, n)
          ELSE Rec(Append(q, e), p, Put(c, k, NoPen), z, w, n)
  BY <1>1, ContactLeavesIs
<1> HIDE DEF e, old, s, h, r, w
<1>7. CASE old = NoPen
  <2>1. r = Rec(q, p, Put(c, k, old), x, y, n) /\ SlotInv(q, Put(s, h, old), x, n)
    BY <1>1, <1>3, <1>6, <1>7
  <2>2. Told(q, q, e) /\ y \subseteq y
    BY DEF Told
  <2>3. OfContact(a, r, k, e.tool) /\ r.contacts[k] = old
    BY <1>0, <1>2, <2>1, <2>2, ContactResult DEF s, h
  <2>. QED
    BY <1>1, <1>5, <1>7, <2>3 DEF r, old
<1>8. CASE old # NoPen
  <2>1. r = Rec(Append(q, e), p, Put(c, k, NoPen), z, w, n)
    BY <1>6, <1>8
  <2>2. SlotInv(Append(q, e), Put(s, h, NoPen), z, n)
    BY <1>1, <1>2, <1>4, <1>5, <1>8, SlotEnd DEF Ends, Freed
  <2> HIDE DEF z
  <2>3. Told(q, Append(q, e), e)
    BY <1>5, <1>8 DEF Told
  <2>4. OfContact(a, r, k, e.tool) /\ r.contacts[k] = NoPen
    BY <1>0, <1>4, <2>1, <2>2, <2>3, ContactResult DEF s, h
  <2>. QED
    BY <1>1, <1>5, <1>8, <2>4 DEF r, old
<1>. QED
  BY <1>7, <1>8

\* What is told of no gesture changes nothing else.
Aside(a, r, tool) ==
    /\ AdapterInv(r)
    /\ tool # "Finger" => Follows(a, r)
    /\ r.pens = a.pens /\ r.contacts = a.contacts /\ r.pending = a.pending
    /\ r.nextPointer = a.nextPointer

LEMMA AsideKeeps ==
    ASSUME NEW a, AdapterInv(a), NEW phase \in Phases, NEW pointer \in Int, NEW tool \in Tool \cup {"none"},
           NEW reading \in Readings, NEW update \in Nat,
           phase = "Revise" \/ pointer \in {Mouse, NoPointer}, pointer < a.nextPointer
    PROVE  LET r == Emit(a, phase, pointer, tool, reading, update)
           IN  Aside(a, r, tool) /\ r.queue = Append(a.queue, Sample(phase, pointer, tool, reading, update))
<1>0. PICK q, p, c, x, y, n : Parts(a, q, p, c, x, y, n)
  BY PartsAre
<1> DEFINE e == Sample(phase, pointer, tool, reading, update)
           r == Emit(a, phase, pointer, tool, reading, update)
           s == SlotMap(p, c)
<1>1. /\ SlotInv(q, s, x, n) /\ a = Rec(q, p, c, x, y, n)
      /\ a.queue = q /\ a.pens = p /\ a.contacts = c /\ a.pending = y /\ a.nextPointer = n
      /\ p \in [Devices -> Pen] /\ c \in [Contacts -> Pen] /\ q \in Seq(Event)
  BY <1>0 DEF Parts, SlotInv
<1>2. e.phase = phase /\ e.pointer = pointer /\ e.tool = tool /\ e \in Event
  BY SampleIs
<1>3. r = Rec(Append(q, e), p, c, x, y, n)
  BY <1>1, EmitIs
<1>4. r.queue = Append(q, e) /\ r.pens = p /\ r.contacts = c /\ r.pending = y /\ r.nextPointer = n
  <2> DEFINE q2 == Append(q, e)
  <2>1. r = Rec(q2, p, c, x, y, n)
    BY <1>3
  <2> HIDE DEF q2, e, r, s
  <2>2. r.queue = q2 /\ r.pens = p /\ r.contacts = c /\ r.pending = y /\ r.nextPointer = n
    BY <2>1, Fields
  <2>. QED
    BY <2>2 DEF q2
<1> HIDE DEF e, r, s
<1>5. SlotInv(Append(q, e), s, x, n)
  BY <1>1, <1>2, SlotAside
<1>6. AdapterInv(r)
  BY <1>1, <1>3, <1>5, AdapterIs DEF s
<1>7. tool # "Finger" => Follows(a, r)
  BY <1>1, <1>2, <1>4, FollowsOne
<1>. QED
  BY <1>1, <1>4, <1>6, <1>7 DEF Aside, r, e

LEMMA HoverKeeps ==
    ASSUME NEW a, AdapterInv(a), NEW tool \in Tool, NEW reading \in Readings
    PROVE  Aside(a, Hover(a, tool, reading), tool)
<1>1. "Hover" \in Phases /\ Mouse \in Int /\ tool \in Tool \cup {"none"} /\ 0 \in Nat /\ Mouse \in {Mouse, NoPointer}
  BY DEF Phases, Mouse
<1>2. Mouse < a.nextPointer
  BY DEF AdapterInv, SlotInv, Mouse
<1>3. Aside(a, Emit(a, "Hover", Mouse, tool, reading, 0), tool)
  BY <1>1, <1>2, AsideKeeps
<1>. QED
  BY <1>3 DEF Hover

\* The updates that are awaited are no part of the gestures.
LEMMA PendingIsFree ==
    ASSUME NEW a, AdapterInv(a), NEW v
    PROVE  LET r == [a EXCEPT !.pending = v]
           IN  /\ AdapterInv(r) /\ r.pending = v
               /\ r.queue = a.queue /\ r.pens = a.pens /\ r.contacts = a.contacts
               /\ r.nextPointer = a.nextPointer
<1>0. PICK q, p, c, x, y, n : Parts(a, q, p, c, x, y, n)
  BY PartsAre
<1> DEFINE r == [a EXCEPT !.pending = v]
<1>1. /\ SlotInv(q, SlotMap(p, c), x, n) /\ a = Rec(q, p, c, x, y, n)
      /\ a.queue = q /\ a.pens = p /\ a.contacts = c /\ a.nextPointer = n
      /\ p \in [Devices -> Pen] /\ c \in [Contacts -> Pen]
  BY <1>0 DEF Parts
<1>2. [Rec(q, p, c, x, y, n) EXCEPT !.pending = v] = Rec(q, p, c, x, v, n)
  BY Updated
<1>3. r = Rec(q, p, c, x, v, n)
  BY <1>1, <1>2
<1> HIDE DEF r
<1>4. AdapterInv(r)
  BY <1>1, <1>3, AdapterIs
<1>5. r.queue = q /\ r.pens = p /\ r.contacts = c /\ r.pending = v /\ r.nextPointer = n
  BY <1>3, Fields
<1>. QED
  BY <1>1, <1>4, <1>5 DEF r

(***************************************************************************)
(* What the invariant of the adapter says.                                 *)
(***************************************************************************)
LEMMA SamplesAre ==
    ASSUME NEW p
    PROVE  SamplesOf(p) = SamplesIn(adapter.queue, p)
BY DEF SamplesOf, SamplesIn

LEMMA AdapterIsWhole ==
    ASSUME AdapterInv(adapter)
    PROVE  GesturesAreWhole
<1>1. \A p \in 1 .. adapter.nextPointer - 1 : Whole(adapter.queue, p)
  BY DEF AdapterInv, SlotInv
<1>2. SUFFICES ASSUME NEW p \in Pointers, NEW i \in SamplesOf(p)
               PROVE  /\ \A j \in SamplesOf(p) : adapter.queue[i].tool = adapter.queue[j].tool
                      /\ (adapter.queue[i].phase = "Down") = (\A j \in SamplesOf(p) : i <= j)
                      /\ adapter.queue[i].phase \in Ends => \A j \in SamplesOf(p) : j <= i
  BY Zenon DEF GesturesAreWhole
<1> DEFINE q == adapter.queue
           A == SamplesOf(p)
<1>3. /\ \A j \in A : q[i].tool = q[j].tool
      /\ (q[i].phase = "Down" <=> \A j \in A : i <= j)
      /\ q[i].phase \in Ends => \A j \in A : j <= i
  BY <1>1, SamplesAre DEF Pointers, Whole
<1> HIDE DEF q, A
<1>4. (q[i].phase = "Down") = (\A j \in A : i <= j)
  BY <1>3, Zenon
<1>. QED
  BY <1>3, <1>4, Zenon DEF q, A

LEMMA AdapterPens ==
    ASSUME AdapterInv(adapter)
    PROVE  /\ DOMAIN adapter.pens = Devices
           /\ \A d \in Devices : PenOK(<<"pen", d>>, adapter.pens[d], adapter.nextPointer)
           /\ \A c \in Contacts : PenOK(<<"contact", c>>, adapter.contacts[c], adapter.nextPointer)
           /\ \A d \in Devices : Drawing(adapter.pens[d]) => Open(adapter.queue, adapter.pens[d])
           /\ \A c \in Contacts : Drawing(adapter.contacts[c]) => Open(adapter.queue, adapter.contacts[c])
           /\ \/ adapter.activePen = NoPointer
              \/ \E d \in Devices : Drawing(adapter.pens[d]) /\ adapter.pens[d].pointer = adapter.activePen
              \/ \E c \in Contacts : Drawing(adapter.contacts[c]) /\ adapter.contacts[c].pointer = adapter.activePen
<1>0. PICK q, p, c, x, y, n : Parts(adapter, q, p, c, x, y, n)
  BY PartsAre
<1> DEFINE s == SlotMap(p, c)
<1>1. /\ SlotInv(q, s, x, n) /\ p \in [Devices -> Pen] /\ c \in [Contacts -> Pen]
      /\ adapter.queue = q /\ adapter.pens = p /\ adapter.contacts = c /\ adapter.nextPointer = n
      /\ adapter.activePen = x
  BY <1>0 DEF Parts
<1>2. /\ \A d \in Devices : <<"pen", d>> \in Slots /\ s[<<"pen", d>>] = p[d]
      /\ \A k \in Contacts : <<"contact", k>> \in Slots /\ s[<<"contact", k>>] = c[k]
      /\ \A h \in Slots : \/ \E d \in Devices : h = <<"pen", d>>
                          \/ \E k \in Contacts : h = <<"contact", k>>
  BY SlotsAre
<1> HIDE DEF s
<1>3. /\ \A h \in Slots : PenOK(h, s[h], n)
      /\ \A h \in Slots : Drawing(s[h]) => Open(q, s[h])
      /\ x = NoPointer \/ \E h \in Slots : Drawing(s[h]) /\ s[h].pointer = x
  BY <1>1 DEF SlotInv
<1>4. /\ \A d \in Devices : PenOK(<<"pen", d>>, p[d], n) /\ (Drawing(p[d]) => Open(q, p[d]))
      /\ \A k \in Contacts : PenOK(<<"contact", k>>, c[k], n) /\ (Drawing(c[k]) => Open(q, c[k]))
  BY <1>2, <1>3
<1>5. \/ x = NoPointer
      \/ \E d \in Devices : Drawing(p[d]) /\ p[d].pointer = x
      \/ \E k \in Contacts : Drawing(c[k]) /\ c[k].pointer = x
  BY <1>2, <1>3
<1>. QED
  BY <1>1, <1>4, <1>5

LEMMA AdapterIsHeld ==
    ASSUME AdapterInv(adapter)
    PROVE  ActivePenDraws /\ HeldIsOpen
<1>1. /\ DOMAIN adapter.pens = Devices
      /\ \A d \in Devices : Drawing(adapter.pens[d]) => Open(adapter.queue, adapter.pens[d])
      /\ \A c \in Contacts : Drawing(adapter.contacts[c]) => Open(adapter.queue, adapter.contacts[c])
      /\ \/ adapter.activePen = NoPointer
         \/ \E d \in Devices : Drawing(adapter.pens[d]) /\ adapter.pens[d].pointer = adapter.activePen
         \/ \E c \in Contacts : Drawing(adapter.contacts[c]) /\ adapter.contacts[c].pointer = adapter.activePen
  BY AdapterPens
<1>2. ActivePenDraws
  BY <1>1 DEF ActivePenDraws, Held
<1>3. ASSUME NEW p \in Held \cap Pointers
      PROVE  \A i \in SamplesOf(p) : adapter.queue[i].phase \notin Ends
  <2>1. p # NoPointer
    BY <1>3 DEF Pointers, NoPointer, AdapterInv, SlotInv
  <2>2. \E pen : pen.pointer = p /\ Open(adapter.queue, pen)
    BY <1>1, <1>3, <2>1 DEF Held, Drawing
  <2>. QED
    BY <2>2, SamplesAre DEF Open
<1>. QED
  BY <1>2, <1>3 DEF HeldIsOpen

LEMMA AdapterTyped ==
    ASSUME AdapterInv(adapter)
    PROVE  /\ adapter.pens \in [DOMAIN adapter.pens -> Entry(Pointers)]
           /\ adapter.contacts \in [Contacts -> Entry(Pointers)]
           /\ adapter.activePen \in Pointers \cup {NoPointer}
<1>1. adapter.pens \in [Devices -> Pen] /\ adapter.contacts \in [Contacts -> Pen]
  BY DEF AdapterInv
<1>2. /\ DOMAIN adapter.pens = Devices
      /\ \A d \in Devices : PenOK(<<"pen", d>>, adapter.pens[d], adapter.nextPointer)
      /\ \A c \in Contacts : PenOK(<<"contact", c>>, adapter.contacts[c], adapter.nextPointer)
      /\ \/ adapter.activePen = NoPointer
         \/ \E d \in Devices : Drawing(adapter.pens[d]) /\ adapter.pens[d].pointer = adapter.activePen
         \/ \E c \in Contacts : Drawing(adapter.contacts[c]) /\ adapter.contacts[c].pointer = adapter.activePen
  BY AdapterPens
<1>3. \A h, pen : PenOK(h, pen, adapter.nextPointer) => pen \in Entry(Pointers)
  BY DEF PenOK, Entry, Pointers, Drawing, Pen
<1>4. adapter.activePen \in Pointers \cup {NoPointer}
  BY <1>2 DEF PenOK, Pointers
<1>. QED
  BY <1>1, <1>2, <1>3, <1>4

LEMMA OfPenSame ==
    ASSUME NEW a, AdapterInv(a), NEW d
    PROVE  OfPen(a, a, d)
<1>1. a.queue \in Seq(Event)
  BY DEF AdapterInv, SlotInv
<1>. QED
  BY <1>1, FollowsSame DEF OfPen

(***************************************************************************)
(* Wayland.                                                                *)
(***************************************************************************)
WaylandHand == [where : {"away", "near", "removed"}, down : BOOLEAN, described : BOOLEAN]

\* Of one tool: `t' is its entry, `h' what the compositor knows of it and `pen'
\* the adapter's. A tool that was flushed has its kind; a tool that is away
\* draws nothing, or its leave is pending, and no Down is pending with it.
WaylandTool(d, t, h, pen) ==
    /\ t \in Wayland!Entry /\ h \in WaylandHand
    /\ h.where # "removed" /\ h.described => t.kind = Wayland!Kind(d)
    /\ t.done => t.kind = Wayland!Kind(d)
    /\ pen # NoPen => pen.tool = Wayland!Kind(d)
    /\ ~t.done => pen.pointer = NoPointer
    /\ ~h.down => t.pending.phase # "Down"
    /\ h.where # "near" => ~h.down
    /\ h.where # "near" /\ ~t.pending.leave => pen.pointer = NoPointer

WaylandInv ==
    /\ AdapterInv(adapter) /\ adapter.pending = {}
    /\ Wayland!BackendOK
    /\ hand \in [Tools -> WaylandHand]
    /\ \A d \in Tools : WaylandTool(d, Wayland!Tracked(d), hand[d], adapter.pens[d])

LEMMA WaylandEntry ==
    ASSUME NEW t \in Wayland!Entry
    PROVE  t # Wayland!NoTool
<1>1. t.tracked = TRUE
  BY DEF Wayland!Entry
<1>. QED
  BY <1>1 DEF Wayland!NoTool

LEMMA WaylandKind ==
    ASSUME NEW t \in Wayland!Entry, NEW kind \in Tool
    PROVE  LET r == [t EXCEPT !.kind = kind]
           IN  r \in Wayland!Entry /\ r.kind = kind /\ r.done = t.done /\ r.pending = t.pending
<1> DEFINE r == [t EXCEPT !.kind = kind]
<1>1. r \in Wayland!Entry
  BY DEF Wayland!Entry, Wayland!Tool, Tool
<1>2. r.kind = kind /\ r.done = t.done /\ r.pending = t.pending
  BY DEF Wayland!Entry
<1>. QED
  BY <1>1, <1>2

LEMMA WaylandDone ==
    ASSUME NEW t \in Wayland!Entry
    PROVE  LET r == [t EXCEPT !.done = TRUE]
           IN  r \in Wayland!Entry /\ r.done /\ r.kind = t.kind /\ r.pending = t.pending
BY DEF Wayland!Entry

WaylandPending == [phase : {"none", "Down", "Move", "Up"}, placed : BOOLEAN,
                   reading : 0 .. 1, enter : BOOLEAN, leave : BOOLEAN]

LEMMA WaylandPend ==
    ASSUME NEW t \in Wayland!Entry, NEW p \in WaylandPending
    PROVE  LET r == [t EXCEPT !.pending = p]
           IN  r \in Wayland!Entry /\ r.kind = t.kind /\ r.done = t.done /\ r.pending = p
BY DEF Wayland!Entry, WaylandPending

LEMMA WaylandAxes ==
    ASSUME NEW t \in Wayland!Entry
    PROVE  t.pending \in WaylandPending
BY DEF Wayland!Entry, WaylandPending

LEMMA WaylandHandIs ==
    ASSUME NEW h \in WaylandHand
    PROVE  /\ LET r == [h EXCEPT !.described = TRUE]
              IN  r \in WaylandHand /\ r.where = h.where /\ r.down = h.down
           /\ \A w \in {"away", "near", "removed"} :
                 LET r == [h EXCEPT !.where = w]
                 IN  r \in WaylandHand /\ r.where = w /\ r.down = h.down /\ r.described = h.described
           /\ \A v \in BOOLEAN :
                 LET r == [h EXCEPT !.down = v]
                 IN  r \in WaylandHand /\ r.where = h.where /\ (r.down <=> v) /\ r.described = h.described
BY DEF WaylandHand

LEMMA WaylandStep ==
    ASSUME WaylandInv, NEW d \in Tools, NEW b \in Wayland!Entry \cup {Wayland!NoTool}, NEW h,
           backend' = [backend EXCEPT ![d] = b],
           hand' = [hand EXCEPT ![d] = h],
           OfPen(adapter, adapter', d),
           WaylandTool(d, IF b = Wayland!NoTool THEN Wayland!NewTool ELSE b, h, adapter'.pens[d])
    PROVE  WaylandInv'
<1>1. /\ backend \in [Tools -> Wayland!Entry \cup {Wayland!NoTool}]
      /\ hand \in [Tools -> WaylandHand]
      /\ h \in WaylandHand
  BY Zenon DEF WaylandInv, Wayland!BackendOK, WaylandTool
<1>2. /\ backend' \in [Tools -> Wayland!Entry \cup {Wayland!NoTool}]
      /\ hand' \in [Tools -> WaylandHand]
      /\ backend'[d] = b /\ hand'[d] = h
      /\ \A k \in Tools : k # d => backend'[k] = backend[k] /\ hand'[k] = hand[k]
  BY <1>1
<1>3. AdapterInv(adapter') /\ adapter'.pending = {} /\ \A k \in Devices : k # d => adapter'.pens[k] = adapter.pens[k]
  BY DEF OfPen, WaylandInv
<1>4. ASSUME NEW k \in Tools
      PROVE  WaylandTool(k, Wayland!Tracked(k)', hand'[k], adapter'.pens[k])
  <2>1. CASE k = d
    <3>1. Wayland!Tracked(k)' = IF b = Wayland!NoTool THEN Wayland!NewTool ELSE b
      BY <1>2, <2>1 DEF Wayland!Tracked
    <3>. QED
      BY <1>2, <2>1, <3>1
  <2>2. CASE k # d
    <3>1. Wayland!Tracked(k)' = Wayland!Tracked(k)
      BY <1>2, <2>2 DEF Wayland!Tracked
    <3>2. k \in Devices
      BY TabletAssumption
    <3>3. hand'[k] = hand[k] /\ adapter'.pens[k] = adapter.pens[k]
      BY <1>2, <1>3, <2>2, <3>2
    <3>. QED
      BY <3>1, <3>3 DEF WaylandInv
  <2>. QED
    BY <2>1, <2>2
<1>. QED
  BY <1>2, <1>3, <1>4 DEF WaylandInv, Wayland!BackendOK

\* An event that is only noted.
LEMMA WaylandNote ==
    ASSUME WaylandInv, NEW d \in Tools, NEW t, NEW h,
           Wayland!Note(d, t), hand' = [hand EXCEPT ![d] = h],
           WaylandTool(d, t, h, adapter.pens[d])
    PROVE  WaylandInv'
<1>1. t \in Wayland!Entry /\ t # Wayland!NoTool
  BY WaylandEntry DEF WaylandTool
<1>2. backend' = [backend EXCEPT ![d] = t] /\ adapter' = adapter
  BY DEF Wayland!Note
<1>3. OfPen(adapter, adapter', d)
  BY <1>2, OfPenSame DEF WaylandInv
<1>. QED
  BY <1>1, <1>2, <1>3, WaylandStep

LEMMA WaylandToolIs ==
    ASSUME WaylandInv, NEW d \in Tools
    PROVE  /\ WaylandTool(d, Wayland!Tracked(d), hand[d], adapter.pens[d])
           /\ hand = [hand EXCEPT ![d] = hand[d]]
BY DEF WaylandInv

\* A tool's entry and what is known of it change; its pen does not.
LEMMA WaylandPends ==
    ASSUME WaylandInv, NEW d \in Tools, NEW p \in WaylandPending, NEW h \in WaylandHand,
           Wayland!Pend(d, p), hand' = [hand EXCEPT ![d] = h],
           hand[d].where # "removed", h.where # "removed", h.described <=> hand[d].described,
           ~h.down => p.phase # "Down",
           h.where # "near" => ~h.down /\ p.leave
    PROVE  WaylandInv'
<1> DEFINE t == Wayland!Tracked(d)
           r == [t EXCEPT !.pending = p]
<1>1. WaylandTool(d, t, hand[d], adapter.pens[d])
  BY WaylandToolIs
<1>2. t \in Wayland!Entry
  BY <1>1 DEF WaylandTool
<1>3. r \in Wayland!Entry /\ r.kind = t.kind /\ r.done = t.done /\ r.pending = p
  BY <1>2, WaylandPend
<1>4. Wayland!Note(d, r)
  BY DEF Wayland!Pend
<1> HIDE DEF t, r
<1>5. WaylandTool(d, r, h, adapter.pens[d])
  BY <1>1, <1>3 DEF WaylandTool
<1>. QED
  BY <1>4, <1>5, WaylandNote

LEMMA WaylandDescribed ==
    ASSUME WaylandInv, NEW d \in Tools, Wayland!Type(d) \/ Wayland!Done(d)
    PROVE  WaylandInv'
<1> DEFINE t == Wayland!Tracked(d)
           h == hand[d]
           pen == adapter.pens[d]
<1>0. WaylandTool(d, t, h, pen) /\ hand = [hand EXCEPT ![d] = h]
  BY WaylandToolIs
<1>1. t \in Wayland!Entry /\ h \in WaylandHand
  BY <1>0 DEF WaylandTool
<1>2. CASE Wayland!Type(d)
  <2> DEFINE r == [t EXCEPT !.kind = Wayland!Kind(d)]
             g == [h EXCEPT !.described = TRUE]
  <2>1. Wayland!Note(d, r) /\ hand' = [hand EXCEPT ![d] = g]
    BY <1>2 DEF Wayland!Type
  <2>2. r \in Wayland!Entry /\ r.kind = Wayland!Kind(d) /\ r.done = t.done /\ r.pending = t.pending
    <3>1. Wayland!Kind(d) \in Tool
      BY DEF Wayland!Kind, Tool
    <3>. QED
      BY <1>1, <3>1, WaylandKind
  <2>3. g \in WaylandHand /\ g.where = h.where /\ g.down = h.down
    BY <1>1, WaylandHandIs
  <2> HIDE DEF t, h, r, g
  <2>4. WaylandTool(d, r, g, pen)
    BY <1>0, <2>2, <2>3 DEF WaylandTool
  <2>. QED
    BY <2>1, <2>4, WaylandNote
<1>3. CASE Wayland!Done(d)
  <2> DEFINE r == [t EXCEPT !.done = TRUE]
  <2>1. Wayland!Note(d, r) /\ hand' = hand /\ h.where # "removed" /\ h.described
    BY <1>3 DEF Wayland!Done
  <2>2. r \in Wayland!Entry /\ r.done /\ r.kind = t.kind /\ r.pending = t.pending
    BY <1>1, WaylandDone
  <2> HIDE DEF t, h, r
  <2>3. WaylandTool(d, r, h, pen)
    BY <1>0, <2>1, <2>2 DEF WaylandTool
  <2>4. hand' = [hand EXCEPT ![d] = h]
    BY <1>0, <2>1
  <2>. QED
    BY <2>1, <2>3, <2>4, WaylandNote
<1>. QED
  BY <1>2, <1>3

LEMMA WaylandGestures ==
    ASSUME WaylandInv, NEW d \in Tools,
           \/ Wayland!ProximityIn(d) \/ Wayland!ProximityOut(d)
           \/ Wayland!Down(d) \/ Wayland!Up(d) \/ Wayland!Motion(d) \/ Wayland!Axis(d)
    PROVE  WaylandInv'
<1> DEFINE t == Wayland!Tracked(d)
           h == hand[d]
           p == t.pending
<1>0. WaylandTool(d, t, h, adapter.pens[d]) /\ hand = [hand EXCEPT ![d] = h]
  BY WaylandToolIs
<1>1. t \in Wayland!Entry /\ h \in WaylandHand /\ (~h.down => p.phase # "Down") /\ (h.where # "near" => ~h.down)
  BY <1>0 DEF WaylandTool
<1>2. p \in WaylandPending
  BY <1>1, WaylandAxes
<1>3. /\ \A w \in {"away", "near", "removed"} :
            LET r == [h EXCEPT !.where = w]
            IN  r \in WaylandHand /\ r.where = w /\ r.down = h.down /\ r.described = h.described
      /\ \A v \in BOOLEAN :
            LET r == [h EXCEPT !.down = v]
            IN  r \in WaylandHand /\ r.where = h.where /\ (r.down <=> v) /\ r.described = h.described
  BY <1>1, WaylandHandIs
<1> HIDE DEF t
<1>4. CASE Wayland!ProximityIn(d)
  <2> DEFINE s == [p EXCEPT !.enter = TRUE]
             g == [h EXCEPT !.where = "near"]
  <2>1. Wayland!Pend(d, s) /\ hand' = [hand EXCEPT ![d] = g] /\ h.where = "away"
    BY <1>4 DEF Wayland!ProximityIn, t
  <2>2. s \in WaylandPending /\ s.phase = p.phase
    BY <1>2 DEF WaylandPending
  <2>3. g \in WaylandHand /\ g.where = "near" /\ g.down = h.down /\ g.described = h.described
    BY <1>3
  <2> HIDE DEF p, s, g
  <2>. QED
    BY <1>1, <2>1, <2>2, <2>3, WaylandPends
<1>5. CASE Wayland!ProximityOut(d)
  <2> DEFINE s == [p EXCEPT !.leave = TRUE]
             g == [h EXCEPT !.where = "away"]
  <2>1. Wayland!Pend(d, s) /\ hand' = [hand EXCEPT ![d] = g] /\ h.where = "near" /\ ~h.down
    BY <1>5 DEF Wayland!ProximityOut, t
  <2>2. s \in WaylandPending /\ s.phase = p.phase /\ s.leave
    BY <1>2 DEF WaylandPending
  <2>3. g \in WaylandHand /\ g.where = "away" /\ g.down = h.down /\ g.described = h.described
    BY <1>3
  <2> HIDE DEF p, s, g
  <2>. QED
    BY <1>1, <2>1, <2>2, <2>3, WaylandPends
<1>6. CASE Wayland!Down(d)
  <2> DEFINE s == [p EXCEPT !.phase = "Down"]
             g == [h EXCEPT !.down = TRUE]
  <2>1. Wayland!Pend(d, s) /\ hand' = [hand EXCEPT ![d] = g] /\ h.where = "near"
    BY <1>6 DEF Wayland!Down, t
  <2>2. s \in WaylandPending
    BY <1>2 DEF WaylandPending
  <2>3. g \in WaylandHand /\ g.where = h.where /\ g.down /\ g.described = h.described
    BY <1>3
  <2> HIDE DEF p, s, g
  <2>. QED
    BY <1>1, <2>1, <2>2, <2>3, WaylandPends
<1>7. CASE Wayland!Up(d)
  <2> DEFINE s == [p EXCEPT !.phase = "Up"]
             g == [h EXCEPT !.down = FALSE]
  <2>1. Wayland!Pend(d, s) /\ hand' = [hand EXCEPT ![d] = g] /\ h.down
    BY <1>7 DEF Wayland!Up, t
  <2>2. s \in WaylandPending /\ s.phase = "Up"
    BY <1>2 DEF WaylandPending
  <2>3. g \in WaylandHand /\ g.where = h.where /\ ~g.down /\ g.described = h.described
    BY <1>3
  <2>4. h.where = "near"
    BY <1>1, <2>1
  <2> HIDE DEF p, s, g
  <2>. QED
    BY <1>1, <2>1, <2>2, <2>3, <2>4, WaylandPends
<1>8. CASE Wayland!Motion(d)
  <2> DEFINE s == [p EXCEPT !.placed = TRUE, !.phase = IF @ = "none" THEN "Move" ELSE @]
  <2>1. Wayland!Pend(d, s) /\ hand' = hand /\ h.where = "near"
    BY <1>8 DEF Wayland!Motion, t
  <2>2. s \in WaylandPending /\ (p.phase # "Down" => s.phase # "Down")
    BY <1>2 DEF WaylandPending
  <2>3. hand' = [hand EXCEPT ![d] = h]
    BY <1>0, <2>1
  <2> HIDE DEF p, s
  <2>. QED
    BY <1>1, <2>1, <2>2, <2>3, WaylandPends
<1>9. CASE Wayland!Axis(d)
  <2> DEFINE s == [p EXCEPT !.reading = 1]
  <2>1. Wayland!Pend(d, s) /\ hand' = hand /\ h.where = "near"
    BY <1>9 DEF Wayland!Axis, t
  <2>2. s \in WaylandPending /\ s.phase = p.phase
    BY <1>2 DEF WaylandPending
  <2>3. hand' = [hand EXCEPT ![d] = h]
    BY <1>0, <2>1
  <2> HIDE DEF p, s
  <2>. QED
    BY <1>1, <2>1, <2>2, <2>3, WaylandPends
<1>. QED
  BY <1>4, <1>5, <1>6, <1>7, <1>8, <1>9

\* The adapter's operators are its own on every platform.
LEMMA OnWayland ==
    /\ Wayland!NewAdapter = NewAdapter
    /\ \A a, d, phase, tool, reading :
          Wayland!HandleWaylandRaw(a, d, phase, tool, reading) = PenRaw(a, d, phase, tool, reading)
    /\ \A a, d, entering, tool :
          Wayland!HandleWaylandProximity(a, d, entering, tool) = PenProximity(a, d, entering, tool)
<1>1. Wayland!NewAdapter = NewAdapter
  BY DEF Wayland!NewAdapter, NewAdapter, Wayland!NoPen, NoPen, Wayland!NoPointer, NoPointer
<1>2. ASSUME NEW a, NEW d, NEW phase, NEW tool, NEW reading
      PROVE  Wayland!HandleWaylandRaw(a, d, phase, tool, reading) = PenRaw(a, d, phase, tool, reading)
  BY SMT DEF Wayland!HandleWaylandRaw, Wayland!PenRaw, PenRaw, Wayland!Entered, Entered,
             Wayland!StartPen, StartPen, Wayland!ContinuePen, ContinuePen, Wayland!Emit, Emit,
             Wayland!Deactivate, Deactivate, Wayland!Ends, Ends,
             Wayland!NoPen, NoPen, Wayland!NoPointer, NoPointer
<1>3. ASSUME NEW a, NEW d, NEW entering, NEW tool
      PROVE  Wayland!HandleWaylandProximity(a, d, entering, tool) = PenProximity(a, d, entering, tool)
  BY SMT DEF Wayland!HandleWaylandProximity, Wayland!PenProximity, PenProximity, Wayland!Entered, Entered,
             Wayland!PenEnters, PenEnters, Wayland!PenLeaves, PenLeaves, Wayland!Emit, Emit,
             Wayland!Deactivate, Deactivate, Wayland!TakePending, TakePending,
             Wayland!NoPen, NoPen, Wayland!NoPointer, NoPointer
<1>. QED
  BY <1>1, <1>2, <1>3

\* What flushing the frame of a tool makes of its pen.
LEMMA WaylandFlush ==
    ASSUME NEW a, AdapterInv(a), NEW d \in Tools, NEW t \in Wayland!Entry,
           t.done => t.kind = Wayland!Kind(d),
           a.pens[d] # NoPen => a.pens[d].tool = Wayland!Kind(d)
    PROVE  LET r == Wayland!Flush(a, d, t)
           IN  /\ OfPen(a, r, d)
               /\ ~t.done => r = a
               /\ r.pens[d] # NoPen => r.pens[d].tool = Wayland!Kind(d)
               /\ t.done /\ t.pending.phase # "Down" /\ (t.pending.leave \/ a.pens[d].pointer = NoPointer)
                     => r.pens[d].pointer = NoPointer
<1> DEFINE p == t.pending
           near == IF p.enter \/ p.leave THEN PenProximity(a, d, ~p.leave, t.kind) ELSE a
           r == Wayland!Flush(a, d, t)
<1>1. r = IF ~t.done THEN a
          ELSE IF p.phase # "none" /\ p.placed THEN PenRaw(near, d, p.phase, t.kind, p.reading)
          ELSE near
  BY OnWayland DEF Wayland!Flush
<1>2. /\ d \in Devices /\ Wayland!Kind(d) \in Tool \ {"Finger"}
      /\ p.phase \in {"none", "Down", "Move", "Up"} /\ p.reading \in Readings
      /\ p.leave \in BOOLEAN
  BY TabletAssumption DEF Wayland!Kind, Tool, Wayland!Entry, Readings
<1>3. a.pens[d] \in Pen /\ (Drawing(a.pens[d]) => a.pens[d] # NoPen)
  BY <1>2 DEF AdapterInv, Drawing, NoPen
<1>4. CASE ~t.done
  <2>1. r = a
    BY <1>1, <1>4
  <2>. QED
    BY <1>4, <2>1, OfPenSame
<1>5. CASE t.done
  <2>1. /\ OfPen(a, near, d)
        /\ near.pens[d] # NoPen => near.pens[d].tool = Wayland!Kind(d)
        /\ p.leave \/ a.pens[d].pointer = NoPointer => near.pens[d].pointer = NoPointer
    <3>1. CASE p.enter \/ p.leave
      <4>1. PenNears(a, near, d, ~p.leave, t.kind)
        BY <1>2, <1>3, <1>5, <3>1, PenProximityKeeps
      <4> HIDE DEF near, p
      <4>2. ~p.leave => near.pens[d].tool = t.kind /\ near.pens[d].pointer = a.pens[d].pointer
        BY <4>1 DEF PenNears
      <4>3. p.leave => near.pens[d] = NoPen /\ near.pens[d].pointer = NoPointer
        BY <4>1 DEF PenNears, NoPen
      <4>4. OfPen(a, near, d)
        BY <4>1 DEF PenNears
      <4>. QED
        BY <1>2, <1>5, <4>2, <4>3, <4>4
    <3>2. CASE ~(p.enter \/ p.leave)
      <4>1. near = a /\ ~p.leave
        BY <3>2
      <4> HIDE DEF near, p
      <4>. QED
        BY <4>1, OfPenSame
    <3>. QED
      BY <3>1, <3>2
  <2>2. AdapterInv(near)
    BY <2>1 DEF OfPen
  <2>3. CASE p.phase # "none" /\ p.placed
    <3> HIDE DEF near
    <3>1. r = PenRaw(near, d, p.phase, t.kind, p.reading)
      BY <1>1, <1>5, <2>3
    <3>2. PenDraws(near, r, d, p.phase, t.kind)
      BY <1>2, <1>5, <2>2, <2>3, <3>1, PenRawKeeps
    <3> HIDE DEF r, p
    <3>3. OfPen(a, r, d)
      BY <2>1, <3>2, OfPenOn DEF PenDraws
    <3>4. r.pens[d].tool = Wayland!Kind(d)
      BY <1>5, <2>1, <3>2 DEF PenDraws
    <3>5. p.phase # "Down" /\ (p.leave \/ a.pens[d].pointer = NoPointer) => r.pens[d].pointer = NoPointer
      BY <2>1, <3>2 DEF PenDraws
    <3>. QED
      BY <1>5, <3>3, <3>4, <3>5 DEF r, p
  <2>4. CASE ~(p.phase # "none" /\ p.placed)
    <3> HIDE DEF near
    <3>1. r = near
      BY <1>1, <1>5, <2>4
    <3>. QED
      BY <1>5, <2>1, <3>1
  <2>. QED
    BY <2>3, <2>4
<1>. QED
  BY <1>4, <1>5 DEF Wayland!Entry

LEMMA WaylandFrames ==
    ASSUME WaylandInv, NEW d \in Tools, Wayland!Frame(d) \/ Wayland!Removed(d)
    PROVE  WaylandInv'
<1> DEFINE t == Wayland!Tracked(d)
           h == hand[d]
           pen == adapter.pens[d]
           r == adapter'.pens[d]
<1>0. WaylandTool(d, t, h, pen) /\ hand = [hand EXCEPT ![d] = h]
  BY WaylandToolIs
<1>1. /\ t \in Wayland!Entry /\ h \in WaylandHand
      /\ t.done => t.kind = Wayland!Kind(d)
      /\ pen # NoPen => pen.tool = Wayland!Kind(d)
      /\ AdapterInv(adapter)
  BY <1>0 DEF WaylandTool, WaylandInv
<1>2. t.pending \in WaylandPending
  BY <1>1, WaylandAxes
<1> HIDE DEF t
<1>3. CASE Wayland!Frame(d)
  <2> DEFINE u == [t EXCEPT !.pending = Wayland!NoAxes]
  <2>1. adapter' = Wayland!Flush(adapter, d, t) /\ hand' = hand /\ backend' = [backend EXCEPT ![d] = u]
        /\ h.where # "removed"
    BY <1>3 DEF Wayland!Frame, t
  <2>2. /\ OfPen(adapter, adapter', d)
        /\ ~t.done => adapter' = adapter
        /\ r # NoPen => r.tool = Wayland!Kind(d)
        /\ t.done /\ t.pending.phase # "Down" /\ (t.pending.leave \/ pen.pointer = NoPointer)
              => r.pointer = NoPointer
    BY <1>1, <2>1, WaylandFlush
  <2>3. Wayland!NoAxes \in WaylandPending /\ Wayland!NoAxes.phase = "none" /\ Wayland!NoAxes.leave = FALSE
    BY DEF WaylandPending, Wayland!NoAxes
  <2>4. u \in Wayland!Entry /\ u.kind = t.kind /\ u.done = t.done /\ u.pending = Wayland!NoAxes
    BY <1>1, <2>3, WaylandPend
  <2> HIDE DEF u, r, h, pen
  <2>5. ~t.done => r = pen
    BY <2>2 DEF r, pen
  <2>6. /\ r # NoPen => r.tool = Wayland!Kind(d)
        /\ ~t.done => r.pointer = NoPointer
        /\ h.where # "near" => r.pointer = NoPointer
    BY <1>0, <1>1, <2>2, <2>5 DEF WaylandTool
  <2>7. WaylandTool(d, u, h, r)
    BY <1>0, <2>3, <2>4, <2>6 DEF WaylandTool
  <2>8. u # Wayland!NoTool /\ u \in Wayland!Entry \cup {Wayland!NoTool} /\ hand' = [hand EXCEPT ![d] = h]
    BY <1>0, <2>1, <2>4, WaylandEntry
  <2>. QED
    BY <2>1, <2>2, <2>7, <2>8, WaylandStep DEF r
<1>4. CASE Wayland!Removed(d)
  <2> DEFINE p == [t.pending EXCEPT !.leave = TRUE]
             u == [t EXCEPT !.pending = p]
             g == [h EXCEPT !.where = "removed"]
  <2>1. /\ adapter' = Wayland!Flush(adapter, d, [t EXCEPT !.pending.leave = TRUE])
        /\ hand' = [hand EXCEPT ![d].where = "removed"]
        /\ backend' = [backend EXCEPT ![d] = Wayland!NoTool]
        /\ h.where = "away"
    BY <1>4 DEF Wayland!Removed, t
  <2>2. [t EXCEPT !.pending.leave = TRUE] = u /\ hand' = [hand EXCEPT ![d] = g]
    BY <2>1
  <2>3. p \in WaylandPending /\ p.phase = t.pending.phase /\ p.leave
    BY <1>2 DEF WaylandPending
  <2>4. g \in WaylandHand /\ g.where = "removed" /\ g.down = h.down /\ g.described = h.described
    BY <1>1, WaylandHandIs
  <2> HIDE DEF p
  <2>5. u \in Wayland!Entry /\ u.kind = t.kind /\ u.done = t.done /\ u.pending = p
    BY <1>1, <2>3, WaylandPend
  <2>6. adapter' = Wayland!Flush(adapter, d, u)
    BY <2>1, <2>2
  <2> HIDE DEF u, g
  <2>7. /\ OfPen(adapter, adapter', d)
        /\ ~t.done => adapter' = adapter
        /\ r # NoPen => r.tool = Wayland!Kind(d)
        /\ t.done /\ t.pending.phase # "Down" => r.pointer = NoPointer
    BY <1>1, <2>3, <2>5, <2>6, WaylandFlush
  <2> HIDE DEF r, h, pen
  <2>8. ~t.done => r = pen
    BY <2>7 DEF r, pen
  <2>9. /\ r # NoPen => r.tool = Wayland!Kind(d)
        /\ r.pointer = NoPointer /\ ~h.down
    BY <1>0, <1>1, <2>1, <2>7, <2>8 DEF WaylandTool
  <2>10. /\ Wayland!NewTool \in Wayland!Entry /\ Wayland!NewTool.done = FALSE
         /\ Wayland!NewTool.pending.phase = "none"
    BY DEF Wayland!NewTool, Wayland!Entry, Wayland!NoAxes, Wayland!Tool
  <2>11. WaylandTool(d, Wayland!NewTool, g, r)
    BY <2>4, <2>9, <2>10 DEF WaylandTool
  <2>. QED
    BY <2>1, <2>2, <2>7, <2>11, WaylandStep DEF r
<1>. QED
  BY <1>3, <1>4

LEMMA WaylandStarts ==
    ASSUME Wayland!Init
    PROVE  WaylandInv
<1>1. adapter = NewAdapter
  BY OnWayland DEF Wayland!Init
<1>2. AdapterInv(adapter) /\ adapter.pending = {} /\ \A d \in Devices : adapter.pens[d] = NoPen
  BY <1>1, InitAdapter DEF NewAdapter
<1>3. /\ backend \in [Tools -> Wayland!Entry \cup {Wayland!NoTool}]
      /\ \A d \in Tools : Wayland!Tracked(d) = Wayland!NewTool
  BY DEF Wayland!Init, Wayland!Tracked
<1>4. /\ hand \in [Tools -> WaylandHand]
      /\ \A d \in Tools : hand[d] = [where |-> "away", down |-> FALSE, described |-> FALSE]
  BY DEF Wayland!Init, WaylandHand
<1>5. /\ Wayland!NewTool \in Wayland!Entry /\ Wayland!NewTool.done = FALSE
      /\ Wayland!NewTool.pending.phase = "none"
  BY DEF Wayland!NewTool, Wayland!Entry, Wayland!NoAxes, Wayland!Tool
<1>6. ASSUME NEW d \in Tools
      PROVE  WaylandTool(d, Wayland!Tracked(d), hand[d], adapter.pens[d])
  <2>1. adapter.pens[d] = NoPen /\ NoPen.pointer = NoPointer
    BY <1>2, TabletAssumption DEF NoPen
  <2>2. /\ Wayland!Tracked(d) = Wayland!NewTool /\ hand[d] \in WaylandHand
        /\ hand[d].where = "away" /\ hand[d].down = FALSE /\ hand[d].described = FALSE
    BY <1>3, <1>4
  <2>. QED
    BY <1>5, <2>1, <2>2 DEF WaylandTool
<1>. QED
  BY <1>2, <1>3, <1>4, <1>6 DEF WaylandInv, Wayland!BackendOK

LEMMA WaylandSteps ==
    ASSUME WaylandInv, Wayland!Next
    PROVE  WaylandInv'
<1>1. PICK d \in Tools : Wayland!ToolEvent(d)
  BY DEF Wayland!Next
<1>. QED
  BY <1>1, WaylandDescribed, WaylandGestures, WaylandFrames DEF Wayland!ToolEvent

LEMMA WaylandSays ==
    ASSUME WaylandInv
    PROVE  /\ AdapterInv(adapter) /\ adapter.pending = {}
           /\ Wayland!BackendOK /\ Wayland!AwayIsEnded
<1>1. ASSUME NEW d \in Tools, hand[d].where # "near", Wayland!Tracked(d).pending = Wayland!NoAxes
      PROVE  adapter.pens[d].pointer = NoPointer
  <2>1. WaylandTool(d, Wayland!Tracked(d), hand[d], adapter.pens[d])
    BY DEF WaylandInv
  <2>2. ~Wayland!Tracked(d).pending.leave
    BY <1>1 DEF Wayland!NoAxes
  <2>. QED
    BY <1>1, <2>1, <2>2 DEF WaylandTool
<1>. QED
  BY <1>1 DEF WaylandInv, Wayland!AwayIsEnded, Wayland!NoPointer, NoPointer

(***************************************************************************)
(* Android.                                                                *)
(***************************************************************************)
AndroidInv ==
    /\ AdapterInv(adapter) /\ adapter.pending = {}
    /\ Android!BackendOK
    /\ \A c \in Contacts : adapter.contacts[c] # NoPen => adapter.contacts[c].tool = Android!AndroidTool(c)

LEMMA OnAndroid ==
    /\ Android!NewAdapter = NewAdapter
    /\ \A a, tool, reading : Android!Hover(a, tool, reading) = Hover(a, tool, reading)
    /\ \A a, c, tool, activates, reading, update :
          Android!StartContact(a, c, tool, activates, reading, update)
              = StartContact(a, c, tool, activates, reading, update)
    /\ \A a, c, phase, tool, reading, update :
          Android!ContinueContact(a, c, phase, tool, reading, update)
              = ContinueContact(a, c, phase, tool, reading, update)
    /\ \A a, c : Android!ContactLeaves(a, c) = ContactLeaves(a, c)
<1>1. Android!NewAdapter = NewAdapter
  BY DEF Android!NewAdapter, NewAdapter, Android!NoPen, NoPen, Android!NoPointer, NoPointer
<1>2. \A a, tool, reading : Android!Hover(a, tool, reading) = Hover(a, tool, reading)
  BY SMT DEF Android!Hover, Hover, Android!Emit, Emit, Android!Mouse, Mouse
<1>3. \A a, c, tool, activates, reading, update :
          Android!StartContact(a, c, tool, activates, reading, update)
              = StartContact(a, c, tool, activates, reading, update)
  BY SMT DEF Android!StartContact, StartContact, Android!Emit, Emit
<1>4. \A a, c, phase, tool, reading, update :
          Android!ContinueContact(a, c, phase, tool, reading, update)
              = ContinueContact(a, c, phase, tool, reading, update)
  BY SMT DEF Android!ContinueContact, ContinueContact, Android!Emit, Emit, Android!Deactivate, Deactivate,
             Android!Ends, Ends, Android!NoPen, NoPen, Android!NoPointer, NoPointer
<1>5. \A a, c : Android!ContactLeaves(a, c) = ContactLeaves(a, c)
  BY SMT DEF Android!ContactLeaves, ContactLeaves, Android!Emit, Emit, Android!Deactivate, Deactivate,
             Android!TakePending, TakePending, Android!NoPen, NoPen, Android!NoPointer, NoPointer
<1>. QED
  BY <1>1, <1>2, <1>3, <1>4, <1>5

LEMMA AndroidStarts ==
    ASSUME Android!Init
    PROVE  AndroidInv
<1>1. adapter = NewAdapter /\ Android!BackendOK
  BY OnAndroid DEF Android!Init, Android!BackendOK
<1>2. AdapterInv(adapter) /\ adapter.pending = {} /\ \A c \in Contacts : adapter.contacts[c] = NoPen
  BY <1>1, InitAdapter DEF NewAdapter
<1>. QED
  BY <1>1, <1>2 DEF AndroidInv

LEMMA AndroidContact ==
    ASSUME AndroidInv, NEW c \in Contacts, NEW tool, OfContact(adapter, adapter', c, tool),
           adapter'.contacts[c] # NoPen => adapter'.contacts[c].tool = Android!AndroidTool(c),
           backend' = backend
    PROVE  AndroidInv'
<1>1. /\ AdapterInv(adapter') /\ adapter'.pending = {}
      /\ \A k \in Contacts : k # c => adapter'.contacts[k] = adapter.contacts[k]
  BY DEF OfContact, AndroidInv
<1>2. Android!BackendOK'
  BY DEF AndroidInv, Android!BackendOK
<1>3. \A k \in Contacts : adapter'.contacts[k] # NoPen => adapter'.contacts[k].tool = Android!AndroidTool(k)
  BY <1>1 DEF AndroidInv
<1>. QED
  BY <1>1, <1>2, <1>3 DEF AndroidInv, Android!AndroidTool

LEMMA AndroidSteps ==
    ASSUME AndroidInv, Android!Next
    PROVE  AndroidInv'
<1>1. PICK c \in Contacts :
          \/ \E phase \in {"Down", "Move", "Up", "Cancel", "Hover"} : Android!Motion(c, phase)
          \/ Android!HoverExit(c)
  BY DEF Android!Next
<1> DEFINE tool == Android!AndroidTool(c)
<1>2. /\ tool \in Tool /\ 0 \in Readings /\ 1 \in Readings /\ 0 \in Nat
      /\ ~(tool \in {"Pen", "Eraser"}) => tool = "Finger"
      /\ tool \in {"Pen", "Eraser"} => tool # "Finger"
  BY DEF Android!AndroidTool, Tool, Readings
<1>3. /\ AdapterInv(adapter) /\ Android!BackendOK
      /\ adapter.contacts[c] # NoPen => adapter.contacts[c].tool = tool
      /\ Drawing(adapter.contacts[c]) => adapter.contacts[c] # NoPen
  BY DEF AndroidInv, Drawing, NoPen
<1> HIDE DEF tool
<1>4. CASE Android!HoverExit(c)
  <2>1. adapter' = ContactLeaves(adapter, c) /\ backend' = backend
    BY <1>4, OnAndroid DEF Android!HoverExit, Android!HandleAndroidProximity
  <2>2. OfContact(adapter, adapter', c, adapter.contacts[c].tool) /\ adapter'.contacts[c] = NoPen
    BY <1>3, <2>1, ContactLeavesKeeps
  <2>. QED
    BY <2>1, <2>2, AndroidContact
<1>5. ASSUME NEW phase \in {"Down", "Move", "Up", "Cancel", "Hover"}, Android!Motion(c, phase)
      PROVE  AndroidInv'
  <2>1. adapter' = Android!HandleAndroidRaw(adapter, c, phase, tool) /\ backend' = backend
    BY <1>5 DEF Android!Motion, tool
  <2>2. CASE phase = "Hover"
    <3>1. adapter' = Hover(adapter, tool, 0)
      BY <2>1, <2>2, OnAndroid DEF Android!HandleAndroidRaw
    <3>2. Aside(adapter, adapter', tool)
      BY <1>2, <1>3, <3>1, HoverKeeps
    <3>. QED
      BY <2>1, <3>2 DEF Aside, AndroidInv, Android!BackendOK
  <2>3. CASE phase = "Down"
    <3> DEFINE activates == tool \in {"Pen", "Eraser"}
    <3>1. adapter' = StartContact(adapter, c, tool, activates, 1, 0)
      BY <2>1, <2>3, OnAndroid DEF Android!HandleAndroidRaw
    <3>2. (activates => tool # "Finger") /\ (~activates => tool = "Finger")
      BY <1>2
    <3> HIDE DEF activates
    <3>3. /\ OfContact(adapter, adapter', c, tool)
          /\ adapter'.contacts[c] = [pointer |-> adapter.nextPointer, tool |-> tool]
      BY <1>2, <1>3, <3>1, <3>2, StartContactKeeps
    <3>. QED
      BY <2>1, <3>3, AndroidContact DEF tool
  <2>4. CASE phase \in {"Move", "Up", "Cancel"}
    <3>1. adapter' = ContinueContact(adapter, c, phase, tool, 1, 0)
      BY <2>1, <2>4, OnAndroid DEF Android!HandleAndroidRaw
    <3>2. /\ OfContact(adapter, adapter', c, adapter.contacts[c].tool)
          /\ adapter'.contacts[c] = IF phase \in Ends THEN NoPen ELSE adapter.contacts[c]
      BY <1>2, <1>3, <2>4, <3>1, ContinueContactKeeps
    <3>3. adapter'.contacts[c] # NoPen => adapter'.contacts[c].tool = tool
      BY <1>3, <3>2
    <3>. QED
      BY <2>1, <3>2, <3>3, AndroidContact DEF tool
  <2>. QED
    BY <2>2, <2>3, <2>4
<1>. QED
  BY <1>1, <1>4, <1>5

(***************************************************************************)
(* iOS: what is told of the updates, over the queue.                       *)
(***************************************************************************)
\* RevisionsFindTheirSample, of one revision.
Revised(q, i) ==
    /\ \E j \in 1 .. i - 1 :
           q[j].phase # "Revise" /\ q[j].pointer = q[i].pointer /\ q[j].update = q[i].update
    /\ \A j \in 1 .. i - 1 : q[j].phase = "Revise" => q[j].update # q[i].update

\* An estimate that is awaited was told, and was not revised.
Awaited(q, e) ==
    /\ \E j \in DOMAIN q : q[j].phase # "Revise" /\ q[j].pointer = e.pointer /\ q[j].update = e.update
    /\ \A j \in DOMAIN q : q[j].phase = "Revise" => q[j].update # e.update

\* `q' is the queue, `y' the updates that are awaited and `n' the next index.
IosTold(q, y, n) ==
    /\ q \in Seq(Event)
    /\ \A i \in DOMAIN q : q[i].phase = "Revise" => q[i].update < n /\ Revised(q, i)
    /\ \A e \in y : e.update < n /\ Awaited(q, e)

LEMMA RevisedStays ==
    ASSUME NEW q \in Seq(Event), NEW e \in Event, NEW i \in DOMAIN q, Revised(q, i)
    PROVE  Revised(Append(q, e), i)
<1>1. /\ DOMAIN q = 1 .. Len(q) /\ Len(q) \in Nat
      /\ \A j \in 1 .. Len(q) : Append(q, e)[j] = q[j]
  BY QueueIs
<1>2. \A j \in 1 .. i - 1 : j \in 1 .. Len(q)
  BY <1>1
<1> DEFINE r == Append(q, e)
<1>3. r[i] = q[i] /\ \A j \in 1 .. i - 1 : r[j] = q[j]
  BY <1>1, <1>2
<1> HIDE DEF r
<1>4. Revised(r, i)
  BY <1>3 DEF Revised
<1>. QED
  BY <1>4 DEF r

LEMMA AwaitedStays ==
    ASSUME NEW q \in Seq(Event), NEW e \in Event, NEW f, Awaited(q, f),
           e.phase = "Revise" => e.update # f.update
    PROVE  Awaited(Append(q, e), f)
<1> DEFINE r == Append(q, e)
           n == Len(q)
<1>1. /\ DOMAIN q = 1 .. n /\ n \in Nat /\ DOMAIN r = 1 .. n + 1
      /\ \A j \in 1 .. n : r[j] = q[j]
      /\ r[n + 1] = e
  BY QueueIs
<1> HIDE DEF r, n
<1>2. \A j \in 1 .. n + 1 : j \in 1 .. n \/ j = n + 1
  BY <1>1
<1>3. \A j \in 1 .. n : j \in 1 .. n + 1
  BY <1>1
<1>4. Awaited(r, f)
  BY <1>1, <1>2, <1>3 DEF Awaited
<1>. QED
  BY <1>4 DEF r

\* A sample is told, and may be awaited under the next index.
LEMMA SampleTold ==
    ASSUME NEW q, NEW y, NEW n \in Nat, IosTold(q, y, n), NEW e \in Event, e.phase # "Revise",
           NEW z, NEW m \in Nat, n <= m,
           \A f \in z : f \in y \/ (f.update = n /\ n < m /\ f.update = e.update /\ f.pointer = e.pointer)
    PROVE  IosTold(Append(q, e), z, m)
<1> DEFINE r == Append(q, e)
           k == Len(q)
<1>0. q \in Seq(Event)
  BY DEF IosTold
<1>1. /\ DOMAIN q = 1 .. k /\ k \in Nat /\ DOMAIN r = 1 .. k + 1 /\ r \in Seq(Event)
      /\ \A j \in 1 .. k : r[j] = q[j]
      /\ r[k + 1] = e
  BY <1>0, QueueIs
<1>2. /\ \A i \in DOMAIN q : q[i].update \in Nat
      /\ \A i \in DOMAIN q : q[i].phase = "Revise" => q[i].update < n /\ Revised(q, i)
  <2>1. \A i \in DOMAIN q : q[i] \in Event
    BY <1>0
  <2>. QED
    BY <2>1 DEF IosTold, Event
<1>3. \A i \in DOMAIN q : Revised(q, i) => Revised(r, i)
  BY <1>0, RevisedStays
<1>4. \A f : Awaited(q, f) => Awaited(r, f)
  BY <1>0, AwaitedStays
<1> HIDE DEF r, k
<1>5. \A i \in DOMAIN r : i \in DOMAIN q \/ i = k + 1
  BY <1>1
<1>6. \A i \in DOMAIN r : r[i].phase = "Revise" => r[i].update < m /\ Revised(r, i)
  BY <1>1, <1>2, <1>3, <1>5
<1>7. ASSUME NEW f \in z
      PROVE  f.update < m /\ Awaited(r, f)
  <2>1. CASE f \in y
    <3>1. f.update < n /\ Awaited(q, f)
      BY <2>1 DEF IosTold
    <3>2. f.update \in Nat
      BY <1>2, <3>1 DEF Awaited
    <3>. QED
      BY <1>4, <3>1, <3>2
  <2>2. CASE f.update = n /\ n < m /\ f.update = e.update /\ f.pointer = e.pointer
    <3>1. \A j \in DOMAIN r : r[j].phase = "Revise" => r[j].update # n
      BY <1>1, <1>2, <1>5
    <3>2. k + 1 \in DOMAIN r
      BY <1>1
    <3>3. Awaited(r, f)
      BY <1>1, <2>2, <3>1, <3>2 DEF Awaited
    <3>. QED
      BY <2>2, <3>3
  <2>. QED
    BY <1>7, <2>1, <2>2
<1>8. IosTold(r, z, m)
  BY <1>1, <1>6, <1>7 DEF IosTold
<1>. QED
  BY <1>8 DEF r

\* An estimate that is awaited is revised.
LEMMA RevisionTold ==
    ASSUME NEW q, NEW y, NEW n \in Nat, IosTold(q, y, n), NEW f \in y, NEW e \in Event,
           e.phase = "Revise", e.pointer = f.pointer, e.update = f.update,
           NEW z, \A g \in z : g \in y /\ g.update # f.update
    PROVE  IosTold(Append(q, e), z, n)
<1> DEFINE r == Append(q, e)
           k == Len(q)
<1>0. q \in Seq(Event)
  BY DEF IosTold
<1>1. /\ DOMAIN q = 1 .. k /\ k \in Nat /\ DOMAIN r = 1 .. k + 1 /\ r \in Seq(Event)
      /\ \A j \in 1 .. k : r[j] = q[j]
      /\ r[k + 1] = e
  BY <1>0, QueueIs
<1>2. \A i \in DOMAIN q : q[i].phase = "Revise" => q[i].update < n /\ Revised(q, i)
  BY DEF IosTold
<1>3. \A i \in DOMAIN q : Revised(q, i) => Revised(r, i)
  BY <1>0, RevisedStays
<1>4. \A g : Awaited(q, g) /\ g.update # e.update => Awaited(r, g)
  BY <1>0, AwaitedStays
<1>5. f.update < n /\ Awaited(q, f)
  BY DEF IosTold
<1> HIDE DEF r, k
<1>6. \A i \in DOMAIN r : i \in DOMAIN q \/ i = k + 1
  BY <1>1
<1>7. k + 1 - 1 = k
  BY <1>1
<1>8. Revised(r, k + 1)
  BY <1>1, <1>5, <1>7 DEF Revised, Awaited
<1>9. \A i \in DOMAIN r : r[i].phase = "Revise" => r[i].update < n /\ Revised(r, i)
  BY <1>1, <1>2, <1>3, <1>5, <1>6, <1>8
<1>10. \A g \in z : g.update < n /\ Awaited(r, g)
  BY <1>4 DEF IosTold
<1>11. IosTold(r, z, n)
  BY <1>1, <1>9, <1>10 DEF IosTold
<1>. QED
  BY <1>11 DEF r

\* What the handlers of a contact tell, and of which updates.
LEMMA ContactTells ==
    ASSUME NEW a, AdapterInv(a), NEW k \in Contacts
    PROVE  /\ \A tool, activates, reading, update :
                 LET r == StartContact(a, k, tool, activates, reading, update)
                 IN  /\ r.queue = Append(a.queue, Sample("Down", a.nextPointer, tool, reading, update))
                     /\ r.pending = a.pending
           /\ \A phase, tool, reading, update :
                 LET r == ContinueContact(a, k, phase, tool, reading, update)
                 IN  /\ r.queue = IF a.contacts[k] = NoPen
                                  THEN a.queue
                                  ELSE Append(a.queue, Sample(phase, a.contacts[k].pointer, a.contacts[k].tool,
                                                              reading, update))
                     /\ r.pending = a.pending
           /\ LET r == ContactLeaves(a, k)
              IN  r.queue = IF a.contacts[k] = NoPen
                            THEN a.queue
                            ELSE Append(a.queue, Sample("Cancel", a.contacts[k].pointer,
                                                        a.contacts[k].tool, 0, 0))
<1>0. PICK q, p, c, x, y, n : Parts(a, q, p, c, x, y, n)
  BY PartsAre
<1>1. /\ a = Rec(q, p, c, x, y, n)
      /\ a.queue = q /\ a.contacts = c /\ a.pending = y /\ a.nextPointer = n
  BY <1>0 DEF Parts
<1>2. ASSUME NEW tool, NEW activates, NEW reading, NEW update
      PROVE  LET r == StartContact(a, k, tool, activates, reading, update)
             IN  r.queue = Append(q, Sample("Down", n, tool, reading, update)) /\ r.pending = y
  <2> DEFINE r == StartContact(a, k, tool, activates, reading, update)
             q2 == Append(q, Sample("Down", n, tool, reading, update))
             c2 == Put(c, k, [pointer |-> n, tool |-> tool])
             x2 == IF activates THEN n ELSE x
  <2>1. r = Rec(q2, p, c2, x2, y, n + 1)
    BY <1>1, StartContactIs
  <2> HIDE DEF r, q2, c2, x2
  <2>2. r.queue = q2 /\ r.pending = y
    BY <2>1, Fields
  <2>. QED
    BY <2>2 DEF r, q2
<1>3. ASSUME NEW phase, NEW tool, NEW reading, NEW update
      PROVE  LET r == ContinueContact(a, k, phase, tool, reading, update)
             IN  /\ r.queue = IF c[k] = NoPen
                              THEN q
                              ELSE Append(q, Sample(phase, c[k].pointer, c[k].tool, reading, update))
                 /\ r.pending = y
  <2> DEFINE r == ContinueContact(a, k, phase, tool, reading, update)
             q2 == Append(q, Sample(phase, c[k].pointer, c[k].tool, reading, update))
             c2 == Put(c, k, NoPen)
             x2 == Freed(x, c[k].pointer)
  <2>1. r = IF c[k] = NoPen THEN Rec(q, p, c, x, y, n)
            ELSE IF phase \in Ends THEN Rec(q2, p, c2, x2, y, n) ELSE Rec(q2, p, c, x, y, n)
    BY <1>1, ContinueContactIs
  <2> HIDE DEF r, q2, c2, x2
  <2>2. r.queue = (IF c[k] = NoPen THEN q ELSE q2) /\ r.pending = y
    BY <2>1, Fields
  <2>. QED
    BY <2>2 DEF r, q2
<1>4. LET r == ContactLeaves(a, k)
      IN  r.queue = IF c[k] = NoPen
                    THEN q
                    ELSE Append(q, Sample("Cancel", c[k].pointer, c[k].tool, 0, 0))
  <2> DEFINE r == ContactLeaves(a, k)
             q2 == Append(q, Sample("Cancel", c[k].pointer, c[k].tool, 0, 0))
             c2 == Put(c, k, NoPen)
             x2 == Freed(x, c[k].pointer)
             y2 == Without(y, c[k].pointer)
  <2>1. r = IF c[k] = NoPen THEN Rec(q, p, c, x, y, n) ELSE Rec(q2, p, c2, x2, y2, n)
    BY <1>1, ContactLeavesIs
  <2> HIDE DEF r, q2, c2, x2, y2
  <2>2. r.queue = IF c[k] = NoPen THEN q ELSE q2
    BY <2>1, Fields
  <2>. QED
    BY <2>2 DEF r, q2
<1>. QED
  BY <1>1, <1>2, <1>3, <1>4

LEMMA OnIos ==
    /\ Ios!NewAdapter = NewAdapter /\ Ios!NoPointer = NoPointer /\ Ios!Ends = Ends
    /\ \A a, tool, reading : Ios!Hover(a, tool, reading) = Hover(a, tool, reading)
    /\ \A a, phase, pointer, tool, reading, update :
          Ios!Emit(a, phase, pointer, tool, reading, update) = Emit(a, phase, pointer, tool, reading, update)
    /\ \A a, c, tool, activates, reading, update :
          Ios!StartContact(a, c, tool, activates, reading, update)
              = StartContact(a, c, tool, activates, reading, update)
    /\ \A a, c, phase, tool, reading, update :
          Ios!ContinueContact(a, c, phase, tool, reading, update)
              = ContinueContact(a, c, phase, tool, reading, update)
    /\ \A a, c : Ios!ContactLeaves(a, c) = ContactLeaves(a, c)
<1>1. Ios!NewAdapter = NewAdapter /\ Ios!NoPointer = NoPointer /\ Ios!Ends = Ends
  BY DEF Ios!NewAdapter, NewAdapter, Ios!NoPen, NoPen, Ios!NoPointer, NoPointer, Ios!Ends, Ends
<1>2. \A a, tool, reading : Ios!Hover(a, tool, reading) = Hover(a, tool, reading)
  BY SMT DEF Ios!Hover, Hover, Ios!Emit, Emit, Ios!Mouse, Mouse
<1>3. \A a, phase, pointer, tool, reading, update :
          Ios!Emit(a, phase, pointer, tool, reading, update) = Emit(a, phase, pointer, tool, reading, update)
  BY SMT DEF Ios!Emit, Emit
<1>4. \A a, c, tool, activates, reading, update :
          Ios!StartContact(a, c, tool, activates, reading, update)
              = StartContact(a, c, tool, activates, reading, update)
  BY SMT DEF Ios!StartContact, StartContact, Ios!Emit, Emit
<1>5. \A a, c, phase, tool, reading, update :
          Ios!ContinueContact(a, c, phase, tool, reading, update)
              = ContinueContact(a, c, phase, tool, reading, update)
  BY SMT DEF Ios!ContinueContact, ContinueContact, Ios!Emit, Emit, Ios!Deactivate, Deactivate,
             Ios!Ends, Ends, Ios!NoPen, NoPen, Ios!NoPointer, NoPointer
<1>6. \A a, c : Ios!ContactLeaves(a, c) = ContactLeaves(a, c)
  BY SMT DEF Ios!ContactLeaves, ContactLeaves, Ios!Emit, Emit, Ios!Deactivate, Deactivate,
             Ios!TakePending, TakePending, Ios!NoPen, NoPen, Ios!NoPointer, NoPointer
<1>. QED
  BY <1>1, <1>2, <1>3, <1>4, <1>5, <1>6

\* Of the bounds, and of the samples, what makes the awaited updates typed.
IosInv ==
    /\ AdapterInv(adapter)
    /\ Ios!BackendOK
    /\ \A c \in Contacts : adapter.contacts[c] # NoPen => adapter.contacts[c].tool = "Pen"
    /\ hand \in [down : SUBSET Contacts, promised : SUBSET Nat, nextUpdate : Nat \ {0}]
    /\ \A u \in hand.promised : u < hand.nextUpdate
    /\ adapter.pending \subseteq [update : 1 .. MaxUpdates, pointer : Nat \ {0}]
    /\ IosTold(adapter.queue, adapter.pending, hand.nextUpdate)

LEMMA IosStarts ==
    ASSUME Ios!Init
    PROVE  IosInv
<1>1. adapter = NewAdapter /\ Ios!BackendOK /\ hand = [down |-> {}, promised |-> {}, nextUpdate |-> 1]
  BY OnIos DEF Ios!Init, Ios!BackendOK
<1>2. /\ AdapterInv(adapter) /\ adapter.pending = {} /\ adapter.queue = << >>
      /\ \A c \in Contacts : adapter.contacts[c] = NoPen
  BY <1>1, InitAdapter DEF NewAdapter
<1>3. IosTold(<< >>, {}, 1)
  BY DEF IosTold
<1>. QED
  BY <1>1, <1>2, <1>3 DEF IosInv

LEMMA IosSays ==
    ASSUME IosInv
    PROVE  /\ AdapterInv(adapter) /\ Ios!BackendOK
           /\ adapter.pending \subseteq [update : 1 .. MaxUpdates, pointer : Pointers]
           /\ Ios!RevisionsFindTheirSample
<1>1. /\ IosTold(adapter.queue, adapter.pending, hand.nextUpdate)
      /\ adapter.pending \subseteq [update : 1 .. MaxUpdates, pointer : Nat \ {0}]
  BY DEF IosInv
<1>2. /\ adapter.nextPointer \in Nat \ {0} /\ adapter.queue \in Seq(Event)
      /\ \A i \in DOMAIN adapter.queue : adapter.queue[i].pointer < adapter.nextPointer
  BY DEF IosInv, AdapterInv, SlotInv
<1>3. ASSUME NEW e \in adapter.pending
      PROVE  e \in [update : 1 .. MaxUpdates, pointer : Pointers]
  <2>1. e \in [update : 1 .. MaxUpdates, pointer : Nat \ {0}] /\ Awaited(adapter.queue, e)
    BY <1>1, <1>3 DEF IosTold
  <2>2. e.pointer < adapter.nextPointer
    BY <1>2, <2>1 DEF Awaited
  <2>. QED
    BY <1>2, <2>1, <2>2 DEF Pointers
<1>4. \A i \in DOMAIN adapter.queue : adapter.queue[i].phase = "Revise" => Revised(adapter.queue, i)
  BY <1>1 DEF IosTold
<1>. QED
  BY <1>3, <1>4 DEF IosInv, Ios!RevisionsFindTheirSample, Revised

LEMMA IosRemembers ==
    ASSUME NEW a, AdapterInv(a), NEW pointer, NEW update
    PROVE  LET b == Ios!Remember(a, pointer, update)
           IN  /\ AdapterInv(b)
               /\ b.queue = a.queue /\ b.pens = a.pens /\ b.contacts = a.contacts
               /\ b.nextPointer = a.nextPointer
               /\ update = 0 \/ pointer = NoPointer => b.pending = a.pending
               /\ \A e \in b.pending : e \in a.pending \/ e = [update |-> update, pointer |-> pointer]
<1> DEFINE z == {e \in a.pending : e.update # update} \cup {[update |-> update, pointer |-> pointer]}
           b == Ios!Remember(a, pointer, update)
<1>1. b = IF update = 0 \/ pointer = NoPointer THEN a ELSE [a EXCEPT !.pending = z]
  BY OnIos DEF Ios!Remember
<1>2. \A e \in z : e \in a.pending \/ e = [update |-> update, pointer |-> pointer]
  OBVIOUS
<1>3. CASE update = 0 \/ pointer = NoPointer
  <2>1. b = a
    BY <1>1, <1>3
  <2>. QED
    BY <2>1
<1>4. CASE ~(update = 0 \/ pointer = NoPointer)
  <2> HIDE DEF z
  <2> DEFINE r == [a EXCEPT !.pending = z]
  <2>1. b = r
    BY <1>1, <1>4
  <2>2. /\ AdapterInv(r) /\ r.pending = z
        /\ r.queue = a.queue /\ r.pens = a.pens /\ r.contacts = a.contacts /\ r.nextPointer = a.nextPointer
    BY PendingIsFree
  <2> HIDE DEF r, b
  <2>3. /\ AdapterInv(b) /\ b.pending = z
        /\ b.queue = a.queue /\ b.pens = a.pens /\ b.contacts = a.contacts /\ b.nextPointer = a.nextPointer
    BY <2>1, <2>2
  <2>. QED
    BY <1>2, <1>4, <2>3 DEF b
<1>. QED
  BY <1>3, <1>4

LEMMA ToldLater ==
    ASSUME NEW q, NEW y, NEW n \in Nat, IosTold(q, y, n), NEW m \in Nat, n <= m
    PROVE  IosTold(q, y, m)
<1>1. q \in Seq(Event) /\ \A i \in DOMAIN q : q[i] \in Event
  BY DEF IosTold
<1>2. \A i \in DOMAIN q : q[i].update \in Nat
  BY <1>1 DEF Event
<1>3. \A i \in DOMAIN q : q[i].phase = "Revise" => q[i].update < m /\ Revised(q, i)
  BY <1>2 DEF IosTold
<1>4. ASSUME NEW e \in y
      PROVE  e.update < m /\ Awaited(q, e)
  <2>1. e.update < n /\ Awaited(q, e)
    BY DEF IosTold
  <2>2. e.update \in Nat
    BY <1>2, <2>1 DEF Awaited
  <2>. QED
    BY <2>1, <2>2
<1>. QED
  BY <1>1, <1>3, <1>4 DEF IosTold

\* What an event of iOS may leave of the invariant.
LEMMA IosLeaves ==
    ASSUME IosInv, AdapterInv(adapter'), backend' = backend,
           \A c \in Contacts : adapter'.contacts[c] # NoPen => adapter'.contacts[c].tool = "Pen",
           NEW down \in SUBSET Contacts, NEW promised \in SUBSET Nat, NEW n \in Nat \ {0},
           hand' = [down |-> down, promised |-> promised, nextUpdate |-> n],
           \A u \in promised : u < n,
           adapter'.pending \subseteq [update : 1 .. MaxUpdates, pointer : Nat \ {0}],
           IosTold(adapter'.queue, adapter'.pending, n)
    PROVE  IosInv'
<1>1. hand' \in [down : SUBSET Contacts, promised : SUBSET Nat, nextUpdate : Nat \ {0}]
      /\ hand'.promised = promised /\ hand'.nextUpdate = n
  OBVIOUS
<1>2. Ios!BackendOK'
  BY DEF IosInv, Ios!BackendOK
<1>. QED
  BY <1>1, <1>2 DEF IosInv

\* A sample that iOS promises to update or not, told after it is remembered.
LEMMA IosSample ==
    ASSUME IosInv, NEW b, NEW pointer \in Nat \ {0}, NEW update, NEW n, NEW estimated,
           update = IF estimated THEN hand.nextUpdate ELSE 0,
           n = IF estimated THEN hand.nextUpdate + 1 ELSE hand.nextUpdate,
           estimated => hand.nextUpdate <= MaxUpdates,
           update = 0 => b.pending = adapter.pending,
           \A f \in b.pending : f \in adapter.pending \/ f = [update |-> update, pointer |-> pointer],
           NEW phase \in Phases, phase # "Revise",
           adapter'.queue = Append(adapter.queue, Sample(phase, pointer, "Pen", 1, update)),
           adapter'.pending = b.pending
    PROVE  /\ adapter'.pending \subseteq [update : 1 .. MaxUpdates, pointer : Nat \ {0}]
           /\ IosTold(adapter'.queue, adapter'.pending, n)
<1> DEFINE m == hand.nextUpdate
           e == Sample(phase, pointer, "Pen", 1, update)
<1>1. /\ m \in Nat \ {0} /\ IosTold(adapter.queue, adapter.pending, m)
      /\ adapter.pending \subseteq [update : 1 .. MaxUpdates, pointer : Nat \ {0}]
  BY DEF IosInv
<1>2. update \in Nat /\ n \in Nat /\ m <= n /\ (update # 0 => update = m /\ m < n /\ m <= MaxUpdates)
  BY <1>1
<1>3. e \in Event /\ e.phase = phase /\ e.update = update /\ e.pointer = pointer
  <2>1. pointer \in Int /\ "Pen" \in Tool \cup {"none"} /\ 1 \in Readings
    BY DEF Tool, Readings
  <2>. QED
    BY <1>2, <2>1, SampleIs
<1> HIDE DEF m, e
<1>4. \A f \in b.pending : f \in adapter.pending \/ (f.update = m /\ m < n /\ f.update = e.update /\ f.pointer = e.pointer)
  BY <1>2, <1>3
<1>5. IosTold(Append(adapter.queue, e), b.pending, n)
  BY <1>1, <1>2, <1>3, <1>4, SampleTold
<1>6. MaxUpdates \in Nat
  BY TabletAssumption
<1>7. ASSUME NEW f \in b.pending
      PROVE  f \in [update : 1 .. MaxUpdates, pointer : Nat \ {0}]
  BY <1>1, <1>2, <1>6
<1>. QED
  BY <1>5, <1>7 DEF e

LEMMA IosTouches ==
    ASSUME IosInv, NEW t \in Contacts, NEW phase \in {"Down", "Move", "Up", "Cancel", "Hover"},
           NEW estimated \in BOOLEAN, Ios!Touch(t, phase, estimated)
    PROVE  IosInv'
<1> DEFINE m == hand.nextUpdate
           update == IF estimated THEN m ELSE 0
           n == IF estimated THEN m + 1 ELSE m
           down == CASE phase = "Down"  -> hand.down \cup {t}
                     [] phase \in Ends  -> hand.down \ {t}
                     [] OTHER           -> hand.down
           promised == hand.promised \cup ({update} \ {0})
<1>1. /\ AdapterInv(adapter) /\ m \in Nat \ {0}
      /\ hand.down \in SUBSET Contacts /\ hand.promised \in SUBSET Nat
      /\ \A u \in hand.promised : u < m
      /\ IosTold(adapter.queue, adapter.pending, m)
      /\ adapter.pending \subseteq [update : 1 .. MaxUpdates, pointer : Nat \ {0}]
      /\ \A c \in Contacts : adapter.contacts[c] # NoPen => adapter.contacts[c].tool = "Pen"
  BY DEF IosInv
<1>2. /\ adapter' = Ios!HandleIosRaw(adapter, t, phase, update)
      /\ hand' = [down |-> down, promised |-> promised, nextUpdate |-> n]
      /\ backend' = backend
      /\ estimated => m <= MaxUpdates /\ phase # "Hover"
  BY OnIos DEF Ios!Touch
<1>3. /\ down \in SUBSET Contacts /\ promised \in SUBSET Nat /\ n \in Nat \ {0} /\ m <= n /\ update \in Nat
      /\ \A u \in promised : u < n
  BY <1>1
<1>4. 0 \in Readings /\ 1 \in Readings /\ "Pen" \in Tool /\ "Pen" # "Finger"
  BY DEF Readings, Tool
<1> HIDE DEF m, update, n, down, promised
<1>5. CASE phase = "Hover"
  <2>1. adapter' = Hover(adapter, "Pen", 0) /\ n = m
    BY <1>2, <1>5, OnIos DEF Ios!HandleIosRaw, n
  <2> DEFINE e == Sample("Hover", Mouse, "Pen", 0, 0)
  <2>2. Aside(adapter, adapter', "Pen") /\ adapter'.queue = Append(adapter.queue, e)
    <3>1. adapter' = Emit(adapter, "Hover", Mouse, "Pen", 0, 0)
      BY <2>1 DEF Hover
    <3>2. "Hover" \in Phases /\ Mouse \in Int /\ "Pen" \in Tool \cup {"none"} /\ 0 \in Nat /\ Mouse < adapter.nextPointer
      BY <1>1, <1>4 DEF Phases, Mouse, AdapterInv, SlotInv
    <3>. QED
      BY <1>1, <1>4, <3>1, <3>2, AsideKeeps
  <2>3. e \in Event /\ e.phase = "Hover"
    <3>1. "Hover" \in Phases /\ Mouse \in Int /\ "Pen" \in Tool \cup {"none"} /\ 0 \in Nat
      BY <1>4 DEF Phases, Mouse
    <3>. QED
      BY <1>4, <3>1, SampleIs
  <2> HIDE DEF e
  <2>4. IosTold(Append(adapter.queue, e), adapter.pending, m)
    BY <1>1, <2>3, SampleTold
  <2>5. AdapterInv(adapter') /\ adapter'.contacts = adapter.contacts /\ adapter'.pending = adapter.pending
    BY <2>2 DEF Aside
  <2>6. IosTold(adapter'.queue, adapter'.pending, n)
    BY <2>1, <2>2, <2>4, <2>5
  <2>. QED
    BY <1>1, <1>2, <1>3, <2>5, <2>6, IosLeaves
<1>6. CASE phase = "Down"
  <2> DEFINE k == adapter.nextPointer
             b == Ios!Remember(adapter, k, update)
             activates == TRUE
  <2>1. adapter' = StartContact(b, t, "Pen", activates, 1, update)
    BY <1>2, <1>6, OnIos DEF Ios!HandleIosRaw
  <2>2. /\ AdapterInv(b)
        /\ b.queue = adapter.queue /\ b.contacts = adapter.contacts /\ b.nextPointer = k
        /\ update = 0 => b.pending = adapter.pending
        /\ \A f \in b.pending : f \in adapter.pending \/ f = [update |-> update, pointer |-> k]
    BY <1>1, IosRemembers
  <2>3. k \in Nat \ {0}
    BY <1>1 DEF AdapterInv, SlotInv
  <2>9. activates
    OBVIOUS
  <2> HIDE DEF k, b, activates
  <2>4. OfContact(b, adapter', t, "Pen") /\ adapter'.contacts[t] = [pointer |-> k, tool |-> "Pen"]
    <3> DEFINE r == StartContact(b, t, "Pen", activates, 1, update)
    <3>1. AdapterInv(b) /\ update \in Nat
      BY <1>3, <2>2
    <3>2. OfContact(b, r, t, "Pen") /\ r.contacts[t] = [pointer |-> b.nextPointer, tool |-> "Pen"]
      <4>1. (activates => "Pen" # "Finger") /\ (~activates => "Pen" = "Finger")
        BY <1>4, <2>9
      <4>. QED
        BY <1>4, <3>1, <4>1, StartContactKeeps
    <3> HIDE DEF r
    <3>3. adapter' = r
      BY <2>1 DEF r
    <3>. QED
      BY <2>2, <3>2, <3>3
  <2>5. adapter'.queue = Append(adapter.queue, Sample("Down", k, "Pen", 1, update)) /\ adapter'.pending = b.pending
    BY <2>1, <2>2, ContactTells
  <2>6. "Down" \in Phases /\ "Down" # "Revise"
    BY DEF Phases
  <2>7. /\ adapter'.pending \subseteq [update : 1 .. MaxUpdates, pointer : Nat \ {0}]
        /\ IosTold(adapter'.queue, adapter'.pending, n)
    BY <1>2, <2>2, <2>3, <2>5, <2>6, IosSample DEF m, n, update
  <2>8. AdapterInv(adapter') /\ \A c \in Contacts : adapter'.contacts[c] # NoPen => adapter'.contacts[c].tool = "Pen"
    BY <1>1, <2>2, <2>4 DEF OfContact
  <2>. QED
    BY <1>2, <1>3, <2>7, <2>8, IosLeaves
<1>7. CASE phase \in {"Move", "Up", "Cancel"}
  <2> DEFINE old == adapter.contacts[t]
             k == old.pointer
             b == Ios!Remember(adapter, k, update)
  <2>1. adapter' = ContinueContact(b, t, phase, "Pen", 1, update)
    BY <1>2, <1>7, OnIos DEF Ios!HandleIosRaw
  <2>2. /\ AdapterInv(b)
        /\ b.queue = adapter.queue /\ b.contacts = adapter.contacts
        /\ update = 0 \/ k = NoPointer => b.pending = adapter.pending
        /\ \A f \in b.pending : f \in adapter.pending \/ f = [update |-> update, pointer |-> k]
    BY <1>1, IosRemembers
  <2>3. (old = NoPen => k = NoPointer) /\ (old # NoPen => k \in Nat \ {0} /\ old.tool = "Pen")
    <3>1. PICK q, p, c, x, y, i : Parts(adapter, q, p, c, x, y, i)
      BY <1>1, PartsAre
    <3>2. i \in Nat \ {0} /\ (c[t] # NoPen => c[t].pointer \in 1 .. i - 1)
      BY <3>1, ContactIs
    <3>3. adapter.contacts = c
      BY <3>1 DEF Parts
    <3>. QED
      BY <1>1, <3>2, <3>3 DEF NoPen
  <2> HIDE DEF k, b
  <2>4. OfContact(b, adapter', t, b.contacts[t].tool) /\ adapter'.contacts[t] = IF phase \in Ends THEN NoPen ELSE old
    BY <1>3, <1>4, <1>7, <2>1, <2>2, ContinueContactKeeps
  <2>5. /\ adapter'.queue = IF old = NoPen THEN adapter.queue
                            ELSE Append(adapter.queue, Sample(phase, k, old.tool, 1, update))
        /\ adapter'.pending = b.pending
    BY <2>1, <2>2, ContactTells DEF k
  <2>6. phase \in Phases /\ phase # "Revise"
    BY <1>7 DEF Phases
  <2>7. /\ adapter'.pending \subseteq [update : 1 .. MaxUpdates, pointer : Nat \ {0}]
        /\ IosTold(adapter'.queue, adapter'.pending, n)
    <3>1. CASE old = NoPen
      <4>1. adapter'.queue = adapter.queue /\ adapter'.pending = adapter.pending
        BY <2>2, <2>3, <2>5, <3>1
      <4>. QED
        BY <1>1, <1>3, <4>1, ToldLater
    <3>2. CASE old # NoPen
      <4>1. adapter'.queue = Append(adapter.queue, Sample(phase, k, "Pen", 1, update)) /\ k \in Nat \ {0}
        BY <2>3, <2>5, <3>2
      <4>. QED
        BY <1>2, <2>2, <2>5, <2>6, <4>1, IosSample DEF m, n, update
    <3>. QED
      BY <3>1, <3>2
  <2>8. AdapterInv(adapter') /\ \A c \in Contacts : adapter'.contacts[c] # NoPen => adapter'.contacts[c].tool = "Pen"
    BY <1>1, <2>2, <2>4 DEF OfContact
  <2>. QED
    BY <1>2, <1>3, <2>7, <2>8, IosLeaves
<1>. QED
  BY <1>5, <1>6, <1>7

LEMMA IosUpdates ==
    ASSUME IosInv, NEW u, Ios!EstimatedUpdate(u)
    PROVE  IosInv'
<1> DEFINE m == hand.nextUpdate
           y == adapter.pending
           found == {e \in y : e.update = u}
           promised == hand.promised \ {u}
<1>1. /\ AdapterInv(adapter) /\ m \in Nat \ {0}
      /\ hand \in [down : SUBSET Contacts, promised : SUBSET Nat, nextUpdate : Nat \ {0}]
      /\ \A v \in hand.promised : v < m
      /\ IosTold(adapter.queue, y, m)
      /\ y \subseteq [update : 1 .. MaxUpdates, pointer : Nat \ {0}]
      /\ \A c \in Contacts : adapter.contacts[c] # NoPen => adapter.contacts[c].tool = "Pen"
  BY DEF IosInv
<1>2. /\ adapter' = Ios!HandleIosEstimatedUpdate(adapter, u) /\ backend' = backend
      /\ u \in Nat /\ u < m
      /\ hand' = [hand EXCEPT !.promised = promised]
  BY <1>1 DEF Ios!EstimatedUpdate
<1>3. /\ hand' = [down |-> hand.down, promised |-> promised, nextUpdate |-> m]
      /\ hand.down \in SUBSET Contacts /\ promised \in SUBSET Nat /\ \A v \in promised : v < m
  BY <1>1, <1>2
<1> HIDE DEF m, promised
<1>4. CASE found = {}
  <2>1. adapter' = adapter
    BY <1>2, <1>4 DEF Ios!HandleIosEstimatedUpdate
  <2>. QED
    BY <1>1, <1>2, <1>3, <2>1, IosLeaves
<1>5. CASE found # {}
  <2> DEFINE z == y \ found
             b == [adapter EXCEPT !.pending = z]
             f == CHOOSE e \in found : TRUE
             e == Sample("Revise", f.pointer, "none", 0, u)
  <2>1. f \in found
    BY <1>5
  <2>2. f \in y /\ f.update = u /\ f.pointer \in Nat \ {0} /\ \A g \in z : g \in y /\ g.update # f.update
    BY <1>1, <2>1
  <2>3. adapter' = Emit(b, "Revise", f.pointer, "none", 0, u)
    BY <1>2, <1>5, OnIos DEF Ios!HandleIosEstimatedUpdate, Ios!Revise
  <2> HIDE DEF f, found, z
  <2>4. AdapterInv(b) /\ b.pending = z /\ b.queue = adapter.queue /\ b.contacts = adapter.contacts
        /\ b.nextPointer = adapter.nextPointer
    BY <1>1, PendingIsFree
  <2> HIDE DEF b
  <2>5. "Revise" \in Phases /\ "none" \in Tool \cup {"none"} /\ 0 \in Readings
    BY DEF Phases, Readings
  <2>6. f.pointer \in Int /\ f.pointer < b.nextPointer
    <3>1. Awaited(adapter.queue, f)
      BY <1>1, <2>2 DEF IosTold
    <3>2. \A i \in DOMAIN adapter.queue : adapter.queue[i].pointer < adapter.nextPointer
      BY <1>1 DEF AdapterInv, SlotInv
    <3>. QED
      BY <2>2, <2>4, <3>1, <3>2 DEF Awaited
  <2>7. Aside(b, adapter', "none") /\ adapter'.queue = Append(b.queue, e)
    <3> DEFINE r == Emit(b, "Revise", f.pointer, "none", 0, u)
    <3>1. u \in Nat
      BY <1>2
    <3>2. Aside(b, r, "none") /\ r.queue = Append(b.queue, e)
      BY <2>4, <2>5, <2>6, <3>1, AsideKeeps
    <3> HIDE DEF r, e
    <3>3. adapter' = r
      BY <2>3 DEF r
    <3>. QED
      BY <3>2, <3>3
  <2>8. e \in Event /\ e.phase = "Revise" /\ e.pointer = f.pointer /\ e.update = u
    BY <1>2, <2>5, <2>6, SampleIs
  <2> HIDE DEF e
  <2>9. IosTold(Append(adapter.queue, e), z, m)
    BY <1>1, <2>2, <2>8, RevisionTold
  <2>10. AdapterInv(adapter') /\ adapter'.contacts = adapter.contacts /\ adapter'.pending = z
    BY <2>4, <2>7 DEF Aside
  <2>11. IosTold(adapter'.queue, adapter'.pending, m)
    BY <2>4, <2>7, <2>9, <2>10
  <2>12. adapter'.pending \subseteq [update : 1 .. MaxUpdates, pointer : Nat \ {0}]
    BY <1>1, <2>2, <2>10
  <2>. QED
    BY <1>1, <1>2, <1>3, <2>10, <2>11, <2>12, IosLeaves
<1>. QED
  BY <1>4, <1>5

LEMMA IosOthers ==
    ASSUME IosInv, Ios!PencilInteraction \/ \E t \in Contacts : Ios!PencilLeaves(t)
    PROVE  IosInv'
<1> DEFINE m == hand.nextUpdate
           y == adapter.pending
<1>1. /\ AdapterInv(adapter) /\ m \in Nat \ {0} /\ adapter.queue \in Seq(Event)
      /\ hand \in [down : SUBSET Contacts, promised : SUBSET Nat, nextUpdate : Nat \ {0}]
      /\ \A v \in hand.promised : v < m
      /\ IosTold(adapter.queue, y, m)
      /\ y \subseteq [update : 1 .. MaxUpdates, pointer : Nat \ {0}]
      /\ \A c \in Contacts : adapter.contacts[c] # NoPen => adapter.contacts[c].tool = "Pen"
  BY DEF IosInv, IosTold
<1>2. hand.down \in SUBSET Contacts /\ hand.promised \in SUBSET Nat
      /\ hand = [down |-> hand.down, promised |-> hand.promised, nextUpdate |-> m]
  BY <1>1
<1> HIDE DEF m
<1>3. CASE Ios!PencilInteraction
  <2> DEFINE e == Sample("PencilInteraction", NoPointer, "none", 0, 0)
  <2>1. adapter' = Emit(adapter, "PencilInteraction", NoPointer, "none", 0, 0) /\ backend' = backend /\ hand' = hand
    BY <1>3, OnIos DEF Ios!PencilInteraction
  <2>2. "PencilInteraction" \in Phases /\ "none" \in Tool \cup {"none"} /\ 0 \in Readings /\ 0 \in Nat
        /\ NoPointer \in Int /\ NoPointer \in {Mouse, NoPointer} /\ NoPointer < adapter.nextPointer
    BY <1>1 DEF Phases, Readings, NoPointer, AdapterInv, SlotInv
  <2>3. Aside(adapter, adapter', "none") /\ adapter'.queue = Append(adapter.queue, e)
    <3> DEFINE r == Emit(adapter, "PencilInteraction", NoPointer, "none", 0, 0)
    <3>1. Aside(adapter, r, "none") /\ r.queue = Append(adapter.queue, e)
      <4> DEFINE phase == "PencilInteraction"
                 k == NoPointer
                 tool == "none"
      <4>1. AdapterInv(adapter) /\ phase \in Phases /\ k \in Int /\ tool \in Tool \cup {"none"}
            /\ k < adapter.nextPointer /\ k \in {Mouse, NoPointer}
        BY <1>1, <2>2
      <4>2. 0 \in Readings /\ 0 \in Nat
        BY <2>2
      <4> HIDE DEF phase, k, tool
      <4>3. /\ Aside(adapter, Emit(adapter, phase, k, tool, 0, 0), tool)
            /\ Emit(adapter, phase, k, tool, 0, 0).queue = Append(adapter.queue, Sample(phase, k, tool, 0, 0))
        BY <4>1, <4>2, AsideKeeps
      <4>. QED
        BY <4>3 DEF phase, k, tool
    <3> HIDE DEF r, e
    <3>2. adapter' = r
      BY <2>1 DEF r
    <3>. QED
      BY <3>1, <3>2
  <2>4. e \in Event /\ e.phase = "PencilInteraction"
    BY <2>2, SampleIs
  <2> HIDE DEF e
  <2>5. IosTold(Append(adapter.queue, e), y, m)
    BY <1>1, <2>4, SampleTold
  <2>6. AdapterInv(adapter') /\ adapter'.contacts = adapter.contacts /\ adapter'.pending = y
    BY <2>3 DEF Aside
  <2>7. IosTold(adapter'.queue, adapter'.pending, m)
    BY <2>3, <2>5, <2>6
  <2>8. hand' = [down |-> hand.down, promised |-> hand.promised, nextUpdate |-> m]
    BY <1>2, <2>1
  <2>. QED
    BY <1>1, <1>2, <2>1, <2>6, <2>7, <2>8, IosLeaves
<1>4. ASSUME NEW t \in Contacts, Ios!PencilLeaves(t)
      PROVE  IosInv'
  <2> DEFINE old == adapter.contacts[t]
             e == Sample("Cancel", old.pointer, old.tool, 0, 0)
  <2>1. adapter' = ContactLeaves(adapter, t) /\ backend' = backend
        /\ hand' = [hand EXCEPT !.down = @ \ {t}]
    BY <1>4, OnIos DEF Ios!PencilLeaves, Ios!HandleIosProximity
  <2>2. OfContact(adapter, adapter', t, old.tool) /\ adapter'.contacts[t] = NoPen
    BY <1>1, <2>1, ContactLeavesKeeps
  <2>3. adapter'.queue = IF old = NoPen THEN adapter.queue ELSE Append(adapter.queue, e)
    BY <1>1, <2>1, ContactTells
  <2>4. AdapterInv(adapter') /\ adapter'.pending \subseteq y
        /\ \A c \in Contacts : adapter'.contacts[c] # NoPen => adapter'.contacts[c].tool = "Pen"
    BY <1>1, <2>2 DEF OfContact
  <2>5. old # NoPen => e \in Event /\ e.phase = "Cancel"
    <3>1. old \in Pen
      BY <1>1 DEF AdapterInv
    <3>2. "Cancel" \in Phases /\ 0 \in Readings /\ 0 \in Nat /\ old.pointer \in Int /\ old.tool \in Tool \cup {"none"}
      BY <3>1 DEF Phases, Readings, Pen
    <3>. QED
      BY <3>2, SampleIs
  <2> HIDE DEF e, old
  <2>6. IosTold(adapter.queue, adapter'.pending, m)
    BY <1>1, <2>4 DEF IosTold
  <2>7. IosTold(adapter'.queue, adapter'.pending, m)
    <3>1. CASE old = NoPen
      BY <2>3, <2>6, <3>1
    <3>2. CASE old # NoPen
      BY <1>1, <2>3, <2>4, <2>5, <3>2, SampleTold
    <3>. QED
      BY <3>1, <3>2
  <2>8. hand' = [down |-> hand.down \ {t}, promised |-> hand.promised, nextUpdate |-> m]
    BY <1>1, <2>1 DEF m
  <2>9. hand.down \ {t} \in SUBSET Contacts
    BY <1>2
  <2>10. adapter'.pending \subseteq [update : 1 .. MaxUpdates, pointer : Nat \ {0}]
    BY <1>1, <2>4
  <2>11. \A v \in hand.promised : v < m
    BY <1>1
  <2>. QED
    BY <1>1, <1>2, <2>1, <2>4, <2>7, <2>8, <2>9, <2>10, <2>11, IosLeaves
<1>. QED
  BY <1>3, <1>4

LEMMA IosSteps ==
    ASSUME IosInv, Ios!Next
    PROVE  IosInv'
BY IosTouches, IosUpdates, IosOthers DEF Ios!Next

(***************************************************************************)
(* X11.                                                                    *)
(***************************************************************************)
LEMMA OnX11 ==
    /\ X11!NewAdapter = NewAdapter /\ X11!NoPen = NoPen
    /\ \A a, d, phase, tool, reading :
          X11!HandleX11Raw(a, d, phase, tool, reading) = PenRaw(a, d, phase, tool, reading)
    /\ \A a, d, entering, tool :
          X11!HandleX11Proximity(a, d, entering, tool) = PenProximity(a, d, entering, tool)
<1>1. X11!NewAdapter = NewAdapter /\ X11!NoPen = NoPen
  BY DEF X11!NewAdapter, NewAdapter, X11!NoPen, NoPen, X11!NoPointer, NoPointer
<1>2. ASSUME NEW a, NEW d, NEW phase, NEW tool, NEW reading
      PROVE  X11!HandleX11Raw(a, d, phase, tool, reading) = PenRaw(a, d, phase, tool, reading)
  BY SMT DEF X11!HandleX11Raw, X11!PenRaw, PenRaw, X11!Entered, Entered,
             X11!StartPen, StartPen, X11!ContinuePen, ContinuePen, X11!Emit, Emit,
             X11!Deactivate, Deactivate, X11!Ends, Ends,
             X11!NoPen, NoPen, X11!NoPointer, NoPointer
<1>3. ASSUME NEW a, NEW d, NEW entering, NEW tool
      PROVE  X11!HandleX11Proximity(a, d, entering, tool) = PenProximity(a, d, entering, tool)
  BY SMT DEF X11!HandleX11Proximity, X11!PenProximity, PenProximity, X11!Entered, Entered,
             X11!PenEnters, PenEnters, X11!PenLeaves, PenLeaves, X11!Emit, Emit,
             X11!Deactivate, Deactivate, X11!TakePending, TakePending,
             X11!NoPen, NoPen, X11!NoPointer, NoPointer
<1>. QED
  BY <1>1, <1>2, <1>3

AxisValues == [X11!Axes -> 0 .. 1]

X11Changes == {"DeviceChanged", "Hierarchy"}
X11Types   == {"Motion", "Press", "Release", "Enter", "Leave"} \cup X11Changes
X11Event   == [type : X11Types, device : Tools, index : -1 .. 1, value : 0 .. 1]
X11Device  == [present : BOOLEAN, layout : X11!Layouts, axes : AxisValues, buttons : Int]
X11Hand    == [devices : [Tools -> X11Device], wire : Seq(X11Event), selected : SUBSET Tools,
               listening : BOOLEAN, selecting : BOOLEAN, missed : SUBSET Tools]

\* The cache `k' of a device is what the server has, `s'.
X11Current(k, s) == (k.cached <=> s.present) /\ (k.cached => k.layout = s.layout)

X11Told(wire, d) == \E i \in DOMAIN wire : wire[i].device = d /\ wire[i].type \in X11Changes

X11Inv ==
    /\ AdapterInv(adapter) /\ adapter.pending = {}
    /\ X11!BackendOK
    /\ hand \in X11Hand
    /\ \A d \in Tools : adapter.pens[d] # NoPen => adapter.pens[d].tool = X11!Kind(d)
    /\ \A d \in Tools : backend[d].cached /\ backend[d].inProximity => adapter.pens[d] # NoPen
    /\ \A d \in Tools :
          d \in hand.missed \/ X11Told(hand.wire, d) \/ X11Current(backend[d], hand.devices[d])

LEMMA X11Typed ==
    /\ X11!Layouts \subseteq AxisValues
    /\ X11!Usual \in X11!Layouts /\ X11!AtRest \in AxisValues
    /\ AxisValues \subseteq Readings
<1>1. X11!Layouts \subseteq AxisValues /\ X11!AtRest \in AxisValues /\ AxisValues \subseteq Readings
  BY DEF X11!Layouts, AxisValues, X11!AtRest, X11!Axes, Readings
<1>2. X11!Usual \in [X11!Axes -> 0 .. 1] /\ X11!Usual["position"] = 0 /\ X11!Usual["pressure"] = 1
  BY DEF X11!Usual, X11!Axes
<1>3. X11!Usual \in X11!Layouts
  BY <1>2 DEF X11!Layouts
<1>. QED
  BY <1>1, <1>3

LEMMA X11Flags ==
    /\ \A k \in X11!StylusDevice : k.cached = TRUE /\ k.inProximity \in BOOLEAN
    /\ X11!NoDevice.cached = FALSE
    /\ \A k \in X11!StylusDevice \cup {X11!NoDevice} : k.cached \in BOOLEAN
    /\ \A s \in X11Device : s.present \in BOOLEAN
<1>1. \A k \in X11!StylusDevice : k.cached = TRUE /\ k.inProximity \in BOOLEAN
  BY DEF X11!StylusDevice
<1>2. X11!NoDevice.cached = FALSE
  BY DEF X11!NoDevice
<1>3. \A s \in X11Device : s.present \in BOOLEAN
  BY DEF X11Device
<1>4. \A k \in X11!StylusDevice \cup {X11!NoDevice} : k.cached = TRUE \/ k.cached = FALSE
  BY <1>1, <1>2
<1>. QED
  BY <1>1, <1>2, <1>3, <1>4

\* reenumerate takes the layout of every device there is, and of no other.
LEMMA X11Reenumerates ==
    ASSUME NEW known \in [Tools -> X11!StylusDevice \cup {X11!NoDevice}], NEW server \in X11Hand
    PROVE  LET r == X11!Reenumerate(known, server)
           IN  /\ r \in [Tools -> X11!StylusDevice \cup {X11!NoDevice}]
               /\ \A d \in Tools : X11Current(r[d], server.devices[d])
               /\ \A d \in Tools : r[d].cached /\ r[d].inProximity => known[d].cached /\ known[d].inProximity
<1> DEFINE P(d) == known[d].cached /\ known[d].inProximity
           V(d) == IF known[d].cached THEN known[d].last ELSE X11!AtRest
           k(d) == [cached |-> TRUE, layout |-> server.devices[d].layout, last |-> V(d), inProximity |-> P(d)]
           r == X11!Reenumerate(known, server)
<1>1. r = [d \in Tools |-> IF ~server.devices[d].present THEN X11!NoDevice ELSE k(d)]
  BY Zenon DEF X11!Reenumerate, X11!Enumerated
<1>2. ASSUME NEW d \in Tools
      PROVE  /\ k(d) \in X11!StylusDevice
             /\ k(d).cached /\ k(d).layout = server.devices[d].layout
             /\ k(d).inProximity => known[d].cached /\ known[d].inProximity
  <2>1. server.devices[d] \in X11Device /\ known[d] \in X11!StylusDevice \cup {X11!NoDevice}
    BY DEF X11Hand
  <2>2. P(d) \in BOOLEAN
    OBVIOUS
  <2>3. V(d) \in AxisValues
    <3>1. known[d].cached => known[d] \in X11!StylusDevice
      BY <2>1, X11Flags
    <3>. QED
      BY <3>1, X11Typed DEF X11!StylusDevice, AxisValues
  <2>4. server.devices[d].layout \in X11!Layouts
    BY <2>1 DEF X11Device
  <2> DEFINE p == P(d)
             v == V(d)
             l == server.devices[d].layout
             kd == [cached |-> TRUE, layout |-> l, last |-> v, inProximity |-> p]
  <2>5. p => known[d].cached /\ known[d].inProximity
    OBVIOUS
  <2>6. k(d) = kd
    OBVIOUS
  <2> HIDE DEF p, v, l
  <2>7. kd \in X11!StylusDevice /\ kd.cached /\ kd.layout = l /\ (kd.inProximity <=> p)
    BY <2>2, <2>3, <2>4 DEF X11!StylusDevice, AxisValues, p, v, l
  <2> HIDE DEF kd, k
  <2>. QED
    BY <2>5, <2>6, <2>7 DEF l
<1> HIDE DEF k, P, V
<1>3. ASSUME NEW d \in Tools
      PROVE  /\ r[d] \in X11!StylusDevice \cup {X11!NoDevice}
             /\ X11Current(r[d], server.devices[d])
             /\ r[d].cached /\ r[d].inProximity => known[d].cached /\ known[d].inProximity
  <2>1. r[d] = IF ~server.devices[d].present THEN X11!NoDevice ELSE k(d)
    BY <1>1
  <2>. QED
    BY <1>2, <2>1, X11Flags DEF X11Current
<1>4. r \in [Tools -> X11!StylusDevice \cup {X11!NoDevice}]
  <2> DEFINE K == X11!StylusDevice \cup {X11!NoDevice}
             f(d) == IF ~server.devices[d].present THEN X11!NoDevice ELSE k(d)
  <2>1. \A d \in Tools : f(d) \in K
    BY <1>2
  <2>2. r = [d \in Tools |-> f(d)]
    BY <1>1
  <2> HIDE DEF f, K, r
  <2>3. r \in [Tools -> K]
    BY <2>1, <2>2
  <2>. QED
    BY <2>3 DEF K
<1>. QED
  BY <1>3, <1>4

LEMMA X11Says ==
    ASSUME X11Inv
    PROVE  /\ AdapterInv(adapter) /\ adapter.pending = {} /\ X11!BackendOK
           /\ X11!ProximityIsKnown /\ X11!LayoutIsCurrent
<1>1. X11!ProximityIsKnown
  BY OnX11 DEF X11Inv, X11!ProximityIsKnown
<1>2. ASSUME NEW d \in Tools, d \notin hand.missed, ~X11Told(hand.wire, d)
      PROVE  backend[d].cached = hand.devices[d].present
                 /\ (backend[d].cached => backend[d].layout = hand.devices[d].layout)
  <2>1. X11Current(backend[d], hand.devices[d])
    BY <1>2 DEF X11Inv
  <2>2. backend[d].cached \in BOOLEAN /\ hand.devices[d].present \in BOOLEAN
    <3>1. backend[d] \in X11!StylusDevice \cup {X11!NoDevice} /\ hand.devices[d] \in X11Device
      BY DEF X11Inv, X11!BackendOK, X11Hand
    <3>. QED
      BY <3>1, X11Flags
  <2>3. backend[d].cached = hand.devices[d].present
    <3>1. backend[d].cached <=> hand.devices[d].present
      BY <2>1 DEF X11Current
    <3>. QED
      BY <2>2, <3>1
  <2>. QED
    BY <2>1, <2>3 DEF X11Current
<1>3. X11!LayoutIsCurrent
  BY <1>2, Zenon DEF X11!LayoutIsCurrent, X11Told, X11Changes, X11!Changes
<1>. QED
  BY <1>1, <1>3 DEF X11Inv

LEMMA X11Starts ==
    ASSUME X11!Init
    PROVE  X11Inv
<1> DEFINE dev == [present |-> TRUE, layout |-> X11!Usual, axes |-> X11!AtRest, buttons |-> 0]
           known == [d \in Tools |-> X11!NoDevice]
<1>1. adapter = NewAdapter
  BY OnX11 DEF X11!Init
<1>2. AdapterInv(adapter) /\ adapter.pending = {} /\ \A d \in Devices : adapter.pens[d] = NoPen
  BY <1>1, InitAdapter DEF NewAdapter
<1>3. hand = [devices |-> [d \in Tools |-> dev], wire |-> << >>, selected |-> {},
              listening |-> FALSE, selecting |-> TRUE, missed |-> {}]
  BY DEF X11!Init
<1>4. dev \in X11Device
  BY X11Typed DEF X11Device
<1> HIDE DEF dev
<1>5. hand \in X11Hand
  <2> DEFINE f == [d \in Tools |-> dev]
  <2>1. f \in [Tools -> X11Device]
    BY <1>4
  <2> HIDE DEF f
  <2>2. hand = [devices |-> f, wire |-> << >>, selected |-> {},
                listening |-> FALSE, selecting |-> TRUE, missed |-> {}]
    BY <1>3 DEF f
  <2>. QED
    BY <2>1, <2>2 DEF X11Hand
<1>6. known \in [Tools -> X11!StylusDevice \cup {X11!NoDevice}] /\ \A d \in Tools : known[d].cached = FALSE
  BY X11Flags
<1>7. backend = X11!Reenumerate(known, hand)
  BY DEF X11!Init
<1> HIDE DEF known
<1>8. /\ backend \in [Tools -> X11!StylusDevice \cup {X11!NoDevice}]
      /\ \A d \in Tools : X11Current(backend[d], hand.devices[d])
      /\ \A d \in Tools : backend[d].cached /\ backend[d].inProximity => known[d].cached
  BY <1>5, <1>6, <1>7, X11Reenumerates
<1>9. \A d \in Tools : adapter.pens[d] = NoPen
  BY <1>2, TabletAssumption
<1>. QED
  BY <1>2, <1>5, <1>6, <1>8, <1>9 DEF X11Inv, X11!BackendOK

\* What the handling of an event does to the cache `c' and the adapter `a'.
X11Handles(e, a, c) ==
    /\ OfPen(adapter, a, e.device)
    /\ a.pens[e.device] # NoPen => a.pens[e.device].tool = X11!Kind(e.device)
    /\ c \in [Tools -> X11!StylusDevice \cup {X11!NoDevice}]
    /\ \A d \in Tools : c[d].cached /\ c[d].inProximity => a.pens[d] # NoPen
    /\ IF e.type \in X11Changes
       THEN \A d \in Tools : X11Current(c[d], hand.devices[d])
       ELSE \A d \in Tools : /\ c[d].cached = backend[d].cached
                             /\ c[d].cached => c[d].layout = backend[d].layout

LEMMA X11Kinds ==
    ASSUME NEW d \in Tools
    PROVE  X11!Kind(d) \in Tool \ {"Finger"} /\ d \in Devices
BY TabletAssumption DEF X11!Kind, Tool

\* Nothing was handled, or the cache was taken anew.
LEMMA X11Same ==
    ASSUME X11Inv, NEW e \in X11Event, e.type \notin X11Changes
    PROVE  X11Handles(e, adapter, backend)
<1>1. e.device \in Tools
  BY DEF X11Event
<1>2. OfPen(adapter, adapter, e.device)
  BY OfPenSame DEF X11Inv
<1>. QED
  BY <1>1, <1>2 DEF X11Handles, X11Inv, X11!BackendOK

LEMMA X11Anew ==
    ASSUME X11Inv, NEW e \in X11Event, e.type \in X11Changes
    PROVE  X11Handles(e, adapter, X11!Reenumerate(backend, hand))
<1> DEFINE c == X11!Reenumerate(backend, hand)
<1>1. e.device \in Tools
  BY DEF X11Event
<1>2. OfPen(adapter, adapter, e.device)
  BY OfPenSame DEF X11Inv
<1>3. /\ c \in [Tools -> X11!StylusDevice \cup {X11!NoDevice}]
      /\ \A d \in Tools : X11Current(c[d], hand.devices[d])
      /\ \A d \in Tools : c[d].cached /\ c[d].inProximity => backend[d].cached /\ backend[d].inProximity
  BY X11Reenumerates DEF X11Inv, X11!BackendOK
<1> HIDE DEF c
<1>4. X11Handles(e, adapter, c)
  BY <1>1, <1>2, <1>3 DEF X11Handles, X11Inv
<1>. QED
  BY <1>4 DEF c

\* The entry of the device of an event changes, but not its layout.
LEMMA X11One ==
    ASSUME X11Inv, NEW e \in X11Event, e.type \notin X11Changes, backend[e.device].cached,
           NEW a, OfPen(adapter, a, e.device),
           a.pens[e.device] # NoPen => a.pens[e.device].tool = X11!Kind(e.device),
           NEW k \in X11!StylusDevice, k.layout = backend[e.device].layout,
           k.inProximity => a.pens[e.device] # NoPen
    PROVE  X11Handles(e, a, [backend EXCEPT ![e.device] = k])
<1> DEFINE d == e.device
           c == [backend EXCEPT ![d] = k]
<1>1. d \in Tools /\ backend \in [Tools -> X11!StylusDevice \cup {X11!NoDevice}]
  BY DEF X11Event, X11Inv, X11!BackendOK
<1>2. /\ c \in [Tools -> X11!StylusDevice \cup {X11!NoDevice}] /\ c[d] = k
      /\ \A j \in Tools : j # d => c[j] = backend[j]
  BY <1>1
<1>3. k.cached = TRUE /\ backend[d].cached = TRUE
  BY <1>1, X11Flags
<1>4. \A j \in Tools : j # d => a.pens[j] = adapter.pens[j]
  BY X11Kinds DEF OfPen
<1> HIDE DEF c
<1>5. \A j \in Tools : c[j].cached /\ c[j].inProximity => a.pens[j] # NoPen
  BY <1>2, <1>4 DEF X11Inv
<1>6. \A j \in Tools : c[j].cached = backend[j].cached /\ (c[j].cached => c[j].layout = backend[j].layout)
  BY <1>2, <1>3
<1>7. X11Handles(e, a, c)
  BY <1>2, <1>5, <1>6 DEF X11Handles
<1>. QED
  BY <1>7 DEF c

LEMMA X11Axis ==
    ASSUME X11Inv, NEW e \in X11Event, e.type \notin X11Changes, NEW phase \in {"Move", "Down", "Up"}
    PROVE  LET h == X11!OnAxisEvent(adapter, backend, e, phase)
           IN  X11Handles(e, h.adapter, h.cache)
<1> DEFINE d == e.device
           device == backend[d]
           tool == X11!Kind(d)
           merged == X11!MergeAxisValues(device, e)
           near == IF device.inProximity THEN adapter ELSE PenProximity(adapter, d, TRUE, tool)
           r == PenRaw(near, d, phase, tool, merged.last)
           k == [merged EXCEPT !.inProximity = TRUE]
           h == X11!OnAxisEvent(adapter, backend, e, phase)
<1>0. h = IF ~device.cached THEN [adapter |-> adapter, cache |-> backend]
          ELSE [adapter |-> r, cache |-> [backend EXCEPT ![d] = k]]
  BY OnX11 DEF X11!OnAxisEvent, X11!BuildSample
<1>1. d \in Tools /\ device \in X11!StylusDevice \cup {X11!NoDevice} /\ d \in Devices /\ tool \in Tool \ {"Finger"}
      /\ AdapterInv(adapter) /\ (adapter.pens[d] # NoPen => adapter.pens[d].tool = tool)
  BY X11Kinds DEF X11Event, X11Inv, X11!BackendOK
<1>2. Drawing(adapter.pens[d]) => adapter.pens[d] # NoPen
  BY DEF Drawing, NoPen
<1>3. CASE ~device.cached
  <2>1. h.adapter = adapter /\ h.cache = backend
    BY <1>0, <1>3
  <2>. QED
    BY <2>1, X11Same
<1>4. CASE device.cached
  <2>0. device \in X11!StylusDevice
    BY <1>1, <1>4, X11Flags
  <2>1. merged \in X11!StylusDevice /\ merged.layout = device.layout
    <3> DEFINE v == [x \in X11!Axes |-> IF device.layout[x] = e.index THEN e.value ELSE device.last[x]]
    <3>1. device.last \in AxisValues /\ e.value \in 0 .. 1
      BY <2>0 DEF X11!StylusDevice, X11Event, AxisValues
    <3>2. v \in AxisValues
      BY <3>1 DEF AxisValues
    <3>3. merged = [device EXCEPT !.last = v]
      BY DEF X11!MergeAxisValues
    <3> HIDE DEF v
    <3>. QED
      BY <2>0, <3>2, <3>3 DEF X11!StylusDevice, AxisValues
  <2>2. k \in X11!StylusDevice /\ k.layout = device.layout
    <3> HIDE DEF merged
    <3>. QED
      BY <2>1 DEF X11!StylusDevice
  <2>3. merged.last \in Readings
    BY <2>1, X11Typed DEF X11!StylusDevice, AxisValues
  <2> HIDE DEF merged, k
  <2>4. /\ OfPen(adapter, near, d)
        /\ near.pens[d] # NoPen => near.pens[d].tool = tool
    <3>1. CASE device.inProximity
      <4>1. near = adapter
        BY <3>1
      <4> HIDE DEF near
      <4>. QED
        BY <1>1, <4>1, OfPenSame
    <3>2. CASE ~device.inProximity
      <4> DEFINE entering == TRUE
                 b == PenProximity(adapter, d, entering, tool)
      <4>1. entering /\ Drawing(adapter.pens[d]) => adapter.pens[d].tool = tool
        BY <1>1, <1>2
      <4>2. near = b /\ entering
        BY <3>2
      <4> HIDE DEF entering, near, device, tool, d
      <4>3. PenNears(adapter, b, d, entering, tool)
        BY <1>1, <4>1, PenProximityKeeps
      <4> HIDE DEF b
      <4>. QED
        BY <4>2, <4>3 DEF PenNears
    <3>. QED
      BY <3>1, <3>2
  <2>5. AdapterInv(near) /\ phase \in {"Down", "Move", "Up", "Cancel"}
    BY <2>4 DEF OfPen
  <2> HIDE DEF near
  <2>6. PenDraws(near, r, d, phase, tool)
    BY <1>1, <2>3, <2>5, PenRawKeeps
  <2> HIDE DEF r
  <2>7. OfPen(adapter, r, d) /\ r.pens[d] # NoPen /\ r.pens[d].tool = tool
    BY <2>4, <2>6, OfPenOn DEF PenDraws
  <2>8. h.adapter = r /\ h.cache = [backend EXCEPT ![d] = k]
    BY <1>0, <1>4
  <2> HIDE DEF h
  <2>9. X11Handles(e, r, [backend EXCEPT ![d] = k])
    BY <1>4, <2>2, <2>7, X11One
  <2>. QED
    BY <2>8, <2>9 DEF h
<1>. QED
  BY <1>3, <1>4

LEMMA X11Crossing ==
    ASSUME X11Inv, NEW e \in X11Event, e.type \notin X11Changes, NEW entering \in BOOLEAN
    PROVE  LET h == X11!SynthesizeProximity(adapter, backend, e, entering)
           IN  X11Handles(e, h.adapter, h.cache)
<1> DEFINE d == e.device
           device == backend[d]
           tool == X11!Kind(d)
           r == PenProximity(adapter, d, entering, tool)
           k == [device EXCEPT !.inProximity = entering]
           h == X11!SynthesizeProximity(adapter, backend, e, entering)
<1>0. h = IF ~device.cached \/ device.inProximity = entering
          THEN [adapter |-> adapter, cache |-> backend]
          ELSE [adapter |-> r, cache |-> [backend EXCEPT ![d].inProximity = entering]]
  BY OnX11 DEF X11!SynthesizeProximity
<1>1. d \in Tools /\ device \in X11!StylusDevice \cup {X11!NoDevice} /\ d \in Devices /\ tool \in Tool \ {"Finger"}
      /\ AdapterInv(adapter) /\ (adapter.pens[d] # NoPen => adapter.pens[d].tool = tool)
  BY X11Kinds DEF X11Event, X11Inv, X11!BackendOK
<1>2. Drawing(adapter.pens[d]) => adapter.pens[d] # NoPen
  BY DEF Drawing, NoPen
<1>3. CASE ~device.cached \/ device.inProximity = entering
  <2>1. h.adapter = adapter /\ h.cache = backend
    BY <1>0, <1>3
  <2>. QED
    BY <2>1, X11Same
<1>4. CASE ~(~device.cached \/ device.inProximity = entering)
  <2>1. device \in X11!StylusDevice
    BY <1>1, <1>4, X11Flags
  <2>2. k \in X11!StylusDevice /\ k.layout = device.layout /\ k.inProximity = entering
    BY <2>1 DEF X11!StylusDevice
  <2>3. [backend EXCEPT ![d].inProximity = entering] = [backend EXCEPT ![d] = k]
    OBVIOUS
  <2>4. h.adapter = r /\ h.cache = [backend EXCEPT ![d] = k]
    BY <1>0, <1>4, <2>3
  <2> HIDE DEF k, h
  <2>5. PenNears(adapter, r, d, entering, tool)
    BY <1>1, <1>2, PenProximityKeeps
  <2> HIDE DEF r
  <2>6. OfPen(adapter, r, d) /\ (entering => r.pens[d].tool = tool) /\ (~entering => r.pens[d] = NoPen)
    BY <2>5 DEF PenNears
  <2>7. "none" # tool
    BY <1>1 DEF Tool
  <2> HIDE DEF tool
  <2>8. (r.pens[d] # NoPen => r.pens[d].tool = tool) /\ (entering => r.pens[d] # NoPen)
    BY <2>6, <2>7 DEF NoPen
  <2>9. X11Handles(e, r, [backend EXCEPT ![d] = k])
    BY <1>4, <2>2, <2>6, <2>8, X11One DEF tool
  <2>. QED
    BY <2>4, <2>9 DEF h
<1>. QED
  BY <1>3, <1>4

LEMMA X11Events ==
    ASSUME X11Inv, NEW e \in X11Event
    PROVE  LET h == X11!HandleEvent(adapter, backend, hand, e)
           IN  X11Handles(e, h.adapter, h.cache)
<1> DEFINE h == X11!HandleEvent(adapter, backend, hand, e)
<1>1. e.type \in X11Types
  BY DEF X11Event
<1>2. /\ e.type = "Motion" => h = X11!OnAxisEvent(adapter, backend, e, "Move")
      /\ e.type = "Press" => h = X11!OnAxisEvent(adapter, backend, e, "Down")
      /\ e.type = "Release" => h = X11!OnAxisEvent(adapter, backend, e, "Up")
  BY DEF X11!HandleEvent
<1>3. /\ e.type = "Enter" => h = X11!SynthesizeProximity(adapter, backend, e, TRUE)
      /\ e.type = "Leave" => h = X11!SynthesizeProximity(adapter, backend, e, FALSE)
  BY DEF X11!HandleEvent
<1>4. e.type \in X11Changes => h = [adapter |-> adapter, cache |-> X11!Reenumerate(backend, hand)]
  BY DEF X11!HandleEvent, X11Changes
<1> HIDE DEF h
<1>5. CASE e.type \in X11Changes
  <2>1. h.adapter = adapter /\ h.cache = X11!Reenumerate(backend, hand)
    BY <1>4, <1>5
  <2>2. X11Handles(e, adapter, X11!Reenumerate(backend, hand))
    BY <1>5, X11Anew
  <2>. QED
    BY <2>1, <2>2 DEF h
<1>6. CASE e.type \in {"Motion", "Press", "Release"}
  <2>1. e.type \notin X11Changes
    BY <1>6 DEF X11Changes
  <2>. QED
    BY <1>2, <1>6, <2>1, X11Axis DEF h
<1>7. CASE e.type \in {"Enter", "Leave"}
  <2>1. e.type \notin X11Changes
    BY <1>7 DEF X11Changes
  <2>2. \E entering \in BOOLEAN : h = X11!SynthesizeProximity(adapter, backend, e, entering)
    BY <1>3, <1>7
  <2>. QED
    BY <2>1, <2>2, X11Crossing DEF h
<1>. QED
  BY <1>1, <1>5, <1>6, <1>7 DEF X11Types, h

LEMMA WireIs ==
    ASSUME NEW w \in Seq(X11Event), NEW d
    PROVE  /\ \A e \in X11Event :
                 /\ Append(w, e) \in Seq(X11Event)
                 /\ X11Told(w, d) => X11Told(Append(w, e), d)
                 /\ e.device = d /\ e.type \in X11Changes => X11Told(Append(w, e), d)
           /\ w # << >> =>
                 /\ Head(w) \in X11Event /\ Tail(w) \in Seq(X11Event)
                 /\ X11Told(w, d) => X11Told(Tail(w), d) \/ (Head(w).type \in X11Changes /\ Head(w).device = d)
<1>0. Len(w) \in Nat /\ DOMAIN w = 1 .. Len(w)
  OBVIOUS
<1>1. ASSUME NEW e \in X11Event
      PROVE  /\ Append(w, e) \in Seq(X11Event)
             /\ X11Told(w, d) => X11Told(Append(w, e), d)
             /\ e.device = d /\ e.type \in X11Changes => X11Told(Append(w, e), d)
  <2> DEFINE r == Append(w, e)
             n == Len(w)
  <2>1. /\ r \in Seq(X11Event) /\ DOMAIN r = 1 .. n + 1
        /\ \A i \in 1 .. n : r[i] = w[i]
        /\ r[n + 1] = e
    OBVIOUS
  <2> HIDE DEF r, n
  <2>2. n \in Nat /\ DOMAIN w = 1 .. n /\ (\A i \in 1 .. n : i \in 1 .. n + 1) /\ n + 1 \in 1 .. n + 1
    BY <1>0 DEF n
  <2>3. X11Told(w, d) => X11Told(r, d)
    BY <2>1, <2>2 DEF X11Told
  <2>4. e.device = d /\ e.type \in X11Changes => X11Told(r, d)
    BY <2>1, <2>2 DEF X11Told
  <2>. QED
    BY <2>1, <2>3, <2>4 DEF r
<1>2. ASSUME w # << >>
      PROVE  /\ Head(w) \in X11Event /\ Tail(w) \in Seq(X11Event)
             /\ X11Told(w, d) => X11Told(Tail(w), d) \/ (Head(w).type \in X11Changes /\ Head(w).device = d)
  <2> DEFINE r == Tail(w)
             n == Len(w)
  <2>1. n > 0
    BY <1>2, EmptySeq DEF n
  <2>2. /\ Head(w) = w[1] /\ Head(w) \in X11Event /\ r \in Seq(X11Event) /\ Len(r) = n - 1
        /\ \A i \in 1 .. n - 1 : r[i] = w[i + 1]
    BY <1>2, HeadTailProperties
  <2>3. DOMAIN r = 1 .. n - 1
    BY <2>2
  <2> HIDE DEF r, n
  <2>4. ASSUME NEW i \in DOMAIN w, w[i].device = d, w[i].type \in X11Changes, i # 1
        PROVE  X11Told(r, d)
    <3>1. i - 1 \in 1 .. n - 1 /\ (i - 1) + 1 = i
      BY <1>0, <2>4 DEF n
    <3>2. r[i - 1] = w[i]
      BY <2>2, <3>1
    <3>. QED
      BY <2>3, <2>4, <3>1, <3>2 DEF X11Told
  <2>5. ASSUME X11Told(w, d), ~X11Told(r, d)
        PROVE  Head(w).type \in X11Changes /\ Head(w).device = d
    <3>1. PICK i \in DOMAIN w : w[i].device = d /\ w[i].type \in X11Changes
      BY <2>5 DEF X11Told
    <3>2. i = 1
      BY <2>4, <2>5, <3>1
    <3>. QED
      BY <2>2, <3>1, <3>2
  <2>. QED
    BY <2>2, <2>5, Zenon DEF r
<1>. QED
  BY <1>1, <1>2

LEMMA X11Pumps ==
    ASSUME X11Inv, X11!PumpLoop
    PROVE  X11Inv'
<1> DEFINE e == Head(hand.wire)
           h == X11!HandleEvent(adapter, backend, hand, e)
           w == Tail(hand.wire)
           again == (e.type = "Hierarchy")
           missed == IF e.type \in X11!Changes THEN {} ELSE hand.missed
<1>1. /\ hand.wire # << >> /\ adapter' = h.adapter /\ backend' = h.cache
      /\ hand' = [hand EXCEPT !.wire = w, !.selecting = again, !.missed = missed]
  BY DEF X11!PumpLoop, X11!Taken
<1>2. /\ hand \in X11Hand /\ hand.wire \in Seq(X11Event) /\ hand.missed \in SUBSET Tools
      /\ AdapterInv(adapter) /\ adapter.pending = {}
  BY DEF X11Inv, X11Hand
<1>3. e \in X11Event /\ w \in Seq(X11Event)
      /\ \A d : X11Told(hand.wire, d) => X11Told(w, d) \/ e.type \in X11Changes
  BY <1>1, <1>2, WireIs
<1>4. /\ again \in BOOLEAN /\ missed \in SUBSET Tools
      /\ e.type \notin X11Changes => missed = hand.missed
  BY <1>2 DEF X11!Changes, X11Changes
<1> HIDE DEF e, w, again, missed
<1>5. X11Handles(e, h.adapter, h.cache)
  BY <1>3, X11Events
<1> HIDE DEF h
<1>6. hand' \in X11Hand /\ hand'.wire = w /\ hand'.devices = hand.devices /\ hand'.missed = missed
  BY <1>1, <1>2, <1>3, <1>4 DEF X11Hand
<1>7. /\ OfPen(adapter, adapter', e.device)
      /\ adapter'.pens[e.device] # NoPen => adapter'.pens[e.device].tool = X11!Kind(e.device)
      /\ backend' \in [Tools -> X11!StylusDevice \cup {X11!NoDevice}]
      /\ \A d \in Tools : backend'[d].cached /\ backend'[d].inProximity => adapter'.pens[d] # NoPen
  BY <1>1, <1>5 DEF X11Handles
<1>8. /\ AdapterInv(adapter') /\ adapter'.pending = {}
      /\ \A d \in Devices : d # e.device => adapter'.pens[d] = adapter.pens[d]
  BY <1>2, <1>7 DEF OfPen
<1>9. \A d \in Tools : adapter'.pens[d] # NoPen => adapter'.pens[d].tool = X11!Kind(d)
  BY <1>7, <1>8, X11Kinds DEF X11Inv
<1>10. ASSUME NEW d \in Tools
       PROVE  d \in hand'.missed \/ X11Told(hand'.wire, d) \/ X11Current(backend'[d], hand'.devices[d])
  <2>1. d \in hand.missed \/ X11Told(hand.wire, d) \/ X11Current(backend[d], hand.devices[d])
    BY DEF X11Inv
  <2>2. CASE e.type \in X11Changes
    BY <1>1, <1>5, <1>6, <2>2 DEF X11Handles
  <2>3. CASE e.type \notin X11Changes
    <3>1. backend'[d].cached = backend[d].cached /\ (backend'[d].cached => backend'[d].layout = backend[d].layout)
      BY <1>1, <1>5, <2>3 DEF X11Handles
    <3>2. X11Told(hand.wire, d) => X11Told(w, d)
      BY <1>3, <2>3
    <3>. QED
      BY <1>4, <1>6, <2>1, <2>3, <3>1, <3>2 DEF X11Current
  <2>. QED
    BY <2>2, <2>3
<1>. QED
  BY <1>6, <1>7, <1>8, <1>9, <1>10 DEF X11Inv, X11!BackendOK, X11!Kind

\* A query that failed leaves the cache as it is, of all devices it may have
\* been about.
LEMMA X11Fails ==
    ASSUME X11Inv, X11!ReenumerateFails
    PROVE  X11Inv'
<1> DEFINE e == Head(hand.wire)
           w == Tail(hand.wire)
           again == (e.type = "Hierarchy")
           missed == hand.missed \cup {e.device}
<1>1. /\ hand.wire # << >> /\ adapter' = adapter /\ backend' = backend
      /\ hand' = [hand EXCEPT !.wire = w, !.selecting = again, !.missed = missed]
  BY DEF X11!ReenumerateFails, X11!Taken
<1>2. hand \in X11Hand /\ hand.wire \in Seq(X11Event) /\ hand.missed \in SUBSET Tools
  BY DEF X11Inv, X11Hand
<1>3. e \in X11Event /\ w \in Seq(X11Event)
      /\ \A d : d # e.device /\ X11Told(hand.wire, d) => X11Told(w, d)
  BY <1>1, <1>2, WireIs
<1>4. again \in BOOLEAN /\ missed \in SUBSET Tools
  BY <1>2, <1>3 DEF X11Event
<1> HIDE DEF w, again
<1>5. hand' \in X11Hand /\ hand'.wire = w /\ hand'.devices = hand.devices /\ hand'.missed = missed
  <2> HIDE DEF missed
  <2>. QED
    BY <1>1, <1>2, <1>3, <1>4 DEF X11Hand
<1>6. \A d \in Tools : \/ d \in hand'.missed
                       \/ X11Told(hand'.wire, d) \/ X11Current(backend'[d], hand'.devices[d])
  BY <1>1, <1>3, <1>5 DEF X11Inv
<1>. QED
  BY <1>1, <1>5, <1>6 DEF X11Inv, X11!BackendOK, X11!Kind

\* A selection, and one that the server refused: the wire and the devices stay.
LEMMA X11Selects ==
    ASSUME X11Inv, X11!SelectEvents \/ X11!SelectEventsFails
    PROVE  X11Inv'
<1>1. adapter' = adapter /\ backend' = backend
  BY DEF X11!SelectEvents, X11!SelectEventsFails
<1>2. hand \in X11Hand
  BY DEF X11Inv
<1>3. /\ hand' \in X11Hand /\ hand'.wire = hand.wire
      /\ hand'.devices = hand.devices /\ hand'.missed = hand.missed
  <2>1. CASE X11!SelectEvents
    <3> DEFINE S == hand.selected \cup {d \in Tools : backend[d].cached}
    <3>1. hand' = [hand EXCEPT !.selected = S, !.listening = TRUE, !.selecting = FALSE]
      BY <2>1 DEF X11!SelectEvents
    <3>2. S \in SUBSET Tools
      BY <1>2 DEF X11Hand
    <3> HIDE DEF S
    <3>. QED
      BY <1>2, <3>1, <3>2 DEF X11Hand
  <2>2. CASE X11!SelectEventsFails
    <3>1. hand' = [hand EXCEPT !.selecting = FALSE]
      BY <2>2 DEF X11!SelectEventsFails
    <3>. QED
      BY <1>2, <3>1 DEF X11Hand
  <2>. QED
    BY <2>1, <2>2
<1>. QED
  BY <1>1, <1>3 DEF X11Inv, X11!BackendOK, X11!Kind

\* What the server sends of a device, whose state `server' has.
LEMMA X11Sends ==
    ASSUME X11Inv, NEW server \in X11Hand, server.wire = hand.wire, server.missed = hand.missed,
           NEW d \in Tools, NEW type \in X11Types, NEW index \in -1 .. 1, NEW value \in 0 .. 1,
           \A k \in Tools :
              \/ k = d /\ type \in X11Changes
              \/ /\ server.devices[k].present = hand.devices[k].present
                 /\ server.devices[k].layout = hand.devices[k].layout,
           X11!Send(server, type, d, index, value)
    PROVE  X11Inv'
<1> DEFINE e == [type |-> type, device |-> d, index |-> index, value |-> value]
           w == Append(hand.wire, e)
<1>1. adapter' = adapter /\ backend' = backend /\ hand' = [server EXCEPT !.wire = w]
  BY DEF X11!Send
<1>2. e \in X11Event /\ e.device = d /\ e.type = type
  BY DEF X11Event
<1> HIDE DEF e
<1>3. hand.wire \in Seq(X11Event)
  BY DEF X11Inv, X11Hand
<1>4. /\ w \in Seq(X11Event)
      /\ \A k : X11Told(hand.wire, k) => X11Told(w, k)
      /\ type \in X11Changes => X11Told(w, d)
  BY <1>2, <1>3, WireIs
<1> HIDE DEF w
<1>5. /\ hand' \in X11Hand /\ hand'.wire = w
      /\ hand'.devices = server.devices /\ hand'.missed = hand.missed
  BY <1>1, <1>4 DEF X11Hand
<1>6. ASSUME NEW k \in Tools
      PROVE  k \in hand'.missed \/ X11Told(hand'.wire, k) \/ X11Current(backend'[k], hand'.devices[k])
  <2>1. k \in hand.missed \/ X11Told(hand.wire, k) \/ X11Current(backend[k], hand.devices[k])
    BY DEF X11Inv
  <2>2. CASE k = d /\ type \in X11Changes
    BY <1>4, <1>5, <2>2
  <2>3. CASE /\ server.devices[k].present = hand.devices[k].present
             /\ server.devices[k].layout = hand.devices[k].layout
    <3>1. X11Current(backend[k], hand.devices[k]) => X11Current(backend[k], server.devices[k])
      BY <2>3 DEF X11Current
    <3>. QED
      BY <1>1, <1>4, <1>5, <2>1, <3>1
  <2>. QED
    BY <2>2, <2>3
<1>. QED
  BY <1>1, <1>5, <1>6 DEF X11Inv, X11!BackendOK, X11!Kind

\* What the server does with a device and may have to tell nobody.
LEMMA X11Alters ==
    ASSUME X11Inv, NEW server \in X11Hand, server.wire = hand.wire, server.missed = hand.missed,
           NEW d \in Tools, \A k \in Tools : k # d => server.devices[k] = hand.devices[k],
           NEW type \in X11Changes, NEW told, X11!Change(server, type, d, told)
    PROVE  X11Inv'
<1>1. CASE X11!Send(server, type, d, -1, 0)
  <2>1. type \in X11Types /\ -1 \in -1 .. 1 /\ 0 \in 0 .. 1
    BY DEF X11Types
  <2>2. \A k \in Tools :
           \/ k = d /\ type \in X11Changes
           \/ /\ server.devices[k].present = hand.devices[k].present
              /\ server.devices[k].layout = hand.devices[k].layout
    OBVIOUS
  <2>. QED
    BY <1>1, <2>1, <2>2, X11Sends
<1>2. CASE /\ hand' = [server EXCEPT !.missed = @ \cup {d}]
           /\ adapter' = adapter /\ backend' = backend
  <2> DEFINE missed == hand.missed \cup {d}
  <2>1. missed \in SUBSET Tools /\ d \in missed /\ \A k \in Tools : k \in hand.missed => k \in missed
    BY DEF X11Inv, X11Hand
  <2>2. hand' = [server EXCEPT !.missed = missed]
    BY <1>2
  <2> HIDE DEF missed
  <2>3. /\ hand' \in X11Hand /\ hand'.wire = hand.wire
        /\ hand'.devices = server.devices /\ hand'.missed = missed
    BY <2>1, <2>2 DEF X11Hand
  <2>4. \A k \in Tools : \/ k \in hand'.missed
                         \/ X11Told(hand'.wire, k) \/ X11Current(backend'[k], hand'.devices[k])
    BY <1>2, <2>1, <2>3 DEF X11Inv
  <2>. QED
    BY <1>2, <2>3, <2>4 DEF X11Inv, X11!BackendOK, X11!Kind
<1>. QED
  BY <1>1, <1>2, Zenon DEF X11!Change

\* The server has another state of one device.
LEMMA X11Devices ==
    ASSUME X11Inv, NEW d \in Tools
    PROVE  /\ hand \in X11Hand /\ hand.devices[d] \in X11Device
           /\ \A dev \in X11Device :
                 LET s == [hand EXCEPT !.devices = [hand.devices EXCEPT ![d] = dev]]
                 IN  /\ s \in X11Hand /\ s.wire = hand.wire /\ s.missed = hand.missed
                     /\ s.devices[d] = dev
                     /\ \A k \in Tools : k # d => s.devices[k] = hand.devices[k]
<1>1. hand \in X11Hand /\ hand.devices \in [Tools -> X11Device]
  BY DEF X11Inv, X11Hand
<1>2. ASSUME NEW dev \in X11Device
      PROVE  LET s == [hand EXCEPT !.devices = [hand.devices EXCEPT ![d] = dev]]
             IN  /\ s \in X11Hand /\ s.wire = hand.wire /\ s.missed = hand.missed
                 /\ s.devices[d] = dev
                 /\ \A k \in Tools : k # d => s.devices[k] = hand.devices[k]
  <2> DEFINE f == [hand.devices EXCEPT ![d] = dev]
             s == [hand EXCEPT !.devices = f]
  <2>1. f \in [Tools -> X11Device] /\ f[d] = dev /\ \A k \in Tools : k # d => f[k] = hand.devices[k]
    BY <1>1
  <2> HIDE DEF f
  <2>2. s \in X11Hand /\ s.wire = hand.wire /\ s.missed = hand.missed /\ s.devices = f
    BY <1>1, <2>1 DEF X11Hand
  <2> HIDE DEF s
  <2>3. /\ s \in X11Hand /\ s.wire = hand.wire /\ s.missed = hand.missed
        /\ s.devices[d] = dev
        /\ \A k \in Tools : k # d => s.devices[k] = hand.devices[k]
    BY <2>1, <2>2
  <2>. QED
    BY <2>3 DEF s, f
<1>. QED
  BY <1>1, <1>2

\* What the server tells of a device that stays as it is laid out.
LEMMA X11Quiet ==
    ASSUME X11Inv, NEW d \in Tools, NEW dev \in X11Device,
           dev.present = hand.devices[d].present, dev.layout = hand.devices[d].layout,
           NEW type \in X11Types, NEW index \in -1 .. 1, NEW value \in 0 .. 1,
           X11!Send([hand EXCEPT !.devices = [hand.devices EXCEPT ![d] = dev]], type, d, index, value)
    PROVE  X11Inv'
<1> DEFINE s == [hand EXCEPT !.devices = [hand.devices EXCEPT ![d] = dev]]
<1>1. /\ s \in X11Hand /\ s.wire = hand.wire /\ s.missed = hand.missed /\ s.devices[d] = dev
      /\ \A k \in Tools : k # d => s.devices[k] = hand.devices[k]
  BY X11Devices
<1>2. X11!Send(s, type, d, index, value)
  OBVIOUS
<1> HIDE DEF s
<1>3. \A k \in Tools : s.devices[k].present = hand.devices[k].present /\ s.devices[k].layout = hand.devices[k].layout
  BY <1>1
<1>. QED
  BY <1>1, <1>2, <1>3, X11Sends

LEMMA X11Serves ==
    ASSUME X11Inv, NEW d \in Tools, X11!Server(d)
    PROVE  X11Inv'
<1> DEFINE dev == hand.devices[d]
<1>1. hand \in X11Hand /\ dev \in X11Device
  BY X11Devices
<1>2. dev.layout \in AxisValues /\ dev.axes \in AxisValues /\ dev.buttons \in Int /\ hand.devices \in [Tools -> X11Device]
  BY <1>1, X11Typed DEF X11Device, X11Hand
<1>3. -1 \in -1 .. 1 /\ 0 \in 0 .. 1
      /\ {"Motion", "Press", "Release", "Enter", "Leave", "DeviceChanged", "Hierarchy"} \subseteq X11Types
  BY DEF X11Types, X11Changes
<1>4. ASSUME NEW axis \in X11!Axes, X11!Moves(d, axis)
      PROVE  X11Inv'
  <2> DEFINE value == 1 - dev.axes[axis]
             axes == [dev.axes EXCEPT ![axis] = value]
             new == [dev EXCEPT !.axes = axes]
  <2>1. value \in 0 .. 1 /\ dev.layout[axis] \in -1 .. 1
    BY <1>2 DEF AxisValues
  <2>2. axes \in AxisValues
    BY <1>2, <2>1 DEF AxisValues
  <2> HIDE DEF axes
  <2>3. new \in X11Device /\ new.present = dev.present /\ new.layout = dev.layout
    BY <1>1, <2>2 DEF X11Device
  <2>4. X11!Send([hand EXCEPT !.devices = [hand.devices EXCEPT ![d] = new]], "Motion", d, dev.layout[axis], value)
    BY <1>4 DEF X11!Moves, axes
  <2> HIDE DEF new, value
  <2>. QED
    BY <1>3, <2>1, <2>3, <2>4, X11Quiet
<1>5. CASE X11!Presses(d)
  <2> DEFINE new == [dev EXCEPT !.buttons = dev.buttons + 1]
  <2>1. new \in X11Device /\ new.present = dev.present /\ new.layout = dev.layout
    BY <1>1, <1>2 DEF X11Device
  <2>2. X11!Send([hand EXCEPT !.devices = [hand.devices EXCEPT ![d] = new]], "Press", d, -1, 0)
    BY <1>5 DEF X11!Presses
  <2> HIDE DEF new
  <2>. QED
    BY <1>3, <2>1, <2>2, X11Quiet
<1>6. CASE X11!Releases(d)
  <2> DEFINE new == [dev EXCEPT !.buttons = dev.buttons - 1]
  <2>1. new \in X11Device /\ new.present = dev.present /\ new.layout = dev.layout
    BY <1>1, <1>2 DEF X11Device
  <2>2. X11!Send([hand EXCEPT !.devices = [hand.devices EXCEPT ![d] = new]], "Release", d, -1, 0)
    BY <1>6 DEF X11!Releases
  <2> HIDE DEF new
  <2>. QED
    BY <1>3, <2>1, <2>2, X11Quiet
<1>7. ASSUME NEW type \in {"Enter", "Leave"}, X11!Crosses(d, type)
      PROVE  X11Inv'
  <2>1. X11!Send(hand, type, d, -1, 0) /\ type \in X11Types
    BY <1>3, <1>7 DEF X11!Crosses
  <2>. QED
    BY <1>1, <1>3, <2>1, X11Sends
<1>8. CASE X11!Remaps(d)
  <2>1. PICK l \in X11!Layouts :
           X11!Change([hand EXCEPT !.devices[d].layout = l], "DeviceChanged", d, X11!Selected(d))
    BY <1>8 DEF X11!Remaps
  <2> DEFINE new == [dev EXCEPT !.layout = l]
             s == [hand EXCEPT !.devices = [hand.devices EXCEPT ![d] = new]]
  <2>2. new \in X11Device
    BY <1>1 DEF X11Device
  <2>3. X11!Change(s, "DeviceChanged", d, X11!Selected(d))
    BY <2>1
  <2> HIDE DEF new
  <2>4. /\ s \in X11Hand /\ s.wire = hand.wire /\ s.missed = hand.missed
        /\ \A k \in Tools : k # d => s.devices[k] = hand.devices[k]
    BY <2>2, X11Devices
  <2> HIDE DEF s
  <2>. QED
    BY <2>3, <2>4, X11Alters DEF X11Changes
<1>9. CASE X11!Plugs(d)
  <2> DEFINE new == [present |-> ~dev.present, layout |-> X11!Usual, axes |-> X11!AtRest, buttons |-> 0]
             D == [hand.devices EXCEPT ![d] = new]
             b == [hand EXCEPT !.devices = D]
             S == hand.selected \ {d}
             s == [b EXCEPT !.selected = S]
  <2>1. new \in X11Device
    <3>1. (~dev.present) \in BOOLEAN
      OBVIOUS
    <3> DEFINE p == ~dev.present
    <3> HIDE DEF p
    <3>2. p \in BOOLEAN
      BY <3>1 DEF p
    <3>3. [present |-> p, layout |-> X11!Usual, axes |-> X11!AtRest, buttons |-> 0] \in X11Device
      BY <3>2, X11Typed DEF X11Device
    <3>. QED
      BY <3>3 DEF p
  <2>2. [hand EXCEPT !.devices[d] = [present |-> ~@.present, layout |-> X11!Usual, axes |-> X11!AtRest, buttons |-> 0],
                     !.selected = @ \ {d}] = s
    <3> HIDE DEF new
    <3>1. [hand EXCEPT !.devices[d] = new, !.selected = @ \ {d}] = s
      BY <1>1 DEF X11Hand
    <3>. QED
      BY <3>1, Zenon DEF new
  <2>3. X11!Change(s, "Hierarchy", d, hand.listening)
    BY <1>9, <2>2, Zenon DEF X11!Plugs
  <2> HIDE DEF new
  <2>4. b \in X11Hand /\ b.wire = hand.wire /\ b.missed = hand.missed
        /\ \A k \in Tools : k # d => b.devices[k] = hand.devices[k]
    BY <2>1, X11Devices
  <2>5. S \in SUBSET Tools
    BY <1>1 DEF X11Hand
  <2> HIDE DEF b, S
  <2>6. /\ s \in X11Hand /\ s.wire = hand.wire /\ s.missed = hand.missed
        /\ \A k \in Tools : k # d => s.devices[k] = hand.devices[k]
    BY <2>4, <2>5 DEF X11Hand
  <2> HIDE DEF s
  <2>. QED
    BY <2>3, <2>6, X11Alters DEF X11Changes
<1>. QED
  BY <1>4, <1>5, <1>6, <1>7, <1>8, <1>9 DEF X11!Server

LEMMA X11Steps ==
    ASSUME X11Inv, X11!Next
    PROVE  X11Inv'
BY X11Pumps, X11Fails, X11Selects, X11Serves DEF X11!Next

(***************************************************************************)
(* The web.                                                                *)
(***************************************************************************)
LEMMA WebMaxima == Web!Max({1}) = 1 /\ Web!Max({2}) = 2 /\ Web!Max({1, 2}) = 2
<1>1. Web!Max({1}) = 1 /\ Web!Max({2}) = 2
  BY DEF Web!Max
<1>2. Web!Max({1, 2}) = 2
  <2>1. Web!Max({1, 2}) \in {1, 2} /\ \A y \in {1, 2} : Web!Max({1, 2}) >= y
    <3>1. \E m \in {1, 2} : \A y \in {1, 2} : m >= y
      OBVIOUS
    <3>. QED
      BY <3>1 DEF Web!Max
  <2>. QED
    BY <2>1
<1>. QED
  BY <1>1, <1>2

\* drain_coalesced hands on the samples of an event one after the other: the
\* fold, over one sample or two, is the handler applied to each.
LEMMA WebDrains ==
    ASSUME NEW c, NEW seq, NEW flipped, DOMAIN seq \in {{1}, {1, 2}}, ~Web!Gated(c, "Move")
    PROVE  LET step(a, reading) == Web!HandleWebRaw(a, c, "Move", Web!WebTool(c, flipped), reading)
           IN  Web!Drain(c, seq, flipped)
                   = IF DOMAIN seq = {1} THEN step(adapter, seq[1]) ELSE step(step(adapter, seq[1]), seq[2])
<1> DEFINE step(a, reading) == Web!HandleWebRaw(a, c, "Move", Web!WebTool(c, flipped), reading)
           base == adapter
           S == DOMAIN seq
           next(g, s) == IF s = {} THEN base ELSE LET i == Web!Max(s) IN step(g[s \ {i}], seq[i])
           folded(g) == g = [s \in SUBSET S |-> next(g, s)]
           r == CHOOSE g : folded(g)
           v == Web!Drain(c, seq, flipped)
           h == [s \in SUBSET S |-> IF s = {} THEN base
                                    ELSE IF s = {1} THEN step(base, seq[1])
                                    ELSE IF s = {2} THEN step(base, seq[2])
                                    ELSE step(step(base, seq[1]), seq[2])]
<1>1. v = r[S]
  BY Zenon DEF Web!Drain, Web!FoldLeft, Web!MapThenFoldSet
<1>2. S \in {{1}, {1, 2}} /\ \A s \in SUBSET S : s \in {{}, {1}, {2}, {1, 2}}
  OBVIOUS
<1> HIDE DEF step, v, S, base
<1>3. folded(h)
  <2>1. ASSUME NEW s \in SUBSET S
        PROVE  h[s] = next(h, s)
    <3>1. CASE s = {}
      BY <3>1
    <3>2. CASE s = {1}
      <4>1. s \ {1} = {} /\ h[{}] = base /\ h[s] = step(base, seq[1])
        BY <3>2
      <4>. QED
        BY <3>2, <4>1, WebMaxima
    <3>3. CASE s = {2}
      <4>1. s \ {2} = {} /\ h[{}] = base /\ h[s] = step(base, seq[2])
        BY <3>3
      <4>. QED
        BY <3>3, <4>1, WebMaxima
    <3>4. CASE s = {1, 2}
      <4>1. s \ {2} = {1} /\ {1} \in SUBSET S /\ h[{1}] = step(base, seq[1]) /\ h[s] = step(step(base, seq[1]), seq[2])
        BY <3>4
      <4>. QED
        BY <3>4, <4>1, WebMaxima
    <3>. QED
      BY <1>2, <2>1, <3>1, <3>2, <3>3, <3>4
  <2> HIDE DEF next
  <2>. QED
    BY <2>1
<1>4. folded(r)
  <2>1. \E g : folded(g)
    BY <1>3
  <2> HIDE DEF folded
  <2>. QED
    BY <2>1
<1>5. \A s \in SUBSET S : r[s] = next(r, s)
  <2> HIDE DEF next, r
  <2>. QED
    BY <1>4
<1> HIDE DEF r
<1>6. r[{}] = base
  BY <1>5
<1>7. r[{1}] = step(base, seq[1])
  <2>1. {1} \in SUBSET S /\ {1} \ {1} = {}
    BY <1>2
  <2>. QED
    BY <1>5, <1>6, <2>1, WebMaxima
<1>8. S = {1, 2} => r[S] = step(step(base, seq[1]), seq[2])
  <2>1. {1, 2} \ {2} = {1}
    OBVIOUS
  <2>. QED
    BY <1>5, <1>7, <2>1, WebMaxima
<1>9. v = IF S = {1} THEN step(base, seq[1]) ELSE step(step(base, seq[1]), seq[2])
  BY <1>1, <1>2, <1>7, <1>8
<1>. QED
  BY <1>9, Zenon DEF v, S, step, base
LEMMA OnWeb ==
    /\ Web!NewAdapter = NewAdapter
    /\ \A a, tool, reading : Web!Hover(a, tool, reading) = Hover(a, tool, reading)
    /\ \A a, c, tool, activates, reading, update :
          Web!StartContact(a, c, tool, activates, reading, update)
              = StartContact(a, c, tool, activates, reading, update)
    /\ \A a, c, phase, tool, reading, update :
          Web!ContinueContact(a, c, phase, tool, reading, update)
              = ContinueContact(a, c, phase, tool, reading, update)
    /\ \A a, c : Web!ContactLeaves(a, c) = ContactLeaves(a, c)
<1>1. Web!NewAdapter = NewAdapter
  BY DEF Web!NewAdapter, NewAdapter, Web!NoPen, NoPen, Web!NoPointer, NoPointer
<1>2. \A a, tool, reading : Web!Hover(a, tool, reading) = Hover(a, tool, reading)
  BY SMT DEF Web!Hover, Hover, Web!Emit, Emit, Web!Mouse, Mouse
<1>3. \A a, c, tool, activates, reading, update :
          Web!StartContact(a, c, tool, activates, reading, update)
              = StartContact(a, c, tool, activates, reading, update)
  BY SMT DEF Web!StartContact, StartContact, Web!Emit, Emit
<1>4. \A a, c, phase, tool, reading, update :
          Web!ContinueContact(a, c, phase, tool, reading, update)
              = ContinueContact(a, c, phase, tool, reading, update)
  BY SMT DEF Web!ContinueContact, ContinueContact, Web!Emit, Emit, Web!Deactivate, Deactivate,
             Web!Ends, Ends, Web!NoPen, NoPen, Web!NoPointer, NoPointer
<1>5. \A a, c : Web!ContactLeaves(a, c) = ContactLeaves(a, c)
  BY SMT DEF Web!ContactLeaves, ContactLeaves, Web!Emit, Emit, Web!Deactivate, Deactivate,
             Web!TakePending, TakePending, Web!NoPen, NoPen, Web!NoPointer, NoPointer
<1>. QED
  BY <1>1, <1>2, <1>3, <1>4, <1>5

\* The pens of the web are told as pens or erasers, its fingers as fingers.
WebPen(c, pen) == pen # NoPen => (pen.tool = "Finger" <=> c \notin PenContacts)

WebHand == [over : SUBSET Contacts, down : SUBSET Contacts, captured : SUBSET Contacts]

\* A live pen is down, and what is down is captured: it is not moved out. The
\* pens that are live are the pens that draw.
WebInv ==
    /\ AdapterInv(adapter) /\ adapter.pending = {}
    /\ \A c \in Contacts : WebPen(c, adapter.contacts[c])
    /\ hand \in WebHand
    /\ hand.down \subseteq hand.captured
    /\ backend \subseteq hand.down \cap PenContacts
    /\ \A c \in PenContacts : c \in backend <=> adapter.contacts[c] # NoPen

\* What an event of contact c may do to an adapter.
WebOf(a, r, c) ==
    /\ OfContact(a, r, c, IF c \in PenContacts THEN "Pen" ELSE "Finger")
    /\ WebPen(c, r.contacts[c])

LEMMA WebStarts ==
    ASSUME Web!Init
    PROVE  WebInv
<1>1. adapter = NewAdapter /\ backend = {} /\ hand = [over |-> {}, down |-> {}, captured |-> {}]
  BY OnWeb DEF Web!Init
<1>2. AdapterInv(adapter) /\ adapter.pending = {} /\ \A c \in Contacts : adapter.contacts[c] = NoPen
  BY <1>1, InitAdapter DEF NewAdapter
<1>. QED
  BY <1>1, <1>2, TabletAssumption DEF WebInv, WebHand, WebPen

LEMMA WebSays ==
    ASSUME WebInv
    PROVE  /\ AdapterInv(adapter) /\ adapter.pending = {} /\ Web!BackendOK /\ Web!LivePensDraw
           /\ Web!PenDraws => backend # {}
<1>1. backend \subseteq Contacts
  BY TabletAssumption DEF WebInv
<1>2. Web!NoPen = NoPen
  BY DEF Web!NoPen, NoPen, Web!NoPointer, NoPointer
<1>. QED
  BY <1>1, <1>2 DEF WebInv, Web!BackendOK, Web!LivePensDraw, Web!PenDraws

LEMMA WebSame ==
    ASSUME NEW a, AdapterInv(a), NEW c \in Contacts, WebPen(c, a.contacts[c])
    PROVE  WebOf(a, a, c)
<1>1. a.queue \in Seq(Event)
  BY DEF AdapterInv, SlotInv
<1>2. Follows(a, a)
  BY <1>1, FollowsSame
<1>. QED
  BY <1>2 DEF WebOf, OfContact

LEMMA WebOn ==
    ASSUME NEW a, NEW b, NEW r, NEW c, WebOf(a, b, c), WebOf(b, r, c)
    PROVE  WebOf(a, r, c)
<1> DEFINE tool == IF c \in PenContacts THEN "Pen" ELSE "Finger"
<1> HIDE DEF tool
<1>1. OfContact(a, b, c, tool) /\ OfContact(b, r, c, tool) /\ WebPen(c, r.contacts[c])
  BY DEF WebOf, tool
<1>2. tool # "Finger" => Follows(a, r)
  BY <1>1, FollowsOn DEF OfContact
<1>3. OfContact(a, r, c, tool)
  BY <1>1, <1>2 DEF OfContact
<1>. QED
  BY <1>1, <1>3 DEF WebOf, tool

\* What told of one tool is told of another, if both are a finger or neither.
LEMMA WebTold ==
    ASSUME NEW a, NEW r, NEW c, NEW tool, OfContact(a, r, c, tool), tool = "Finger" => c \notin PenContacts
    PROVE  OfContact(a, r, c, IF c \in PenContacts THEN "Pen" ELSE "Finger")
BY DEF OfContact

LEMMA WebTools ==
    ASSUME NEW c \in Contacts, NEW flipped
    PROVE  LET tool == Web!WebTool(c, flipped)
           IN  tool \in Tool /\ (tool = "Finger" <=> c \notin PenContacts)
BY DEF Web!WebTool, Tool

\* A sample of a contact.
LEMMA WebRaw ==
    ASSUME NEW a, AdapterInv(a), NEW c \in Contacts, WebPen(c, a.contacts[c]),
           NEW phase \in {"Hover", "Down", "Move", "Up", "Cancel"}, NEW flipped, NEW reading \in 0 .. 1
    PROVE  LET r == Web!HandleWebRaw(a, c, phase, Web!WebTool(c, flipped), reading)
           IN  /\ WebOf(a, r, c)
               /\ phase = "Hover" => r.contacts = a.contacts
               /\ phase = "Down" => r.contacts[c] # NoPen
               /\ phase = "Move" => r.contacts = a.contacts
               /\ phase \in {"Up", "Cancel"} => r.contacts[c] = NoPen
<1> DEFINE tool == Web!WebTool(c, flipped)
           r == Web!HandleWebRaw(a, c, phase, tool, reading)
<1>1. tool \in Tool /\ (tool = "Finger" <=> c \notin PenContacts) /\ reading \in Readings /\ 0 \in Nat
  BY WebTools DEF Readings
<1>2. Drawing(a.contacts[c]) => a.contacts[c] # NoPen
  BY DEF Drawing, NoPen
<1>3. phase = "Hover" => r = IF c \in PenContacts THEN Hover(a, tool, reading) ELSE a
  BY OnWeb DEF Web!HandleWebRaw
<1>4. phase = "Down" => r = StartContact(a, c, tool, c \in PenContacts, reading, 0)
  BY OnWeb DEF Web!HandleWebRaw
<1>5. phase \in {"Move", "Up", "Cancel"} => r = ContinueContact(a, c, phase, tool, reading, 0)
  BY OnWeb DEF Web!HandleWebRaw
<1> HIDE DEF tool, r
<1>6. CASE phase = "Hover"
  <2>1. CASE c \in PenContacts
    <3>1. Aside(a, r, tool)
      BY <1>1, <1>3, <1>6, <2>1, HoverKeeps
    <3>2. OfContact(a, r, c, tool) /\ r.contacts = a.contacts
      BY <3>1 DEF Aside, OfContact
    <3>. QED
      BY <1>1, <1>6, <3>2, WebTold DEF WebOf, r, tool
  <2>2. CASE c \notin PenContacts
    <3>1. r = a
      BY <1>3, <1>6, <2>2
    <3>. QED
      BY <1>6, <3>1, WebSame DEF r, tool
  <2>. QED
    BY <2>1, <2>2
<1>7. CASE phase = "Down"
  <2> DEFINE activates == c \in PenContacts
             pen == [pointer |-> a.nextPointer, tool |-> tool]
             s == StartContact(a, c, tool, activates, reading, 0)
  <2>1. (activates => tool # "Finger")
        /\ (~activates /\ Drawing(a.contacts[c]) => a.contacts[c].tool = "Finger")
    BY <1>1, <1>2 DEF WebPen
  <2> HIDE DEF activates
  <2>2. OfContact(a, s, c, tool) /\ s.contacts[c] = pen
    BY <1>1, <2>1, StartContactKeeps
  <2> HIDE DEF s
  <2>3. r = s
    BY <1>4, <1>7 DEF s, activates
  <2>4. pen # NoPen /\ pen.tool = tool
    <3>1. a.nextPointer # NoPointer
      BY DEF AdapterInv, SlotInv, NoPointer
    <3>. QED
      BY <3>1 DEF NoPen
  <2> HIDE DEF pen
  <2>5. WebOf(a, r, c) /\ r.contacts[c] # NoPen
    BY <1>1, <2>2, <2>3, <2>4, WebTold DEF WebOf, WebPen
  <2>. QED
    BY <1>7, <2>5 DEF r, tool
<1>8. CASE phase \in {"Move", "Up", "Cancel"}
  <2> DEFINE old == a.contacts[c]
             s == ContinueContact(a, c, phase, tool, reading, 0)
  <2>1. OfContact(a, s, c, old.tool) /\ s.contacts[c] = IF phase \in Ends THEN NoPen ELSE old
    BY <1>1, <1>8, ContinueContactKeeps
  <2> HIDE DEF s
  <2>2. r = s
    BY <1>5, <1>8 DEF s
  <2>3. old.tool = "Finger" => c \notin PenContacts
    BY DEF WebPen, NoPen
  <2> HIDE DEF old
  <2>4. WebOf(a, r, c)
    BY <2>1, <2>2, <2>3, WebTold DEF WebOf, WebPen, old
  <2>5. phase = "Move" => r.contacts = a.contacts
    <3>1. a.contacts \in [Contacts -> Pen] /\ r.contacts \in [Contacts -> Pen]
      BY <2>1, <2>2 DEF OfContact, AdapterInv
    <3>2. phase = "Move" => \A k \in Contacts : r.contacts[k] = a.contacts[k]
      BY <2>1, <2>2 DEF OfContact, Ends, old
    <3>. QED
      BY <3>1, <3>2
  <2>6. phase \in {"Up", "Cancel"} => r.contacts[c] = NoPen
    BY <2>1, <2>2 DEF Ends
  <2>. QED
    BY <1>8, <2>4, <2>5, <2>6 DEF r, tool
<1>. QED
  BY <1>6, <1>7, <1>8

\* What an event of contact c does, and of which pens it leaves live.
WebTells(c) == WebOf(adapter, adapter', c) /\ (backend # {} => Follows(adapter, adapter'))

LEMMA WebFollows ==
    ASSUME WebInv, NEW c \in Contacts, WebOf(adapter, adapter', c),
           c \notin PenContacts /\ backend # {} => adapter' = adapter
    PROVE  WebTells(c)
<1>1. c \in PenContacts => Follows(adapter, adapter')
  BY DEF WebOf, OfContact
<1>2. adapter' = adapter => Follows(adapter, adapter')
  <2>1. adapter.queue \in Seq(Event)
    BY DEF WebInv, AdapterInv, SlotInv
  <2>. QED
    BY <2>1, FollowsSame
<1>. QED
  BY <1>1, <1>2 DEF WebTells

LEMMA WebDispatches ==
    ASSUME WebInv, NEW c \in Contacts, NEW action \in {"Over", "Out", "Leave", "Down", "Up", "Cancel"},
           NEW flipped, Web!Dispatch(c, action, flipped)
    PROVE  /\ WebTells(c)
           /\ c \notin PenContacts => backend' = backend
           /\ c \in PenContacts =>
                 /\ action = "Down" => backend' = backend \cup {c} /\ adapter'.contacts[c] # NoPen
                 /\ action \in {"Up", "Cancel", "Leave"} => backend' = backend \ {c}
                 /\ action \in {"Over", "Out"} => backend' = backend
                 /\ action = "Over" => adapter'.contacts = adapter.contacts
                 /\ action \in {"Up", "Cancel", "Leave", "Out"} => adapter'.contacts[c] = NoPen
<1>1. /\ AdapterInv(adapter) /\ WebPen(c, adapter.contacts[c])
      /\ backend \subseteq PenContacts
  BY DEF WebInv
<1>2. CASE Web!Gated(c, action)
  <2>1. adapter' = adapter /\ backend' = backend /\ c \notin PenContacts
    BY <1>2 DEF Web!Dispatch, Web!Gated
  <2>2. WebOf(adapter, adapter', c)
    BY <1>1, <2>1, WebSame
  <2>. QED
    BY <2>1, <2>2, WebFollows
<1>3. CASE ~Web!Gated(c, action)
  <2>1. adapter' = Web!Deliver(adapter, c, action, flipped) /\ backend' = Web!Live(c, action)
    BY <1>3 DEF Web!Dispatch
  <2>2. c \in PenContacts \/ backend = {}
    BY <1>3 DEF Web!Gated
  <2>3. /\ action = "Down" => backend' = backend \cup ({c} \cap PenContacts)
        /\ action \in {"Up", "Cancel"} => backend' = backend \ {c}
        /\ action = "Leave" => backend' = IF c \in PenContacts THEN backend \ {c} ELSE backend
        /\ action \in {"Over", "Out"} => backend' = backend
    BY <2>1 DEF Web!Live, Web!Ends
  <2>4. /\ action = "Down" => adapter' = Web!HandleWebRaw(adapter, c, "Down", Web!WebTool(c, flipped), 1)
        /\ action \in {"Up", "Cancel"} => adapter' = Web!HandleWebRaw(adapter, c, action, Web!WebTool(c, flipped), 0)
        /\ action = "Over" => adapter' = Web!HandleWebRaw(adapter, c, "Hover", Web!WebTool(c, flipped), 0)
        /\ action \in {"Out", "Leave"} => adapter' = IF c \in PenContacts THEN ContactLeaves(adapter, c) ELSE adapter
    BY <2>1, OnWeb DEF Web!Deliver, Web!Ends, Web!HandleWebProximity
  <2>5. CASE action \in {"Down", "Up", "Cancel", "Over"}
    <3>0. 0 \in 0 .. 1 /\ 1 \in 0 .. 1
      OBVIOUS
    <3>1. PICK phase \in {"Hover", "Down", "Up", "Cancel"}, reading \in 0 .. 1 :
              /\ adapter' = Web!HandleWebRaw(adapter, c, phase, Web!WebTool(c, flipped), reading)
              /\ action = "Down" => phase = "Down"
              /\ action = "Over" => phase = "Hover"
              /\ action \in {"Up", "Cancel"} => phase = action
      BY <2>4, <2>5, <3>0
    <3>2. /\ WebOf(adapter, adapter', c)
          /\ phase = "Hover" => adapter'.contacts = adapter.contacts
          /\ phase = "Down" => adapter'.contacts[c] # NoPen
          /\ phase \in {"Up", "Cancel"} => adapter'.contacts[c] = NoPen
      BY <1>1, <3>1, WebRaw
    <3>3. WebTells(c)
      BY <2>2, <3>2, WebFollows
    <3>. QED
      BY <1>1, <2>3, <2>5, <3>1, <3>2, <3>3
  <2>6. CASE action \in {"Out", "Leave"}
    <3>1. WebOf(adapter, adapter', c) /\ (c \in PenContacts => adapter'.contacts[c] = NoPen)
      <4>1. CASE c \in PenContacts
        <5>1. adapter' = ContactLeaves(adapter, c)
          BY <2>4, <2>6, <4>1
        <5>2. OfContact(adapter, adapter', c, adapter.contacts[c].tool) /\ adapter'.contacts[c] = NoPen
          BY <1>1, <5>1, ContactLeavesKeeps
        <5>3. adapter.contacts[c].tool = "Finger" => c \notin PenContacts
          BY <1>1 DEF WebPen, NoPen
        <5>. QED
          BY <4>1, <5>2, <5>3, WebTold DEF WebOf, WebPen
      <4>2. CASE c \notin PenContacts
        <5>1. adapter' = adapter
          BY <2>4, <2>6, <4>2
        <5>. QED
          BY <1>1, <4>2, <5>1, WebSame
      <4>. QED
        BY <4>1, <4>2
    <3>2. WebTells(c)
      BY <2>2, <3>1, WebFollows
    <3>. QED
      BY <1>1, <2>3, <2>6, <3>1, <3>2
  <2>. QED
    BY <2>5, <2>6
<1>. QED
  BY <1>2, <1>3

LEMMA WebLeaves ==
    ASSUME WebInv, NEW c \in Contacts, WebTells(c),
           hand' \in WebHand, hand'.down \subseteq hand'.captured,
           backend' \subseteq hand'.down \cap PenContacts,
           \A k \in PenContacts : k # c => (k \in backend' <=> k \in backend),
           c \in PenContacts => (c \in backend' <=> adapter'.contacts[c] # NoPen)
    PROVE  WebInv' /\ (backend # {} => Follows(adapter, adapter'))
<1>1. /\ AdapterInv(adapter') /\ adapter'.pending = {}
      /\ \A k \in Contacts : k # c => adapter'.contacts[k] = adapter.contacts[k]
      /\ WebPen(c, adapter'.contacts[c])
      /\ backend # {} => Follows(adapter, adapter')
  BY DEF WebTells, WebOf, OfContact, WebInv
<1>2. \A k \in Contacts : WebPen(k, adapter'.contacts[k])
  BY <1>1 DEF WebInv
<1>3. ASSUME NEW k \in PenContacts
      PROVE  k \in backend' <=> adapter'.contacts[k] # NoPen
  <2>1. k \in Contacts
    BY TabletAssumption
  <2>. QED
    BY <1>1, <2>1 DEF WebInv
<1>. QED
  BY <1>1, <1>2, <1>3 DEF WebInv

LEMMA WebEvents ==
    ASSUME WebInv, NEW c \in Contacts, Web!Event(c)
    PROVE  WebInv' /\ (backend # {} => Follows(adapter, adapter'))
<1>1. /\ AdapterInv(adapter) /\ WebPen(c, adapter.contacts[c])
      /\ hand \in WebHand /\ hand.down \subseteq hand.captured
      /\ backend \subseteq hand.down /\ backend \subseteq PenContacts
      /\ \A k \in PenContacts : k \in backend <=> adapter.contacts[k] # NoPen
  BY DEF WebInv
<1>2. CASE Web!Over(c)
  <2>1. Web!Dispatch(c, "Over", FALSE) /\ hand' = [hand EXCEPT !.over = hand.over \cup {c}]
    BY <1>2 DEF Web!Over
  <2>2. hand' \in WebHand /\ hand'.down = hand.down /\ hand'.captured = hand.captured
    BY <1>1, <2>1 DEF WebHand
  <2>3. WebTells(c) /\ backend' = backend /\ (c \in PenContacts => adapter'.contacts = adapter.contacts)
    BY <2>1, WebDispatches
  <2>. QED
    BY <1>1, <2>2, <2>3, WebLeaves
<1>3. ASSUME NEW flipped \in BOOLEAN, Web!Down(c, flipped)
      PROVE  WebInv' /\ (backend # {} => Follows(adapter, adapter'))
  <2>1. Web!Dispatch(c, "Down", flipped)
        /\ hand' = [hand EXCEPT !.down = hand.down \cup {c}, !.captured = hand.captured \cup {c}]
    BY <1>3 DEF Web!Down
  <2>2. hand' \in WebHand /\ hand'.down = hand.down \cup {c} /\ hand'.captured = hand.captured \cup {c}
    BY <1>1, <2>1 DEF WebHand
  <2>3. /\ WebTells(c) /\ (c \notin PenContacts => backend' = backend)
        /\ c \in PenContacts => backend' = backend \cup {c} /\ adapter'.contacts[c] # NoPen
    BY <2>1, WebDispatches
  <2>. QED
    BY <1>1, <2>2, <2>3, WebLeaves
<1>4. ASSUME NEW flipped \in BOOLEAN, NEW samples \in {<< 1 >>, <<1, 0>>}, Web!Move(c, samples, flipped)
      PROVE  WebInv' /\ (backend # {} => Follows(adapter, adapter'))
  <2>1. adapter' = Web!Drain(c, samples, flipped) /\ backend' = backend /\ hand' = hand
    BY <1>4 DEF Web!Move
  <2>2. WebOf(adapter, adapter', c) /\ adapter'.contacts = adapter.contacts
        /\ (c \notin PenContacts /\ backend # {} => adapter' = adapter)
    <3>1. CASE Web!Gated(c, "Move")
      <4>1. adapter' = adapter
        BY <2>1, <3>1 DEF Web!Drain
      <4>. QED
        BY <1>1, <4>1, WebSame
    <3>2. CASE ~Web!Gated(c, "Move")
      <4> DEFINE step(a, reading) == Web!HandleWebRaw(a, c, "Move", Web!WebTool(c, flipped), reading)
                 one == step(adapter, samples[1])
                 two == step(one, samples[2])
      <4>1. DOMAIN samples \in {{1}, {1, 2}}
        <5>1. DOMAIN << 1 >> = {1} /\ DOMAIN <<1, 0>> = {1, 2}
          OBVIOUS
        <5>. QED
          BY <5>1
      <4>2. adapter' = IF DOMAIN samples = {1} THEN one ELSE two
        BY <2>1, <3>2, <4>1, WebDrains
      <4>3. ASSUME NEW a, AdapterInv(a), WebPen(c, a.contacts[c]), NEW reading \in 0 .. 1
            PROVE  WebOf(a, step(a, reading), c) /\ step(a, reading).contacts = a.contacts
        BY <4>3, WebRaw
      <4>4. samples[1] \in 0 .. 1 /\ (DOMAIN samples = {1, 2} => samples[2] \in 0 .. 1)
        OBVIOUS
      <4> HIDE DEF step
      <4>5. WebOf(adapter, one, c) /\ one.contacts = adapter.contacts
        BY <1>1, <4>3, <4>4
      <4> HIDE DEF one
      <4>6. CASE DOMAIN samples = {1}
        <5>1. adapter' = one
          BY <4>2, <4>6
        <5>. QED
          BY <3>2, <4>5, <5>1 DEF Web!Gated
      <4>7. CASE DOMAIN samples # {1}
        <5>1. adapter' = two /\ samples[2] \in 0 .. 1
          BY <4>1, <4>2, <4>4, <4>7
        <5>2. AdapterInv(one) /\ WebPen(c, one.contacts[c])
          BY <4>5 DEF WebOf, OfContact
        <5>3. WebOf(one, two, c) /\ two.contacts = one.contacts
          BY <4>3, <5>1, <5>2
        <5> HIDE DEF two
        <5>4. WebOf(adapter, two, c)
          BY <4>5, <5>3, WebOn
        <5>. QED
          BY <3>2, <4>5, <5>1, <5>3, <5>4 DEF Web!Gated
      <4>. QED
        BY <4>6, <4>7
    <3>. QED
      BY <3>1, <3>2
  <2>3. WebTells(c)
    BY <2>2, WebFollows
  <2>. QED
    BY <1>1, <2>1, <2>2, <2>3, WebLeaves
<1>5. ASSUME NEW phase \in Web!Ends, Web!Lift(c, phase)
      PROVE  WebInv' /\ (backend # {} => Follows(adapter, adapter'))
  <2>1. Web!Dispatch(c, phase, FALSE) /\ hand' = [hand EXCEPT !.down = hand.down \ {c}] /\ phase \in {"Up", "Cancel"}
    BY <1>5 DEF Web!Lift, Web!Ends
  <2>2. hand' \in WebHand /\ hand'.down = hand.down \ {c} /\ hand'.captured = hand.captured
    BY <1>1, <2>1 DEF WebHand
  <2>3. /\ WebTells(c) /\ (c \notin PenContacts => backend' = backend)
        /\ c \in PenContacts => backend' = backend \ {c} /\ adapter'.contacts[c] = NoPen
    BY <2>1, WebDispatches
  <2>. QED
    BY <1>1, <2>2, <2>3, WebLeaves
<1>6. CASE Web!LostCapture(c)
  <2>1. /\ Web!Dispatch(c, "Cancel", FALSE) /\ hand' = [hand EXCEPT !.captured = hand.captured \ {c}]
        /\ c \notin hand.down
    BY <1>6 DEF Web!LostCapture
  <2>2. hand' \in WebHand /\ hand'.down = hand.down /\ hand'.captured = hand.captured \ {c}
    BY <1>1, <2>1 DEF WebHand
  <2>3. /\ WebTells(c) /\ (c \notin PenContacts => backend' = backend)
        /\ c \in PenContacts => backend' = backend \ {c} /\ adapter'.contacts[c] = NoPen
    BY <2>1, WebDispatches
  <2>. QED
    BY <1>1, <2>1, <2>2, <2>3, WebLeaves
<1>7. CASE Web!Out(c)
  <2>1. /\ Web!Dispatch(c, "Out", FALSE) /\ hand' = [hand EXCEPT !.over = hand.over \ {c}]
        /\ c \notin hand.captured
    BY <1>7 DEF Web!Out
  <2>2. hand' \in WebHand /\ hand'.down = hand.down /\ hand'.captured = hand.captured
    BY <1>1, <2>1 DEF WebHand
  <2>3. WebTells(c) /\ backend' = backend /\ (c \in PenContacts => adapter'.contacts[c] = NoPen)
    BY <2>1, WebDispatches
  <2>. QED
    BY <1>1, <2>1, <2>2, <2>3, WebLeaves
<1>8. CASE Web!Leave(c)
  <2>1. Web!Dispatch(c, "Leave", FALSE) /\ hand' = hand
    BY <1>8 DEF Web!Leave
  <2>2. /\ WebTells(c) /\ (c \notin PenContacts => backend' = backend)
        /\ c \in PenContacts => backend' = backend \ {c} /\ adapter'.contacts[c] = NoPen
    BY <2>1, WebDispatches
  <2>. QED
    BY <1>1, <2>1, <2>2, WebLeaves
<1>. QED
  BY <1>2, <1>3, <1>4, <1>5, <1>6, <1>7, <1>8 DEF Web!Event

LEMMA WebSteps ==
    ASSUME WebInv, Web!Next
    PROVE  WebInv' /\ (backend # {} => Follows(adapter, adapter'))
BY WebEvents DEF Web!Next

(***************************************************************************)
(* Windows.                                                                *)
(***************************************************************************)
LEMMA WindowsMaxima == Windows!Max({1}) = 1 /\ Windows!Max({2}) = 2 /\ Windows!Max({1, 2}) = 2
<1>1. Windows!Max({1}) = 1 /\ Windows!Max({2}) = 2
  BY DEF Windows!Max
<1>2. Windows!Max({1, 2}) = 2
  <2>1. Windows!Max({1, 2}) \in {1, 2} /\ \A y \in {1, 2} : Windows!Max({1, 2}) >= y
    <3>1. \E m \in {1, 2} : \A y \in {1, 2} : m >= y
      OBVIOUS
    <3>. QED
      BY <3>1 DEF Windows!Max
  <2>. QED
    BY <2>1
<1>. QED
  BY <1>1, <1>2

\* handle_pen hands on the samples of a message one after the other.
LEMMA WindowsDrains ==
    ASSUME NEW p, NEW phase, NEW seq, DOMAIN seq \in {{1}, {1, 2}}
    PROVE  LET step(a, reading) == Windows!HandleWindowsRaw(a, p, phase, Windows!End(p), reading)
           IN  Windows!HandlePen(p, phase, seq)
                   = IF DOMAIN seq = {1} THEN step(adapter, seq[1]) ELSE step(step(adapter, seq[1]), seq[2])
<1> DEFINE step(a, reading) == Windows!HandleWindowsRaw(a, p, phase, Windows!End(p), reading)
           base == adapter
           S == DOMAIN seq
           next(g, s) == IF s = {} THEN base ELSE LET i == Windows!Max(s) IN step(g[s \ {i}], seq[i])
           folded(g) == g = [s \in SUBSET S |-> next(g, s)]
           r == CHOOSE g : folded(g)
           v == Windows!HandlePen(p, phase, seq)
           h == [s \in SUBSET S |-> IF s = {} THEN base
                                    ELSE IF s = {1} THEN step(base, seq[1])
                                    ELSE IF s = {2} THEN step(base, seq[2])
                                    ELSE step(step(base, seq[1]), seq[2])]
<1>1. v = r[S]
  BY Zenon DEF Windows!HandlePen, Windows!FoldLeft, Windows!MapThenFoldSet
<1>2. S \in {{1}, {1, 2}} /\ \A s \in SUBSET S : s \in {{}, {1}, {2}, {1, 2}}
  OBVIOUS
<1> HIDE DEF step, v, S, base
<1>3. folded(h)
  <2>1. ASSUME NEW s \in SUBSET S
        PROVE  h[s] = next(h, s)
    <3>1. CASE s = {}
      BY <3>1
    <3>2. CASE s = {1}
      <4>1. s \ {1} = {} /\ h[{}] = base /\ h[s] = step(base, seq[1])
        BY <3>2
      <4>. QED
        BY <3>2, <4>1, WindowsMaxima
    <3>3. CASE s = {2}
      <4>1. s \ {2} = {} /\ h[{}] = base /\ h[s] = step(base, seq[2])
        BY <3>3
      <4>. QED
        BY <3>3, <4>1, WindowsMaxima
    <3>4. CASE s = {1, 2}
      <4>1. s \ {2} = {1} /\ {1} \in SUBSET S /\ h[{1}] = step(base, seq[1]) /\ h[s] = step(step(base, seq[1]), seq[2])
        BY <3>4
      <4>. QED
        BY <3>4, <4>1, WindowsMaxima
    <3>. QED
      BY <1>2, <2>1, <3>1, <3>2, <3>3, <3>4
  <2> HIDE DEF next
  <2>. QED
    BY <2>1
<1>4. folded(r)
  <2>1. \E g : folded(g)
    BY <1>3
  <2> HIDE DEF folded
  <2>. QED
    BY <2>1
<1>5. \A s \in SUBSET S : r[s] = next(r, s)
  <2> HIDE DEF next, r
  <2>. QED
    BY <1>4
<1> HIDE DEF r
<1>6. r[{}] = base
  BY <1>5
<1>7. r[{1}] = step(base, seq[1])
  <2>1. {1} \in SUBSET S /\ {1} \ {1} = {}
    BY <1>2
  <2>. QED
    BY <1>5, <1>6, <2>1, WindowsMaxima
<1>8. S = {1, 2} => r[S] = step(step(base, seq[1]), seq[2])
  <2>1. {1, 2} \ {2} = {1}
    OBVIOUS
  <2>. QED
    BY <1>5, <1>7, <2>1, WindowsMaxima
<1>9. v = IF S = {1} THEN step(base, seq[1]) ELSE step(step(base, seq[1]), seq[2])
  BY <1>1, <1>2, <1>7, <1>8
<1>. QED
  BY <1>9, Zenon DEF v, S, step, base

LEMMA OnWindows ==
    /\ Windows!NewAdapter = NewAdapter
    /\ \A a, tool, reading : Windows!Hover(a, tool, reading) = Hover(a, tool, reading)
    /\ \A a, d, phase, tool, reading :
          Windows!PenRaw(a, d, phase, tool, reading) = PenRaw(a, d, phase, tool, reading)
    /\ \A a, d, entering, tool :
          Windows!PenProximity(a, d, entering, tool) = PenProximity(a, d, entering, tool)
    /\ \A a, c, tool, activates, reading, update :
          Windows!StartContact(a, c, tool, activates, reading, update)
              = StartContact(a, c, tool, activates, reading, update)
    /\ \A a, c, phase, tool, reading, update :
          Windows!ContinueContact(a, c, phase, tool, reading, update)
              = ContinueContact(a, c, phase, tool, reading, update)
<1>1. Windows!NewAdapter = NewAdapter
  BY DEF Windows!NewAdapter, NewAdapter, Windows!NoPen, NoPen, Windows!NoPointer, NoPointer
<1>2. \A a, tool, reading : Windows!Hover(a, tool, reading) = Hover(a, tool, reading)
  BY SMT DEF Windows!Hover, Hover, Windows!Emit, Emit, Windows!Mouse, Mouse
<1>3. ASSUME NEW a, NEW d, NEW phase, NEW tool, NEW reading
      PROVE  Windows!PenRaw(a, d, phase, tool, reading) = PenRaw(a, d, phase, tool, reading)
  BY SMT DEF Windows!PenRaw, PenRaw, Windows!Entered, Entered,
             Windows!StartPen, StartPen, Windows!ContinuePen, ContinuePen, Windows!Emit, Emit,
             Windows!Deactivate, Deactivate, Windows!Ends, Ends,
             Windows!NoPen, NoPen, Windows!NoPointer, NoPointer
<1>4. ASSUME NEW a, NEW d, NEW entering, NEW tool
      PROVE  Windows!PenProximity(a, d, entering, tool) = PenProximity(a, d, entering, tool)
  BY SMT DEF Windows!PenProximity, PenProximity, Windows!Entered, Entered,
             Windows!PenEnters, PenEnters, Windows!PenLeaves, PenLeaves, Windows!Emit, Emit,
             Windows!Deactivate, Deactivate, Windows!TakePending, TakePending,
             Windows!NoPen, NoPen, Windows!NoPointer, NoPointer
<1>5. \A a, c, tool, activates, reading, update :
          Windows!StartContact(a, c, tool, activates, reading, update)
              = StartContact(a, c, tool, activates, reading, update)
  BY SMT DEF Windows!StartContact, StartContact, Windows!Emit, Emit
<1>6. \A a, c, phase, tool, reading, update :
          Windows!ContinueContact(a, c, phase, tool, reading, update)
              = ContinueContact(a, c, phase, tool, reading, update)
  BY SMT DEF Windows!ContinueContact, ContinueContact, Windows!Emit, Emit, Windows!Deactivate, Deactivate,
             Windows!Ends, Ends, Windows!NoPen, NoPen, Windows!NoPointer, NoPointer
<1>. QED
  BY <1>1, <1>2, <1>3, <1>4, <1>5, <1>6

WindowsState == [near : BOOLEAN, down : BOOLEAN, eraser : BOOLEAN, outlived : BOOLEAN]

WindowsHand == [pens : [Windows!Pens -> WindowsState], fingers : SUBSET Contacts]

\* The flag is set while a pen is near that no other has left since it came.
WindowsFlag(state, flag) == state.near /\ ~state.outlived => flag

\* The range messages are of a device that never draws; the contacts are fingers.
WindowsInv ==
    /\ AdapterInv(adapter) /\ adapter.pending = {}
    /\ Windows!BackendOK
    /\ ~Drawing(adapter.pens[RangeDevice])
    /\ \A c \in Contacts : adapter.contacts[c] # NoPen => adapter.contacts[c].tool = "Finger"
    /\ hand \in WindowsHand
    /\ \A p \in Windows!Pens : WindowsFlag(hand.pens[p], backend)

\* What a message of a pen does.
WindowsPen(a, r) ==
    /\ AdapterInv(r) /\ Follows(a, r)
    /\ r.contacts = a.contacts /\ r.pending \subseteq a.pending
    /\ ~Drawing(a.pens[RangeDevice]) => ~Drawing(r.pens[RangeDevice])

LEMMA WindowsStarts ==
    ASSUME Windows!Init
    PROVE  WindowsInv
<1>1. adapter = NewAdapter /\ backend = FALSE
  BY OnWindows DEF Windows!Init
<1>2. /\ AdapterInv(adapter) /\ adapter.pending = {}
      /\ \A c \in Contacts : adapter.contacts[c] = NoPen
      /\ \A d \in Devices : adapter.pens[d] = NoPen
  BY <1>1, InitAdapter DEF NewAdapter
<1>3. ~Drawing(adapter.pens[RangeDevice])
  BY <1>2, TabletAssumption DEF Drawing, NoPen
<1>4. hand \in WindowsHand /\ \A p \in Windows!Pens : ~hand.pens[p].near
  <2> DEFINE f == [p \in Windows!Pens |-> Windows!Away]
  <2>1. f \in [Windows!Pens -> WindowsState] /\ \A p \in Windows!Pens : f[p].near = FALSE
    BY DEF Windows!Away, WindowsState
  <2>2. hand = [pens |-> f, fingers |-> {}]
    BY DEF Windows!Init
  <2> HIDE DEF f
  <2>. QED
    BY <2>1, <2>2 DEF WindowsHand
<1>. QED
  BY <1>1, <1>2, <1>3, <1>4 DEF WindowsInv, WindowsFlag, Windows!BackendOK

LEMMA WindowsOn ==
    ASSUME NEW a, NEW b, NEW r, WindowsPen(a, b), WindowsPen(b, r)
    PROVE  WindowsPen(a, r)
<1>1. Follows(a, r)
  BY FollowsOn DEF WindowsPen
<1>. QED
  BY <1>1 DEF WindowsPen

LEMMA WindowsEnd ==
    ASSUME NEW p \in Windows!Pens
    PROVE  /\ Windows!End(p) \in Tool \ {"Finger"} /\ "Pen" \in Tool \ {"Finger"}
           /\ p \in Devices /\ p # RangeDevice /\ RangeDevice \in Devices
           /\ Windows!PenPhase(p) \in {"Move", "Hover"}
BY TabletAssumption DEF Windows!End, Windows!Pens, Windows!PenPhase, Tool

\* A sample of a pen, or the end of a stroke of the device of the range.
LEMMA WindowsRaw ==
    ASSUME NEW a, AdapterInv(a), NEW d \in Devices, NEW tool \in Tool \ {"Finger"}, NEW reading \in 0 .. 1,
           NEW phase \in {"Down", "Move", "Up", "Cancel", "Hover"}, phase = "Down" => d # RangeDevice
    PROVE  WindowsPen(a, Windows!HandleWindowsRaw(a, d, phase, tool, reading))
<1> DEFINE r == Windows!HandleWindowsRaw(a, d, phase, tool, reading)
<1>1. r = IF phase = "Hover" THEN Hover(a, tool, reading) ELSE PenRaw(a, d, phase, tool, reading)
  BY OnWindows DEF Windows!HandleWindowsRaw
<1>2. reading \in Readings /\ tool \in Tool /\ tool # "Finger" /\ RangeDevice \in Devices
  BY TabletAssumption DEF Readings
<1> HIDE DEF r
<1>3. CASE phase = "Hover"
  <2>1. Aside(a, r, tool)
    BY <1>1, <1>2, <1>3, HoverKeeps
  <2>. QED
    BY <1>2, <2>1 DEF Aside, WindowsPen, r
<1>4. CASE phase # "Hover"
  <2>1. r = PenRaw(a, d, phase, tool, reading) /\ phase \in {"Down", "Move", "Up", "Cancel"}
    BY <1>1, <1>4
  <2>2. PenDraws(a, r, d, phase, tool)
    BY <1>2, <2>1, PenRawKeeps
  <2>3. ~Drawing(a.pens[RangeDevice]) => ~Drawing(r.pens[RangeDevice])
    <3>1. CASE d = RangeDevice
      BY <2>2, <3>1 DEF PenDraws, Drawing
    <3>2. CASE d # RangeDevice
      BY <1>2, <2>2, <3>2 DEF PenDraws, OfPen
    <3>. QED
      BY <3>1, <3>2
  <2>. QED
    BY <2>2, <2>3 DEF PenDraws, OfPen, WindowsPen, r
<1>. QED
  BY <1>3, <1>4

LEMMA WindowsRange ==
    ASSUME NEW a, AdapterInv(a), ~Drawing(a.pens[RangeDevice]), NEW entering \in BOOLEAN
    PROVE  WindowsPen(a, PenProximity(a, RangeDevice, entering, "Pen"))
<1> DEFINE d == RangeDevice
           tool == "Pen"
           r == PenProximity(a, d, entering, tool)
<1>1. d \in Devices /\ tool \in Tool \ {"Finger"} /\ ~Drawing(a.pens[d])
  BY TabletAssumption DEF Tool
<1> HIDE DEF d, tool
<1>2. PenNears(a, r, d, entering, tool)
  BY <1>1, PenProximityKeeps
<1> HIDE DEF r
<1>3. ~Drawing(r.pens[d])
  BY <1>1, <1>2 DEF PenNears, Drawing, NoPen
<1>. QED
  BY <1>2, <1>3 DEF PenNears, OfPen, WindowsPen, r, d, tool

LEMMA WindowsPens ==
    ASSUME WindowsInv, WindowsPen(adapter, adapter'), backend' \in BOOLEAN,
           hand' \in WindowsHand, \A p \in Windows!Pens : WindowsFlag(hand'.pens[p], backend')
    PROVE  WindowsInv' /\ Follows(adapter, adapter')
<1>1. /\ AdapterInv(adapter') /\ adapter'.pending = {}
      /\ ~Drawing(adapter'.pens[RangeDevice])
      /\ adapter'.contacts = adapter.contacts
      /\ Follows(adapter, adapter')
  BY DEF WindowsInv, WindowsPen
<1>. QED
  BY <1>1 DEF WindowsInv, Windows!BackendOK

\* One pen is in another state, and the flag is not cleared.
LEMMA WindowsHands ==
    ASSUME WindowsInv, NEW p \in Windows!Pens, NEW state \in WindowsState,
           hand' = [hand EXCEPT !.pens = [hand.pens EXCEPT ![p] = state]],
           backend => backend', WindowsFlag(state, backend')
    PROVE  /\ hand' \in WindowsHand
           /\ \A q \in Windows!Pens : WindowsFlag(hand'.pens[q], backend')
<1> DEFINE f == [hand.pens EXCEPT ![p] = state]
<1>1. hand \in WindowsHand /\ \A q \in Windows!Pens : WindowsFlag(hand.pens[q], backend)
  BY DEF WindowsInv
<1>2. /\ f \in [Windows!Pens -> WindowsState] /\ f[p] = state
      /\ \A q \in Windows!Pens : q # p => f[q] = hand.pens[q]
  BY <1>1 DEF WindowsHand
<1>3. hand' = [hand EXCEPT !.pens = f]
  OBVIOUS
<1> HIDE DEF f
<1>4. hand' \in WindowsHand /\ hand'.pens = f
  BY <1>1, <1>2, <1>3 DEF WindowsHand
<1>. QED
  BY <1>1, <1>2, <1>4 DEF WindowsFlag

\* A message that puts a pen down or lifts it.
LEMMA WindowsTips ==
    ASSUME WindowsInv, NEW p \in Windows!Pens, NEW down \in BOOLEAN, backend' = backend,
           hand' = [hand EXCEPT !.pens[p].down = down]
    PROVE  /\ hand' \in WindowsHand
           /\ \A q \in Windows!Pens : WindowsFlag(hand'.pens[q], backend')
<1> DEFINE old == hand.pens[p]
           state == [old EXCEPT !.down = down]
<1>1. old \in WindowsState /\ WindowsFlag(old, backend)
  BY DEF WindowsInv, WindowsHand
<1>2. hand' = [hand EXCEPT !.pens = [hand.pens EXCEPT ![p] = state]]
  OBVIOUS
<1> HIDE DEF old
<1>3. state \in WindowsState /\ WindowsFlag(state, backend')
  BY <1>1 DEF WindowsState, WindowsFlag
<1> HIDE DEF state
<1>. QED
  BY <1>2, <1>3, WindowsHands

\* The flag and the pens after a message of the range.
LEMMA WindowsRanges ==
    ASSUME WindowsInv, NEW p \in Windows!Pens,
           \/ \E eraser \in BOOLEAN : Windows!InRange(p, eraser)
           \/ Windows!OutOfRange(p)
    PROVE  /\ backend' \in BOOLEAN /\ hand' \in WindowsHand
           /\ \A q \in Windows!Pens : WindowsFlag(hand'.pens[q], backend')
<1>1. ASSUME NEW eraser \in BOOLEAN, Windows!InRange(p, eraser)
      PROVE  /\ backend' \in BOOLEAN /\ hand' \in WindowsHand
             /\ \A q \in Windows!Pens : WindowsFlag(hand'.pens[q], backend')
  <2> DEFINE state == [Windows!Away EXCEPT !.near = TRUE, !.eraser = eraser]
  <2>1. backend' = TRUE /\ hand' = [hand EXCEPT !.pens = [hand.pens EXCEPT ![p] = state]]
    BY <1>1, Zenon DEF Windows!InRange
  <2>2. state \in WindowsState
    BY DEF Windows!Away, WindowsState
  <2> HIDE DEF state
  <2>. QED
    BY <2>1, <2>2, WindowsHands DEF WindowsFlag
<1>2. CASE Windows!OutOfRange(p)
  <2> DEFINE left(q) == IF q = p THEN Windows!Away ELSE [hand.pens[q] EXCEPT !.outlived = hand.pens[q].near]
             f == [q \in Windows!Pens |-> left(q)]
  <2>1. backend' = FALSE /\ hand' = [hand EXCEPT !.pens = f]
    BY <1>2 DEF Windows!OutOfRange
  <2>2. hand \in WindowsHand
    BY DEF WindowsInv
  <2>3. ASSUME NEW q \in Windows!Pens
        PROVE  left(q) \in WindowsState /\ WindowsFlag(left(q), FALSE)
    <3>1. Windows!Away \in WindowsState /\ WindowsFlag(Windows!Away, FALSE)
      BY DEF Windows!Away, WindowsState, WindowsFlag
    <3> DEFINE old == hand.pens[q]
               new == [old EXCEPT !.outlived = old.near]
    <3>2. old \in WindowsState
      BY <2>2 DEF WindowsHand
    <3> HIDE DEF old
    <3>3. new \in WindowsState /\ WindowsFlag(new, FALSE)
      BY <3>2 DEF WindowsState, WindowsFlag
    <3>. QED
      BY <3>1, <3>3 DEF old
  <2> HIDE DEF left
  <2>4. f \in [Windows!Pens -> WindowsState] /\ \A q \in Windows!Pens : WindowsFlag(f[q], FALSE)
    BY <2>3
  <2> HIDE DEF f
  <2>5. hand' \in WindowsHand /\ hand'.pens = f
    BY <2>1, <2>2, <2>4 DEF WindowsHand
  <2>. QED
    BY <2>1, <2>4, <2>5
<1>. QED
  BY <1>1, <1>2

LEMMA WindowsTouches ==
    ASSUME WindowsInv, NEW f \in Contacts, NEW phase \in {"Down", "Move", "Up", "Cancel"},
           Windows!Touch(f, phase)
    PROVE  WindowsInv' /\ (backend => Follows(adapter, adapter'))
<1>1. /\ AdapterInv(adapter) /\ adapter.pending = {} /\ backend \in BOOLEAN
      /\ ~Drawing(adapter.pens[RangeDevice])
      /\ \A c \in Contacts : adapter.contacts[c] # NoPen => adapter.contacts[c].tool = "Finger"
  BY DEF WindowsInv, Windows!BackendOK
<1>2. Windows!SubclassTouch(f, phase) /\ backend' = backend
  BY DEF Windows!Touch
<1>5. hand' \in WindowsHand /\ \A p \in Windows!Pens : WindowsFlag(hand'.pens[p], backend')
  <2> DEFINE fingers == CASE phase = "Down" -> hand.fingers \cup {f}
                          [] phase \in Windows!Ends -> hand.fingers \ {f}
                          [] OTHER -> hand.fingers
  <2>1. hand' = [hand EXCEPT !.fingers = fingers]
    BY DEF Windows!Touch
  <2>2. hand \in WindowsHand
    BY DEF WindowsInv
  <2>3. fingers \in SUBSET Contacts
    BY <2>2 DEF WindowsHand, Windows!Ends
  <2> HIDE DEF fingers
  <2>4. hand' \in WindowsHand /\ hand'.pens = hand.pens
    BY <2>1, <2>2, <2>3 DEF WindowsHand
  <2>. QED
    BY <1>2, <2>4 DEF WindowsInv
<1>3. CASE backend
  <2>1. adapter' = adapter
    BY <1>2, <1>3 DEF Windows!SubclassTouch
  <2>2. adapter.queue \in Seq(Event)
    BY <1>1 DEF AdapterInv, SlotInv
  <2>3. Follows(adapter, adapter)
    BY <2>2, FollowsSame
  <2>. QED
    BY <1>2, <1>5, <2>1, <2>3 DEF WindowsInv, Windows!BackendOK
<1>4. CASE ~backend
  <2> DEFINE tool == "Finger"
             old == adapter.contacts[f]
             no == FALSE
             reading == 1
             zero == 0
  <2>1. /\ tool \in Tool /\ reading \in Readings /\ zero \in Nat
        /\ no \in BOOLEAN /\ ~no /\ (no => tool # "Finger")
        /\ (~no /\ Drawing(old) => old.tool = "Finger")
    <3>1. Drawing(old) => old # NoPen
      BY DEF Drawing, NoPen
    <3>. QED
      BY <1>1, <3>1 DEF Tool, Readings
  <2>2. adapter' = IF phase = "Down" THEN StartContact(adapter, f, tool, no, reading, zero)
                   ELSE ContinueContact(adapter, f, phase, tool, reading, zero)
    BY <1>2, <1>4, OnWindows DEF Windows!SubclassTouch
  <2>3. tool = "Finger"
    OBVIOUS
  <2> HIDE DEF tool, no, reading, zero
  <2>4. CASE phase = "Down"
    <3> DEFINE r == StartContact(adapter, f, tool, no, reading, zero)
               pen == [pointer |-> adapter.nextPointer, tool |-> tool]
    <3>1. OfContact(adapter, r, f, tool) /\ r.contacts[f] = pen
      BY <1>1, <2>1, StartContactKeeps
    <3>2. adapter' = r
      BY <2>2, <2>4
    <3>3. pen.tool = "Finger"
      BY <2>3
    <3> HIDE DEF r, pen
    <3>. QED
      BY <1>1, <1>2, <1>4, <1>5, <3>1, <3>2, <3>3 DEF OfContact, WindowsInv, Windows!BackendOK
  <2>5. CASE phase # "Down"
    <3> DEFINE r == ContinueContact(adapter, f, phase, tool, reading, zero)
    <3>0. phase \in {"Move", "Up", "Cancel"}
      BY <2>5
    <3>1. OfContact(adapter, r, f, old.tool) /\ r.contacts[f] = IF phase \in Ends THEN NoPen ELSE old
      BY <1>1, <2>1, <3>0, ContinueContactKeeps
    <3>2. adapter' = r
      BY <2>2, <2>5
    <3> HIDE DEF r
    <3>. QED
      BY <1>1, <1>2, <1>4, <1>5, <3>1, <3>2 DEF OfContact, WindowsInv, Windows!BackendOK
  <2>. QED
    BY <2>4, <2>5
<1>. QED
  BY <1>1, <1>3, <1>4

\* The samples of a message, one or two of them.
LEMMA WindowsMessages ==
    ASSUME WindowsInv, NEW p \in Windows!Pens, NEW samples \in {<< 1 >>, <<0, 1>>},
           NEW phase \in {"Down", "Move", "Up", "Hover"}
    PROVE  WindowsPen(adapter, Windows!HandlePen(p, phase, samples))
<1> DEFINE step(a, reading) == Windows!HandleWindowsRaw(a, p, phase, Windows!End(p), reading)
           one == step(adapter, samples[1])
           two == step(one, samples[2])
           all == Windows!HandlePen(p, phase, samples)
<1>1. DOMAIN samples \in {{1}, {1, 2}}
  <2>1. DOMAIN << 1 >> = {1} /\ DOMAIN <<0, 1>> = {1, 2}
    OBVIOUS
  <2>. QED
    BY <2>1
<1>2. all = IF DOMAIN samples = {1} THEN one ELSE two
  BY <1>1, WindowsDrains
<1>3. ASSUME NEW a, AdapterInv(a), NEW reading \in 0 .. 1
      PROVE  WindowsPen(a, step(a, reading))
  <2> DEFINE tool == Windows!End(p)
  <2>1. tool \in Tool \ {"Finger"} /\ p \in Devices /\ p # RangeDevice
    BY WindowsEnd
  <2> HIDE DEF tool
  <2>2. phase \in {"Down", "Move", "Up", "Cancel", "Hover"}
    OBVIOUS
  <2>3. WindowsPen(a, Windows!HandleWindowsRaw(a, p, phase, tool, reading))
    BY <1>3, <2>1, <2>2, WindowsRaw
  <2>. QED
    BY <2>3 DEF tool
<1>4. samples[1] \in 0 .. 1 /\ (DOMAIN samples = {1, 2} => samples[2] \in 0 .. 1)
  OBVIOUS
<1>5. AdapterInv(adapter)
  BY DEF WindowsInv
<1> HIDE DEF step, all
<1>6. WindowsPen(adapter, one)
  BY <1>3, <1>4, <1>5
<1> HIDE DEF one
<1>7. ASSUME DOMAIN samples = {1} PROVE WindowsPen(adapter, all)
  BY <1>2, <1>6, <1>7
<1>8. ASSUME DOMAIN samples # {1} PROVE WindowsPen(adapter, all)
  <2>1. all = two /\ samples[2] \in 0 .. 1
    BY <1>1, <1>2, <1>4, <1>8
  <2>2. AdapterInv(one)
    BY <1>6 DEF WindowsPen
  <2>3. WindowsPen(one, two)
    BY <1>3, <2>1, <2>2
  <2> HIDE DEF two
  <2>. QED
    BY <1>6, <2>1, <2>3, WindowsOn
<1>. QED
  BY <1>7, <1>8 DEF all

LEMMA WindowsSteps ==
    ASSUME WindowsInv, Windows!Next
    PROVE  WindowsInv' /\ (backend => Follows(adapter, adapter'))
<1>1. AdapterInv(adapter) /\ ~Drawing(adapter.pens[RangeDevice]) /\ backend \in BOOLEAN
  BY DEF WindowsInv, Windows!BackendOK
<1> DEFINE Safe == /\ WindowsPen(adapter, adapter') /\ backend' \in BOOLEAN /\ hand' \in WindowsHand
                   /\ \A q \in Windows!Pens : WindowsFlag(hand'.pens[q], backend')
<1>2. ASSUME NEW p \in Windows!Pens,
             \/ \E eraser \in BOOLEAN : Windows!InRange(p, eraser)
             \/ Windows!OutOfRange(p)
      PROVE  Safe
  <2>1. \E entering \in BOOLEAN : adapter' = Windows!PenProximity(adapter, RangeDevice, entering, "Pen")
    <3>1. \/ adapter' = Windows!PenProximity(adapter, RangeDevice, TRUE, "Pen")
          \/ adapter' = Windows!PenProximity(adapter, RangeDevice, FALSE, "Pen")
      BY <1>2, Zenon DEF Windows!InRange, Windows!OutOfRange, Windows!HandleWindowsProximity
    <3>. QED
      BY <3>1
  <2>2. PICK entering \in BOOLEAN : adapter' = PenProximity(adapter, RangeDevice, entering, "Pen")
    BY <2>1, OnWindows
  <2>3. WindowsPen(adapter, PenProximity(adapter, RangeDevice, entering, "Pen"))
    BY <1>1, WindowsRange
  <2>. QED
    BY <1>2, <2>2, <2>3, WindowsRanges
<1>3. ASSUME NEW p \in Windows!Pens, NEW known \in BOOLEAN, Windows!CaptureChanged(p, known)
      PROVE  Safe
  <2>1. PICK d \in Devices, tool \in Tool \ {"Finger"} :
            adapter' = Windows!HandleWindowsRaw(adapter, d, "Cancel", tool, 0)
    BY <1>3, WindowsEnd DEF Windows!CaptureChanged
  <2>2. WindowsPen(adapter, Windows!HandleWindowsRaw(adapter, d, "Cancel", tool, 0))
    BY <1>1, <2>1, WindowsRaw
  <2>3. backend' = backend /\ hand' = [hand EXCEPT !.pens[p].down = FALSE]
    BY <1>3 DEF Windows!CaptureChanged
  <2>. QED
    BY <1>1, <2>1, <2>2, <2>3, WindowsTips
<1>4. ASSUME NEW p \in Windows!Pens, NEW samples \in {<< 1 >>, <<0, 1>>},
             \/ Windows!PointerDown(p, samples) \/ Windows!PointerUp(p, samples)
             \/ Windows!PointerUpdate(p, samples)
      PROVE  Safe
  <2>1. PICK phase \in {"Down", "Move", "Up", "Hover"} : adapter' = Windows!HandlePen(p, phase, samples)
    BY <1>4, WindowsEnd DEF Windows!PointerDown, Windows!PointerUp, Windows!PointerUpdate
  <2>2. WindowsPen(adapter, adapter')
    BY <2>1, WindowsMessages
  <2>3. backend' = backend /\ (hand' = hand \/ \E down \in BOOLEAN : hand' = [hand EXCEPT !.pens[p].down = down])
    BY <1>4 DEF Windows!PointerDown, Windows!PointerUp, Windows!PointerUpdate
  <2>4. hand' \in WindowsHand /\ \A q \in Windows!Pens : WindowsFlag(hand'.pens[q], backend')
    <3>1. CASE hand' = hand
      BY <2>3, <3>1 DEF WindowsInv
    <3>. QED
      BY <2>3, <3>1, WindowsTips
  <2>. QED
    BY <1>1, <2>2, <2>3, <2>4
<1>5. ASSUME NEW f \in Contacts, NEW phase \in {"Down", "Move", "Up", "Cancel"}, Windows!Touch(f, phase)
      PROVE  WindowsInv' /\ (backend => Follows(adapter, adapter'))
  BY <1>5, WindowsTouches
<1> HIDE DEF Safe
<1>6. Safe \/ (WindowsInv' /\ (backend => Follows(adapter, adapter')))
  BY <1>2, <1>3, <1>4, <1>5, Zenon DEF Windows!Next
<1>. QED
  BY <1>6, WindowsPens DEF Safe

LEMMA WindowsSays ==
    ASSUME WindowsInv
    PROVE  /\ AdapterInv(adapter) /\ adapter.pending = {} /\ Windows!BackendOK
           /\ Windows!PenIsNear => backend
BY DEF WindowsInv, WindowsFlag, Windows!PenIsNear

(***************************************************************************)
(* Every platform.                                                         *)
(***************************************************************************)
\* The invariant of the build that was chosen.
TabletInv ==
    /\ platform \in Platforms
    /\ platform = "wayland" => WaylandInv
    /\ platform = "x11"     => X11Inv
    /\ platform = "windows" => WindowsInv
    /\ platform = "web"     => WebInv
    /\ platform = "ios"     => IosInv
    /\ platform = "android" => AndroidInv

LEMMA TabletStarts ==
    ASSUME Init
    PROVE  TabletInv
<1>1. CASE platform = "wayland" /\ Wayland!Init
  BY <1>1, WaylandStarts DEF TabletInv, Platforms
<1>2. CASE platform = "x11" /\ X11!Init
  BY <1>2, X11Starts DEF TabletInv, Platforms
<1>3. CASE platform = "windows" /\ Windows!Init
  BY <1>3, WindowsStarts DEF TabletInv, Platforms
<1>4. CASE platform = "web" /\ Web!Init
  BY <1>4, WebStarts DEF TabletInv, Platforms
<1>5. CASE platform = "ios" /\ Ios!Init
  BY <1>5, IosStarts DEF TabletInv, Platforms
<1>6. CASE platform = "android" /\ Android!Init
  BY <1>6, AndroidStarts DEF TabletInv, Platforms
<1>. QED
  BY <1>1, <1>2, <1>3, <1>4, <1>5, <1>6 DEF Init

LEMMA TabletStays ==
    ASSUME TabletInv, UNCHANGED vars
    PROVE  TabletInv'
<1>1. platform' = platform /\ adapter' = adapter /\ backend' = backend /\ hand' = hand
  BY DEF vars
<1>2. WaylandInv => WaylandInv'
  BY <1>1 DEF WaylandInv, Wayland!BackendOK, Wayland!Tracked
<1>3. X11Inv => X11Inv'
  BY <1>1 DEF X11Inv, X11!BackendOK
<1>4. WindowsInv => WindowsInv'
  BY <1>1 DEF WindowsInv, Windows!BackendOK
<1>5. WebInv => WebInv'
  BY <1>1 DEF WebInv
<1>6. IosInv => IosInv'
  BY <1>1 DEF IosInv, Ios!BackendOK
<1>7. AndroidInv => AndroidInv'
  BY <1>1 DEF AndroidInv, Android!BackendOK
<1>. QED
  BY <1>1, <1>2, <1>3, <1>4, <1>5, <1>6, <1>7 DEF TabletInv

LEMMA TabletSteps ==
    ASSUME TabletInv, [Next]_vars
    PROVE  TabletInv'
<1>1. CASE platform = "wayland" /\ Wayland!Next /\ platform' = platform
  BY <1>1, WaylandSteps DEF TabletInv
<1>2. CASE platform = "x11" /\ X11!Next /\ platform' = platform
  BY <1>2, X11Steps DEF TabletInv
<1>3. CASE platform = "windows" /\ Windows!Next /\ platform' = platform
  BY <1>3, WindowsSteps DEF TabletInv
<1>4. CASE platform = "web" /\ Web!Next /\ platform' = platform
  BY <1>4, WebSteps DEF TabletInv
<1>5. CASE platform = "ios" /\ Ios!Next /\ platform' = platform
  BY <1>5, IosSteps DEF TabletInv
<1>6. CASE platform = "android" /\ Android!Next /\ platform' = platform
  BY <1>6, AndroidSteps DEF TabletInv
<1>7. CASE UNCHANGED vars
  BY <1>7, TabletStays
<1>. QED
  BY <1>1, <1>2, <1>3, <1>4, <1>5, <1>6, <1>7 DEF Next

\* The invariant of each build is inductive: the adapter's, and how the state
\* of the backend and of its environment agree with the adapter's entries.
THEOREM TabletInvariant == Spec => []TabletInv
<1>1. Init => TabletInv
  BY TabletStarts
<1>2. TabletInv /\ [Next]_vars => TabletInv'
  BY TabletSteps
<1>. QED
  BY <1>1, <1>2, PTL DEF Spec

LEMMA TabletSays ==
    ASSUME TabletInv
    PROVE  /\ AdapterInv(adapter)
           /\ adapter.pending \subseteq [update : 1 .. MaxUpdates, pointer : Pointers]
           /\ platform \in Platforms
           /\ platform = "wayland" => Wayland!BackendOK
           /\ platform = "x11"     => X11!BackendOK
           /\ platform = "windows" => Windows!BackendOK
           /\ platform = "web"     => Web!BackendOK
           /\ platform = "ios"     => Ios!BackendOK
           /\ platform = "android" => Android!BackendOK
<1>1. platform \in Platforms
  BY DEF TabletInv
<1>2. CASE platform = "wayland"
  BY <1>2, WaylandSays DEF TabletInv
<1>3. CASE platform = "x11"
  BY <1>3, X11Says DEF TabletInv
<1>4. CASE platform = "windows"
  BY <1>4, WindowsSays DEF TabletInv
<1>5. CASE platform = "web"
  BY <1>5, WebSays DEF TabletInv
<1>6. CASE platform = "ios"
  BY <1>6, IosSays DEF TabletInv
<1>7. CASE platform = "android"
  BY <1>7 DEF TabletInv, AndroidInv
<1>. QED
  BY <1>1, <1>2, <1>3, <1>4, <1>5, <1>6, <1>7 DEF Platforms

\* Every pointer a device, a contact or an awaited update is known by was
\* minted, and the backend's state is of its type, on every platform.
THEOREM TabletTypes == Spec => []TypeOK
<1>1. TabletInv => TypeOK
  BY TabletSays, AdapterTyped DEF TypeOK
<1>. QED
  BY <1>1, TabletInvariant, PTL

\* A gesture is a Down, then Moves, then at most one Up or Cancel, all of the
\* tool of the Down, and its pointer is of no other gesture: for every handler
\* of every platform, in whatever order its events arrive.
THEOREM GesturesStayWhole == Spec => []GesturesAreWhole
<1>1. TabletInv => GesturesAreWhole
  BY TabletSays, AdapterIsWhole
<1>. QED
  BY <1>1, TabletInvariant, PTL

\* The pen that silences the mouse still draws: whatever ends its stroke
\* clears active_pen_pointer.
THEOREM SilencingPenDraws == Spec => []ActivePenDraws
<1>1. TabletInv => ActivePenDraws
  BY TabletSays, AdapterIsHeld
<1>. QED
  BY <1>1, TabletInvariant, PTL

\* No device or contact keeps a pointer whose gesture has ended.
THEOREM HeldGesturesAreOpen == Spec => []HeldIsOpen
<1>1. TabletInv => HeldIsOpen
  BY TabletSays, AdapterIsHeld
<1>. QED
  BY <1>1, TabletInvariant, PTL

\* Wayland: a tool that is away or removed, and whose last frame was flushed,
\* drives no stroke.
THEOREM AwayToolsAreEnded == Spec => []AwayIsEnded
<1>1. TabletInv => AwayIsEnded
  BY WaylandSays DEF TabletInv, AwayIsEnded
<1>. QED
  BY <1>1, TabletInvariant, PTL

\* X11: a device the backend takes to be in proximity is known to the adapter.
THEOREM NearDevicesAreKnown == Spec => []ProximityIsKnown
<1>1. TabletInv => ProximityIsKnown
  BY X11Says DEF TabletInv, ProximityIsKnown
<1>. QED
  BY <1>1, TabletInvariant, PTL

\* X11: the cached axes of a device are the server's, once the changes it
\* announced were handled, unless it changed while nothing of it was selected
\* or the query failed, and no query has succeeded since.
THEOREM CachedLayoutsAreCurrent == Spec => []LayoutIsCurrent
<1>1. TabletInv => LayoutIsCurrent
  BY X11Says DEF TabletInv, LayoutIsCurrent
<1>. QED
  BY <1>1, TabletInvariant, PTL

\* The web: a pen the gate holds to be live is one the adapter draws with.
THEOREM LivePensAreKnown == Spec => []LivePensDraw
<1>1. TabletInv => LivePensDraw
  BY WebSays DEF TabletInv, LivePensDraw
<1>. QED
  BY <1>1, TabletInvariant, PTL

\* iOS: a revision names the pointer of the sample that was estimated under
\* its index, comes after it, and is the only one of it.
THEOREM RevisionsAreOfSamples == Spec => []RevisionsFindTheirSample
<1>1. TabletInv => RevisionsFindTheirSample
  BY IosSays DEF TabletInv, RevisionsFindTheirSample
<1>. QED
  BY <1>1, TabletInvariant, PTL

LEMMA FollowsTellsNoFinger ==
    ASSUME AdapterInv(adapter), AdapterInv(adapter)', Follows(adapter, adapter')
    PROVE  ~\E i \in DOMAIN adapter'.queue :
               i > Len(adapter.queue) /\ adapter'.queue[i].tool = "Finger"
<1>1. DOMAIN adapter'.queue = 1 .. Len(adapter'.queue)
  <2>1. adapter'.queue \in Seq(Event)
    BY DEF AdapterInv, SlotInv
  <2>. QED
    BY <2>1
<1>2. Len(adapter.queue) \in Nat
  BY DEF Follows
<1>3. ASSUME NEW i \in 1 .. Len(adapter'.queue), i > Len(adapter.queue)
      PROVE  adapter'.queue[i].tool # "Finger"
  <2>1. ~(i <= Len(adapter.queue))
    BY <1>2, <1>3
  <2>. QED
    BY <1>3, <2>1 DEF Follows
<1>. QED
  BY <1>1, <1>3

\* Palm rejection: while the adapter draws with a pen (the web), or a pen is in
\* range that no other has left since it came (Windows), no step tells the app
\* of a finger. It rests on the gate's flag being up whenever such a pen is
\* there, whatever befell the other pens.
THEOREM PalmsStayRejected == Spec => PalmsAreRejected
<1> DEFINE told == ~\E i \in DOMAIN adapter'.queue :
                       i > Len(adapter.queue) /\ adapter'.queue[i].tool = "Finger"
<1>1. ASSUME TabletInv, TabletInv', Next, PenIsThere
      PROVE  told
  <2>1. /\ platform = "web" /\ Web!PenDraws => WebInv /\ WebInv' /\ backend # {}
        /\ platform = "windows" /\ Windows!PenIsNear => WindowsInv /\ WindowsInv' /\ backend
    <3>1. platform' = platform
      BY <1>1 DEF Next
    <3>. QED
      BY <1>1, <3>1, WebSays, WindowsSays DEF TabletInv
  <2>2. AdapterInv(adapter) /\ AdapterInv(adapter)'
    BY <1>1, <2>1 DEF PenIsThere, WebInv, WindowsInv
  <2>3. Follows(adapter, adapter')
    <3>1. CASE platform = "web" /\ Web!PenDraws
      BY <1>1, <2>1, <3>1, WebSteps DEF Next
    <3>2. CASE platform = "windows" /\ Windows!PenIsNear
      BY <1>1, <2>1, <3>2, WindowsSteps DEF Next
    <3>. QED
      BY <1>1, <3>1, <3>2 DEF PenIsThere
  <2>. QED
    BY <2>2, <2>3, FollowsTellsNoFinger
<1>2. TabletInv /\ TabletInv' /\ [Next]_vars
          => [PenIsThere => told]_vars
  BY <1>1
<1>. QED
  BY <1>2, TabletInvariant, PTL DEF Spec, PalmsAreRejected

=============================================================================
