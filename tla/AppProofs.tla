------------------------------ MODULE AppProofs -----------------------------
(***************************************************************************)
(* The app, the adapter and the user's hand (App) for any number of        *)
(* fingers and pens and a queue of any length.                             *)
(*                                                                         *)
(* What a pointer still has to go through is a property of the events that *)
(* are ahead of it in the queue. So the invariant is stated for the app as *)
(* it is after the first k events of the queue: between events k is 0, and *)
(* the loop of route_input takes it to the queue's length.                 *)
(***************************************************************************)
EXTENDS App, FiniteSetTheorems, NaturalsInduction, SequenceTheorems, TLAPS

\* on_focus_lost cancels one pen. What is said of all pointers holds when
\* there is only one; what holds for more pens is said of the mouse's alone.
OnePen == \A p, q \in Pens : p = q

Kept(p) == OnePen \/ p = Mouse

Starts(e, p) == e.pointer = p /\ e.phase = "Down"
Lifts(e, p)  == e.pointer = p /\ e.phase = "Up"
Ends(e, p)   == e.pointer = p /\ e.phase \in {"Up", "Cancel"}

\* After this event the app holds no estimate u of the pointer's stroke, or
\* no stroke of the pointer.
Settles(e, p, u) == e.pointer = p /\ (e.phase = "Cancel" \/ (e.phase = "Revise" /\ e.update = u))

(***************************************************************************)
(* A pointer the app draws with or swallows, when the first k events of    *)
(* the queue were handled: it goes down again only behind its end, and its *)
(* end is still to come, from the queue or from what is tracked (T).       *)
(***************************************************************************)
Reopens(q, p, k) ==
    \A i \in (k + 1) .. Len(q) : Starts(q[i], p) => \E j \in (k + 1) .. (i - 1) : Ends(q[j], p)

Ending(q, T, p, k) == p \in T \/ \E j \in (k + 1) .. Len(q) : Ends(q[j], p)

InProgress(q, T, p, k) == Reopens(q, p, k) /\ (Kept(p) => Ending(q, T, p, k))

\* Its estimate u: a revision is pending (D) or queued, before any Up.
Pending(p, u) == [update |-> u, pointer |-> p]

Revised(q, D, p, u, k) ==
    /\ \A i \in (k + 1) .. Len(q) :
          Lifts(q[i], p) => \E j \in (k + 1) .. (i - 1) : Settles(q[j], p, u)
    /\ Pending(p, u) \in D \/ \E j \in (k + 1) .. Len(q) : Settles(q[j], p, u)

\* The gestures that are still in the queue.
QueueAhead(q, T, D, k) ==
    \A i \in (k + 1) .. Len(q) : q[i].phase = "Down" =>
        /\ InProgress(q, T, q[i].pointer, i)
        /\ OnePen /\ q[i].update # 0 => Revised(q, D, q[i].pointer, q[i].update, i)

\* The gestures the app has seen the start of.
Claimed(s)   == ({s.active.pointer} \ {NoPointer}) \cup s.suppressed
Estimates(s) == IF s.active = NoActive THEN {} ELSE s.strokes[s.active.stroke].estimates

AppAhead(q, T, D, s, k) ==
    /\ \A p \in Claimed(s) : InProgress(q, T, p, k)
    /\ OnePen => \A u \in Estimates(s) : Revised(q, D, s.active.pointer, u, k)

(***************************************************************************)
(* Events are added to the end of the queue: what they do to a pointer.    *)
(***************************************************************************)
Queue == Seq(StylusEvent)

Extends(q, r) ==
    /\ q \in Queue /\ r \in Queue
    /\ Len(q) <= Len(r) /\ \A i \in 1 .. Len(q) : r[i] = q[i]

Added(q, r) == (Len(q) + 1) .. Len(r)

\* An end makes up for what is no longer tracked; a start is of a pointer
\* that is not tracked.
FitsGesture(q, r, T, U, p) ==
    /\ Kept(p) /\ p \in T => p \in U \/ \E j \in Added(q, r) : Ends(r[j], p)
    /\ \A i \in Added(q, r) : Starts(r[i], p) => Kept(p) /\ p \notin T

\* A revision or a Cancel makes up for what is no longer pending, and comes
\* before the Up.
FitsEstimates(q, r, D, E, p) ==
    \A u \in Nat : Pending(p, u) \in D =>
        /\ Pending(p, u) \in E \/ \E j \in Added(q, r) : Settles(r[j], p, u)
        /\ \A i \in Added(q, r) : Lifts(r[i], p) => \E j \in (Len(q) + 1) .. (i - 1) : Settles(r[j], p, u)

LEMMA GestureGoesOn ==
    ASSUME NEW q, NEW r, NEW T, NEW U, NEW p, NEW k \in Nat,
           Extends(q, r), k <= Len(q), InProgress(q, T, p, k), FitsGesture(q, r, T, U, p)
    PROVE  InProgress(r, U, p, k)
<1>1. Len(q) \in Nat /\ Len(r) \in Nat /\ Len(q) <= Len(r) /\ \A i \in 1 .. Len(q) : r[i] = q[i]
  BY DEF Extends, Queue
<1>2. ASSUME Kept(p) PROVE Ending(r, U, p, k)
  <2>1. CASE p \in T
    BY <1>1, <1>2, <2>1 DEF FitsGesture, Ending, Added
  <2>2. CASE p \notin T
    <3>1. PICK j \in (k + 1) .. Len(q) : Ends(q[j], p)
      BY <1>2, <2>2 DEF InProgress, Ending
    <3>2. j \in (k + 1) .. Len(r) /\ r[j] = q[j]
      BY <1>1
    <3>. QED
      BY <3>1, <3>2 DEF Ending
  <2>. QED
    BY <2>1, <2>2
<1>3. ASSUME NEW i \in (k + 1) .. Len(r), Starts(r[i], p)
      PROVE  \E j \in (k + 1) .. (i - 1) : Ends(r[j], p)
  <2>1. CASE i <= Len(q)
    <3>1. i \in (k + 1) .. Len(q) /\ r[i] = q[i]
      BY <1>1, <2>1
    <3>2. PICK j \in (k + 1) .. (i - 1) : Ends(q[j], p)
      BY <1>3, <3>1 DEF InProgress, Reopens
    <3>3. r[j] = q[j]
      BY <1>1, <3>1
    <3>. QED
      BY <3>2, <3>3
  <2>2. CASE ~(i <= Len(q))
    <3>1. i \in Added(q, r)
      BY <1>1, <2>2 DEF Added
    <3>2. Kept(p) /\ p \notin T
      BY <1>3, <3>1 DEF FitsGesture
    <3>3. PICK j \in (k + 1) .. Len(q) : Ends(q[j], p)
      BY <3>2 DEF InProgress, Ending
    <3>4. r[j] = q[j] /\ j \in (k + 1) .. (i - 1)
      BY <1>1, <2>2
    <3>. QED
      BY <3>3, <3>4
  <2>. QED
    BY <2>1, <2>2
<1>. QED
  BY <1>2, <1>3 DEF InProgress, Reopens

LEMMA EstimateGoesOn ==
    ASSUME NEW q, NEW r, NEW D, NEW E, NEW p, NEW u \in Nat, NEW k \in Nat,
           Extends(q, r), k <= Len(q), Revised(q, D, p, u, k), FitsEstimates(q, r, D, E, p)
    PROVE  Revised(r, E, p, u, k)
<1>1. Len(q) \in Nat /\ Len(r) \in Nat /\ Len(q) <= Len(r) /\ \A i \in 1 .. Len(q) : r[i] = q[i]
  BY DEF Extends, Queue
<1>2. ASSUME NEW j \in (k + 1) .. Len(q), Settles(q[j], p, u)
      PROVE  j \in (k + 1) .. Len(r) /\ Settles(r[j], p, u)
  <2>1. r[j] = q[j] /\ j \in (k + 1) .. Len(r)
    BY <1>1
  <2>. QED
    BY <1>2, <2>1
<1>3. Pending(p, u) \in E \/ \E j \in (k + 1) .. Len(r) : Settles(r[j], p, u)
  <2>1. CASE Pending(p, u) \in D
    <3>1. Pending(p, u) \in E \/ \E j \in Added(q, r) : Settles(r[j], p, u)
      BY <2>1 DEF FitsEstimates
    <3>. QED
      BY <1>1, <3>1 DEF Added
  <2>2. CASE Pending(p, u) \notin D
    BY <1>2, <2>2 DEF Revised
  <2>. QED
    BY <2>1, <2>2
<1>4. ASSUME NEW i \in (k + 1) .. Len(r), Lifts(r[i], p)
      PROVE  \E j \in (k + 1) .. (i - 1) : Settles(r[j], p, u)
  <2>1. CASE i <= Len(q)
    <3>1. i \in (k + 1) .. Len(q) /\ r[i] = q[i]
      BY <1>1, <2>1
    <3>2. PICK j \in (k + 1) .. (i - 1) : Settles(q[j], p, u)
      BY <1>4, <3>1 DEF Revised
    <3>3. r[j] = q[j]
      BY <1>1, <3>1
    <3>. QED
      BY <3>2, <3>3
  <2>2. CASE ~(i <= Len(q))
    <3>1. i \in Added(q, r) /\ Len(q) < i /\ i \in Nat
      BY <1>1, <2>2 DEF Added
    <3>2. CASE Pending(p, u) \in D
      <4>1. PICK j \in (Len(q) + 1) .. (i - 1) : Settles(r[j], p, u)
        BY <1>4, <3>1, <3>2 DEF FitsEstimates
      <4>2. j \in (k + 1) .. (i - 1)
        BY <1>1, <3>1
      <4>. QED
        BY <4>1, <4>2
    <3>3. CASE Pending(p, u) \notin D
      <4>1. PICK j \in (k + 1) .. Len(q) : Settles(q[j], p, u)
        BY <3>3 DEF Revised
      <4>2. Settles(r[j], p, u) /\ j \in (k + 1) .. (i - 1)
        BY <1>1, <1>2, <3>1, <4>1
      <4>. QED
        BY <4>2
    <3>. QED
      BY <3>2, <3>3
  <2>. QED
    BY <2>1, <2>2
<1>. QED
  BY <1>3, <1>4 DEF Revised

\* What one event of the app or of the user adds fits every pointer below
\* n, those minted so far, and a start is the last event added.
LEMMA AheadGrows ==
    ASSUME NEW q, NEW r, NEW T, NEW U, NEW D, NEW E, NEW s, NEW n \in Nat,
           Extends(q, r), QueueAhead(q, T, D, 0), AppAhead(q, T, D, s, 0),
           \A i \in 1 .. Len(q) : q[i].pointer < n,
           Claimed(s) \subseteq 0 .. (n - 1),
           Estimates(s) \subseteq Nat,
           Estimates(s) # {} => s.active.pointer \in 0 .. (n - 1),
           \A p \in 0 .. (n - 1) :
              FitsGesture(q, r, T, U, p) /\ (OnePen => FitsEstimates(q, r, D, E, p)),
           \A i \in Added(q, r) : r[i].phase = "Down" =>
              /\ i = Len(r)
              /\ r[i].pointer \in U
              /\ r[i].update # 0 => Pending(r[i].pointer, r[i].update) \in E
    PROVE  QueueAhead(r, U, E, 0) /\ AppAhead(r, U, E, s, 0)
<1>1. Len(q) \in Nat /\ Len(r) \in Nat /\ Len(q) <= Len(r) /\ \A i \in 1 .. Len(q) : r[i] = q[i]
  BY DEF Extends, Queue
<1>2. \A i \in 1 .. Len(r) : r[i].pointer \in Nat /\ r[i].update \in Nat
  <2>1. \A i \in 1 .. Len(r) : r[i] \in StylusEvent
    BY DEF Extends, Queue
  <2>. QED
    BY <2>1 DEF StylusEvent
<1>3. ASSUME NEW i \in 1 .. Len(r), r[i].phase = "Down"
      PROVE  /\ InProgress(r, U, r[i].pointer, i)
             /\ OnePen /\ r[i].update # 0 => Revised(r, E, r[i].pointer, r[i].update, i)
  <2>1. CASE i <= Len(q)
    <3>1. i \in 1 .. Len(q) /\ r[i] = q[i] /\ i \in Nat /\ i \in (0 + 1) .. Len(q)
      BY <1>1, <2>1
    <3>2. /\ InProgress(q, T, q[i].pointer, i)
          /\ OnePen /\ q[i].update # 0 => Revised(q, D, q[i].pointer, q[i].update, i)
      BY <1>3, <3>1 DEF QueueAhead
    <3>3. q[i].pointer \in 0 .. (n - 1) /\ q[i].update \in Nat
      BY <1>2, <3>1
    <3>4. InProgress(r, U, q[i].pointer, i)
      BY <2>1, <3>1, <3>2, <3>3, GestureGoesOn
    <3>5. ASSUME OnePen, q[i].update # 0 PROVE Revised(r, E, q[i].pointer, q[i].update, i)
      BY <2>1, <3>1, <3>2, <3>3, <3>5, EstimateGoesOn
    <3>. QED
      BY <3>1, <3>4, <3>5
  <2>2. CASE ~(i <= Len(q))
    <3>1. i \in Added(q, r)
      BY <1>1, <2>2 DEF Added
    <3>2. i = Len(r) /\ r[i].pointer \in U /\ (r[i].update # 0 => Pending(r[i].pointer, r[i].update) \in E)
      BY <1>3, <3>1
    <3>3. (i + 1) .. Len(r) = {}
      BY <1>1, <3>2
    <3>. QED
      BY <3>2, <3>3 DEF InProgress, Reopens, Ending, Revised
  <2>. QED
    BY <2>1, <2>2
<1>4. ASSUME NEW p \in Claimed(s) PROVE InProgress(r, U, p, 0)
  <2>1. InProgress(q, T, p, 0) /\ p \in 0 .. (n - 1) /\ 0 <= Len(q)
    BY <1>1 DEF AppAhead
  <2>. QED
    BY <2>1, GestureGoesOn
<1>5. ASSUME OnePen, NEW u \in Estimates(s) PROVE Revised(r, E, s.active.pointer, u, 0)
  <2>1. /\ Revised(q, D, s.active.pointer, u, 0) /\ s.active.pointer \in 0 .. (n - 1)
        /\ u \in Nat /\ 0 <= Len(q)
    BY <1>1, <1>5 DEF AppAhead
  <2>. QED
    BY <1>5, <2>1, EstimateGoesOn
<1>6. QueueAhead(r, U, E, 0)
  BY <1>3 DEF QueueAhead
<1>. QED
  BY <1>4, <1>5, <1>6 DEF AppAhead

(***************************************************************************)
(* The app takes an event from the queue.                                  *)
(***************************************************************************)
LEMMA GestureMovesOn ==
    ASSUME NEW q, NEW T, NEW p, NEW k \in Nat, Len(q) \in Nat, k < Len(q),
           InProgress(q, T, p, k), ~Ends(q[k + 1], p)
    PROVE  InProgress(q, T, p, k + 1)
<1>1. k + 1 \in Nat /\ k + 1 \in (k + 1) .. Len(q)
  OBVIOUS
<1>2. \A i \in (k + 2) .. Len(q) : i \in (k + 1) .. Len(q)
  OBVIOUS
<1>3. ASSUME Kept(p) PROVE Ending(q, T, p, k + 1)
  <2>1. CASE p \in T
    BY <2>1 DEF Ending
  <2>2. CASE p \notin T
    <3>1. PICK j \in (k + 1) .. Len(q) : Ends(q[j], p)
      BY <1>3, <2>2 DEF InProgress, Ending
    <3>2. j # k + 1
      BY <3>1
    <3>3. j \in ((k + 1) + 1) .. Len(q)
      BY <3>2
    <3>. QED
      BY <3>1, <3>3 DEF Ending
  <2>. QED
    BY <2>1, <2>2
<1>4. ASSUME NEW i \in ((k + 1) + 1) .. Len(q), Starts(q[i], p)
      PROVE  \E j \in ((k + 1) + 1) .. (i - 1) : Ends(q[j], p)
  <2>1. i \in (k + 1) .. Len(q)
    OBVIOUS
  <2>2. PICK j \in (k + 1) .. (i - 1) : Ends(q[j], p)
    BY <1>4, <2>1 DEF InProgress, Reopens
  <2>3. j # k + 1
    BY <2>2
  <2>4. j \in ((k + 1) + 1) .. (i - 1)
    BY <2>3
  <2>. QED
    BY <2>2, <2>4
<1>. QED
  BY <1>3, <1>4 DEF InProgress, Reopens

\* Its next event is no second Down, and an estimate it holds is not the
\* business of an Up.
LEMMA NextIsNoStart ==
    ASSUME NEW q, NEW T, NEW p, NEW k \in Nat, Len(q) \in Nat, k < Len(q), InProgress(q, T, p, k)
    PROVE  ~Starts(q[k + 1], p)
<1>1. k + 1 \in (k + 1) .. Len(q) /\ (k + 1) .. ((k + 1) - 1) = {}
  OBVIOUS
<1>. QED
  BY <1>1 DEF InProgress, Reopens

LEMMA NextIsNoLift ==
    ASSUME NEW q, NEW D, NEW p, NEW u, NEW k \in Nat, Len(q) \in Nat, k < Len(q), Revised(q, D, p, u, k)
    PROVE  ~Lifts(q[k + 1], p)
<1>1. k + 1 \in (k + 1) .. Len(q) /\ (k + 1) .. ((k + 1) - 1) = {}
  OBVIOUS
<1>. QED
  BY <1>1 DEF Revised

LEMMA EstimateMovesOn ==
    ASSUME NEW q, NEW D, NEW p, NEW u, NEW k \in Nat, Len(q) \in Nat, k < Len(q),
           Revised(q, D, p, u, k), ~Settles(q[k + 1], p, u)
    PROVE  Revised(q, D, p, u, k + 1)
<1>1. ASSUME Pending(p, u) \notin D PROVE \E j \in ((k + 1) + 1) .. Len(q) : Settles(q[j], p, u)
  <2>1. PICK j \in (k + 1) .. Len(q) : Settles(q[j], p, u)
    BY <1>1 DEF Revised
  <2>2. j # k + 1
    BY <2>1
  <2>3. j \in ((k + 1) + 1) .. Len(q)
    BY <2>2
  <2>. QED
    BY <2>1, <2>3
<1>2. ASSUME NEW i \in ((k + 1) + 1) .. Len(q), Lifts(q[i], p)
      PROVE  \E j \in ((k + 1) + 1) .. (i - 1) : Settles(q[j], p, u)
  <2>1. i \in (k + 1) .. Len(q)
    OBVIOUS
  <2>2. PICK j \in (k + 1) .. (i - 1) : Settles(q[j], p, u)
    BY <1>2, <2>1 DEF Revised
  <2>3. j # k + 1
    BY <2>2
  <2>4. j \in ((k + 1) + 1) .. (i - 1)
    BY <2>3
  <2>. QED
    BY <2>2, <2>4
<1>. QED
  BY <1>1, <1>2 DEF Revised

\* What the app holds after it handled the event was held before and not
\* ended by it, or is what the event starts.
LEMMA AheadMovesOn ==
    ASSUME NEW q, NEW T, NEW D, NEW s, NEW r, NEW k \in Nat, Len(q) \in Nat, k < Len(q),
           QueueAhead(q, T, D, k), AppAhead(q, T, D, s, k),
           \A p \in Claimed(r) :
              \/ p \in Claimed(s) /\ ~Ends(q[k + 1], p)
              \/ Starts(q[k + 1], p),
           \A u \in Estimates(r) :
              \/ /\ u \in Estimates(s) /\ r.active.pointer = s.active.pointer
                 /\ ~Settles(q[k + 1], r.active.pointer, u)
              \/ Starts(q[k + 1], r.active.pointer) /\ q[k + 1].update = u /\ u # 0
    PROVE  QueueAhead(q, T, D, k + 1) /\ AppAhead(q, T, D, r, k + 1)
<1>1. k + 1 \in (k + 1) .. Len(q) /\ \A i \in ((k + 1) + 1) .. Len(q) : i \in (k + 1) .. Len(q)
  OBVIOUS
<1>2. QueueAhead(q, T, D, k + 1)
  BY <1>1 DEF QueueAhead
<1>3. ASSUME NEW p \in Claimed(r) PROVE InProgress(q, T, p, k + 1)
  <2>1. CASE p \in Claimed(s) /\ ~Ends(q[k + 1], p)
    <3>1. InProgress(q, T, p, k)
      BY <2>1 DEF AppAhead
    <3>. QED
      BY <2>1, <3>1, GestureMovesOn
  <2>2. CASE Starts(q[k + 1], p)
    BY <1>1, <2>2 DEF QueueAhead, Starts
  <2>. QED
    BY <2>1, <2>2
<1>4. ASSUME OnePen, NEW u \in Estimates(r) PROVE Revised(q, D, r.active.pointer, u, k + 1)
  <2>1. CASE /\ u \in Estimates(s) /\ r.active.pointer = s.active.pointer
             /\ ~Settles(q[k + 1], r.active.pointer, u)
    <3>1. Revised(q, D, r.active.pointer, u, k)
      BY <1>4, <2>1 DEF AppAhead
    <3>. QED
      BY <2>1, <3>1, EstimateMovesOn
  <2>2. CASE Starts(q[k + 1], r.active.pointer) /\ q[k + 1].update = u /\ u # 0
    BY <1>1, <1>4, <2>2 DEF QueueAhead, Starts
  <2>. QED
    BY <1>4, <2>1, <2>2
<1>. QED
  BY <1>2, <1>3, <1>4 DEF AppAhead

(***************************************************************************)
(* The strokes of the app, for pointers below n and updates below m.       *)
(***************************************************************************)
StrokeState == [fate : Fate, estimates : SUBSET Nat]

AppState ==
    [active     : [pointer : Int, stroke : Nat],
     suppressed : SUBSET Nat,
     strokes    : Seq(StrokeState)]

Held(s, n) ==
    /\ s.active # NoActive =>
          s.active.pointer \in 0 .. (n - 1) /\ s.active.stroke \in 1 .. Len(s.strokes)
    /\ s.suppressed \subseteq 0 .. (n - 1)
    /\ s.active.pointer \notin s.suppressed

Drawn(s, m) ==
    /\ \A i \in 1 .. Len(s.strokes) : s.strokes[i].estimates \subseteq 1 .. (m - 1)
    /\ \A i \in 1 .. Len(s.strokes) :
          s.strokes[i].fate = "drawing" <=> s.active # NoActive /\ s.active.stroke = i
    /\ OnePen => \A i \in 1 .. Len(s.strokes) :
                    s.strokes[i].fate = "Up" => s.strokes[i].estimates = {}

AppOK(s, n, m) == s \in AppState /\ Held(s, n) /\ Drawn(s, m)

LEMMA AppParts ==
    ASSUME NEW s \in AppState
    PROVE  /\ s.active \in [pointer : Int, stroke : Nat] /\ s.active.pointer \in Int /\ s.active.stroke \in Nat
           /\ s.suppressed \subseteq Nat
           /\ s.strokes \in Seq(StrokeState) /\ Len(s.strokes) \in Nat /\ DOMAIN s.strokes = 1 .. Len(s.strokes)
           /\ \A i \in 1 .. Len(s.strokes) :
                 /\ s.strokes[i] \in StrokeState
                 /\ s.strokes[i].fate \in Fate /\ s.strokes[i].estimates \subseteq Nat
<1>1. s.active \in [pointer : Int, stroke : Nat] /\ s.suppressed \subseteq Nat /\ s.strokes \in Seq(StrokeState)
  BY DEF AppState
<1>2. \A i \in 1 .. Len(s.strokes) : s.strokes[i] \in StrokeState
  BY <1>1
<1>. QED
  BY <1>1, <1>2 DEF StrokeState

\* The fields of the app after one of them is set.
LEMMA AppUpdates ==
    ASSUME NEW s \in AppState
    PROVE  /\ \A x \in [pointer : Int, stroke : Nat] :
                 LET r == [s EXCEPT !.active = x]
                 IN  r \in AppState /\ r.active = x /\ r.suppressed = s.suppressed /\ r.strokes = s.strokes
           /\ \A x \in SUBSET Nat :
                 LET r == [s EXCEPT !.suppressed = x]
                 IN  r \in AppState /\ r.active = s.active /\ r.suppressed = x /\ r.strokes = s.strokes
           /\ \A x \in Seq(StrokeState) :
                 LET r == [s EXCEPT !.strokes = x]
                 IN  r \in AppState /\ r.active = s.active /\ r.suppressed = s.suppressed /\ r.strokes = x
<1> DEFINE S == Seq(StrokeState)
<1>1. s \in [active : [pointer : Int, stroke : Nat], suppressed : SUBSET Nat, strokes : S]
  BY DEF AppState
<1> HIDE DEF S
<1>. QED
  BY <1>1 DEF AppState, S

\* BeginStroke: what is in flight is lost.
LEMMA BeginIs ==
    ASSUME NEW s \in AppState, NEW u \in Nat
    PROVE  LET r == BeginStroke(s, u)
               n == Len(s.strokes)
           IN  /\ r \in AppState /\ r.active = s.active /\ r.suppressed = s.suppressed
               /\ Len(r.strokes) = n + 1
               /\ \A i \in 1 .. n :
                     /\ r.strokes[i].estimates = s.strokes[i].estimates
                     /\ s.strokes[i].fate = "drawing" => r.strokes[i].fate = "lost"
                     /\ s.strokes[i].fate # "drawing" => r.strokes[i].fate = s.strokes[i].fate
               /\ r.strokes[n + 1].fate = "drawing"
               /\ r.strokes[n + 1].estimates = {u} \ {0}
<1> DEFINE n == Len(s.strokes)
           st == s.strokes
           lost(x) == [x EXCEPT !.fate = "lost"]
           others == [i \in DOMAIN s.strokes |-> IF i \in Drawing(s) THEN [s.strokes[i] EXCEPT !.fate = "lost"]
                                                 ELSE s.strokes[i]]
           stroke == [fate |-> "drawing", estimates |-> {u} \ {0}]
           all == Append(others, stroke)
<1>1. st \in Seq(StrokeState) /\ n \in Nat /\ DOMAIN st = 1 .. n /\ \A i \in 1 .. n : st[i] \in StrokeState
  BY AppParts
<1>2. \A x \in StrokeState : lost(x) \in StrokeState /\ lost(x).fate = "lost" /\ lost(x).estimates = x.estimates
  BY DEF StrokeState, Fate
<1>3. stroke \in StrokeState /\ stroke.fate = "drawing" /\ stroke.estimates = {u} \ {0}
  BY DEF StrokeState, Fate
<1>4. \A i \in 1 .. n : others[i] = IF st[i].fate = "drawing" THEN lost(st[i]) ELSE st[i]
  BY <1>1 DEF Drawing
<1>5. DOMAIN others = 1 .. n
  BY <1>1
<1>6. BeginStroke(s, u) = [s EXCEPT !.strokes = all]
  BY DEF BeginStroke
<1> HIDE DEF lost, stroke, st, n
<1>7. \A i \in 1 .. n : others[i] \in StrokeState
  BY <1>1, <1>2, <1>4
<1>8. others = [i \in 1 .. n |-> others[i]]
  BY <1>5
<1> HIDE DEF others
<1>9. others \in Seq(StrokeState) /\ Len(others) = n
  BY <1>1, <1>5, <1>7, <1>8
<1>10. /\ all \in Seq(StrokeState) /\ Len(all) = n + 1
       /\ \A i \in 1 .. n : all[i] = others[i]
       /\ all[n + 1] = stroke
  BY <1>1, <1>3, <1>9
<1> HIDE DEF all
<1>11. \A i \in 1 .. n :
          /\ all[i].estimates = st[i].estimates
          /\ st[i].fate = "drawing" => all[i].fate = "lost"
          /\ st[i].fate # "drawing" => all[i].fate = st[i].fate
  BY <1>1, <1>2, <1>4, <1>10
<1> DEFINE r == [s EXCEPT !.strokes = all]
<1>12. r \in AppState /\ r.active = s.active /\ r.suppressed = s.suppressed /\ r.strokes = all
  BY <1>10, AppUpdates
<1> HIDE DEF r
<1>13. BeginStroke(s, u) = r
  BY <1>6 DEF r
<1>. QED
  BY <1>3, <1>10, <1>11, <1>12, <1>13 DEF n, st

LEMMA StrokeUpdates ==
    ASSUME NEW st \in Seq(StrokeState), NEW j \in 1 .. Len(st), NEW x \in StrokeState
    PROVE  LET t == [st EXCEPT ![j] = x]
           IN  /\ t \in Seq(StrokeState) /\ Len(t) = Len(st) /\ t[j] = x
               /\ \A i \in 1 .. Len(st) : i # j => t[i] = st[i]
OBVIOUS

\* EndStroke and CancelStroke.
LEMMA FinishIs ==
    ASSUME NEW s \in AppState, NEW j, NEW fate \in Fate, fate # "drawing"
    PROVE  LET r == FinishStroke(s, j, fate)
           IN  /\ r \in AppState /\ r.active = s.active /\ r.suppressed = s.suppressed
               /\ Len(r.strokes) = Len(s.strokes)
               /\ \A i \in 1 .. Len(s.strokes) :
                     /\ r.strokes[i].estimates = s.strokes[i].estimates
                     /\ i = j /\ s.strokes[i].fate = "drawing" => r.strokes[i].fate = fate
                     /\ i # j \/ s.strokes[i].fate # "drawing" => r.strokes[i].fate = s.strokes[i].fate
<1> DEFINE st == s.strokes
           x == [st[j] EXCEPT !.fate = fate]
           t == [st EXCEPT ![j] = x]
<1>1. st \in Seq(StrokeState) /\ DOMAIN st = 1 .. Len(st) /\ \A i \in 1 .. Len(st) : st[i] \in StrokeState
  BY AppParts
<1>2. CASE j \in Drawing(s)
  <2>1. j \in 1 .. Len(st) /\ st[j] \in StrokeState /\ st[j].fate = "drawing"
    BY <1>1, <1>2 DEF Drawing
  <2>2. x \in StrokeState /\ x.fate = fate /\ x.estimates = st[j].estimates
    BY <2>1 DEF StrokeState
  <2>3. FinishStroke(s, j, fate) = [s EXCEPT !.strokes = t]
    BY <1>2 DEF FinishStroke
  <2> HIDE DEF x, st
  <2>4. t \in Seq(StrokeState) /\ Len(t) = Len(st) /\ t[j] = x /\ \A i \in 1 .. Len(st) : i # j => t[i] = st[i]
    BY <1>1, <2>1, <2>2, StrokeUpdates
  <2> HIDE DEF t
  <2> DEFINE r == [s EXCEPT !.strokes = t]
  <2>5. r \in AppState /\ r.active = s.active /\ r.suppressed = s.suppressed /\ r.strokes = t
    BY <2>4, AppUpdates
  <2> HIDE DEF r
  <2>6. FinishStroke(s, j, fate) = r
    BY <2>3 DEF r
  <2>. QED
    BY <2>1, <2>2, <2>4, <2>5, <2>6 DEF st
<1>3. CASE j \notin Drawing(s)
  <2>1. FinishStroke(s, j, fate) = s
    BY <1>3 DEF FinishStroke
  <2>2. ~(j \in 1 .. Len(st) /\ st[j].fate = "drawing")
    BY <1>1, <1>3 DEF Drawing
  <2>. QED
    BY <2>1, <2>2
<1>. QED
  BY <1>2, <1>3

LEMMA ReviseIs ==
    ASSUME NEW s \in AppState, NEW j \in 1 .. Len(s.strokes), NEW u
    PROVE  LET r == ReviseSample(s, j, u)
           IN  /\ r \in AppState /\ r.active = s.active /\ r.suppressed = s.suppressed
               /\ Len(r.strokes) = Len(s.strokes)
               /\ \A i \in 1 .. Len(s.strokes) :
                     /\ r.strokes[i].fate = s.strokes[i].fate
                     /\ i = j => r.strokes[i].estimates = s.strokes[i].estimates \ {u}
                     /\ i # j => r.strokes[i].estimates = s.strokes[i].estimates
<1> DEFINE st == s.strokes
           x == [st[j] EXCEPT !.estimates = @ \ {u}]
           t == [st EXCEPT ![j] = x]
<1>1. st \in Seq(StrokeState) /\ DOMAIN st = 1 .. Len(st) /\ \A i \in 1 .. Len(st) : st[i] \in StrokeState
  BY AppParts
<1>2. x \in StrokeState /\ x.fate = st[j].fate /\ x.estimates = st[j].estimates \ {u}
  BY <1>1 DEF StrokeState
<1>3. ReviseSample(s, j, u) = [s EXCEPT !.strokes = t]
  BY DEF ReviseSample
<1>4. j \in 1 .. Len(st)
  OBVIOUS
<1> HIDE DEF x, st
<1>5. t \in Seq(StrokeState) /\ Len(t) = Len(st) /\ t[j] = x /\ \A i \in 1 .. Len(st) : i # j => t[i] = st[i]
  BY <1>1, <1>2, <1>4, StrokeUpdates
<1> HIDE DEF t
<1> DEFINE r == [s EXCEPT !.strokes = t]
<1>6. r \in AppState /\ r.active = s.active /\ r.suppressed = s.suppressed /\ r.strokes = t
  BY <1>5, AppUpdates
<1> HIDE DEF r
<1>7. ReviseSample(s, j, u) = r
  BY <1>3 DEF r
<1>. QED
  BY <1>2, <1>4, <1>5, <1>6, <1>7 DEF st

(***************************************************************************)
(* What each phase does.                                                   *)
(***************************************************************************)
\* What the app holds was held before and not ended by e, or starts with e.
Follows(s, r, e) ==
    /\ \A p \in Claimed(r) : (p \in Claimed(s) /\ ~Ends(e, p)) \/ Starts(e, p)
    /\ \A u \in Estimates(r) :
          \/ /\ u \in Estimates(s) /\ r.active.pointer = s.active.pointer
             /\ ~Settles(e, r.active.pointer, u)
          \/ Starts(e, r.active.pointer) /\ e.update = u /\ u # 0

LEMMA NothingIsActive ==
    /\ NoActive.pointer = NoPointer /\ NoActive.stroke = 0
    /\ NoActive \in [pointer : Int, stroke : Nat]
    /\ NoPointer \in Int /\ NoPointer \notin Nat
BY DEF NoActive, NoPointer

\* No pointer, no stroke: an active pair with no pointer is NoActive.
LEMMA ActiveIs ==
    ASSUME NEW s, NEW n \in Nat, NEW m, AppOK(s, n, m)
    PROVE  /\ s.active = NoActive <=> s.active.pointer = NoPointer
           /\ s.active # NoActive => /\ s.active.pointer \in 0 .. (n - 1) /\ s.active.pointer \in Nat
                                     /\ s.active.pointer \in Claimed(s)
                                     /\ s.active.stroke \in 1 .. Len(s.strokes)
                                     /\ Estimates(s) = s.strokes[s.active.stroke].estimates
           /\ s.active = NoActive => Estimates(s) = {} /\ Claimed(s) = s.suppressed
           /\ Claimed(s) \subseteq 0 .. (n - 1)
           /\ Estimates(s) \subseteq Nat
<1>1. s.active # NoActive => s.active.pointer \in 0 .. (n - 1) /\ s.active.stroke \in 1 .. Len(s.strokes)
  BY DEF AppOK, Held
<1>2. s.suppressed \subseteq 0 .. (n - 1)
  BY DEF AppOK, Held
<1>3. s.active # NoActive => Estimates(s) = s.strokes[s.active.stroke].estimates
  BY DEF Estimates
<1>4. s.active = NoActive => Estimates(s) = {} /\ Claimed(s) = s.suppressed
  BY NothingIsActive DEF Estimates, Claimed
<1>5. \A i \in 1 .. Len(s.strokes) : s.strokes[i].estimates \subseteq Nat
  BY AppParts DEF AppOK
<1>6. Claimed(s) \subseteq 0 .. (n - 1)
  BY <1>1, <1>2, NothingIsActive DEF Claimed
<1>7. s.active # NoActive => s.active.pointer \in Claimed(s)
  BY <1>1, NothingIsActive DEF Claimed
<1>8. Estimates(s) \subseteq Nat
  BY <1>1, <1>3, <1>4, <1>5
<1>. QED
  BY <1>1, <1>3, <1>4, <1>6, <1>7, <1>8, NothingIsActive

LEMMA DownFollows ==
    ASSUME NEW n \in Nat, NEW m \in Nat, NEW s, AppOK(s, n, m), NEW e \in StylusEvent, NEW c,
           e.phase = "Down", e.pointer < n, e.update < m, e.pointer \notin Claimed(s)
    PROVE  LET r == OnDown(s, e, c) IN AppOK(r, n, m) /\ Follows(s, r, e)
<1> DEFINE p == e.pointer
           u == e.update
<1>1. /\ p \in Nat /\ u \in Nat /\ p \in 0 .. (n - 1) /\ Starts(e, p)
      /\ \A x : ~Ends(e, x) /\ \A y : ~Settles(e, x, y)
  BY DEF StylusEvent, Starts, Ends, Settles
<1>2. s \in AppState /\ Held(s, n) /\ Drawn(s, m)
  BY DEF AppOK
<1>3. p \notin s.suppressed /\ s.active.pointer # p
  BY <1>1, NothingIsActive DEF Claimed
<1>4. /\ s.active \in [pointer : Int, stroke : Nat] /\ s.suppressed \subseteq Nat
      /\ Len(s.strokes) \in Nat
  BY <1>2, AppParts
<1>5. CASE c.over
  <2> DEFINE x == s.suppressed \cup {p}
             r == [s EXCEPT !.suppressed = x]
  <2>1. OnDown(s, e, c) = r
    BY <1>5 DEF OnDown, Suppress
  <2>2. x \in SUBSET Nat
    BY <1>1, <1>4
  <2> HIDE DEF x
  <2>3. r \in AppState /\ r.active = s.active /\ r.suppressed = x /\ r.strokes = s.strokes
    BY <1>2, <2>2, AppUpdates
  <2> HIDE DEF r
  <2>4. Held(r, n)
    BY <1>1, <1>2, <1>3, <2>3 DEF Held, x
  <2>5. Drawn(r, m)
    BY <1>2, <2>3 DEF Drawn
  <2>6. Claimed(r) = Claimed(s) \cup {p} /\ Estimates(r) = Estimates(s)
    BY <1>1, <2>3, NothingIsActive DEF Claimed, Estimates, x
  <2>7. Follows(s, r, e)
    BY <1>1, <2>3, <2>6 DEF Follows
  <2>. QED
    BY <2>1, <2>3, <2>4, <2>5, <2>7 DEF AppOK
<1>6. CASE ~c.over
  <2> DEFINE b == BeginStroke(s, u)
             l == Len(s.strokes)
             x == [pointer |-> p, stroke |-> Len(b.strokes)]
             r == [b EXCEPT !.active = x]
  <2>1. OnDown(s, e, c) = r
    BY <1>6 DEF OnDown
  <2>2. /\ b \in AppState /\ b.active = s.active /\ b.suppressed = s.suppressed
        /\ Len(b.strokes) = l + 1
        /\ \A i \in 1 .. l :
              /\ b.strokes[i].estimates = s.strokes[i].estimates
              /\ s.strokes[i].fate = "drawing" => b.strokes[i].fate = "lost"
              /\ s.strokes[i].fate # "drawing" => b.strokes[i].fate = s.strokes[i].fate
        /\ b.strokes[l + 1].fate = "drawing"
        /\ b.strokes[l + 1].estimates = {u} \ {0}
    <3>1. u \in Nat /\ s \in AppState
      BY <1>1, <1>2
    <3> HIDE DEF u
    <3>. QED
      BY <3>1, BeginIs
  <2> HIDE DEF b
  <2>3. x \in [pointer : Int, stroke : Nat] /\ x.pointer = p /\ x.stroke = l + 1 /\ l \in Nat
    BY <1>1, <1>4, <2>2
  <2> HIDE DEF x
  <2>4. r \in AppState /\ r.active = x /\ r.suppressed = b.suppressed /\ r.strokes = b.strokes
    BY <2>2, <2>3, AppUpdates
  <2> HIDE DEF r, l
  <2>5. r.active # NoActive
    BY <1>1, <2>3, <2>4, NothingIsActive
  <2>6. Held(r, n)
    BY <1>1, <1>2, <1>3, <2>2, <2>3, <2>4 DEF Held
  <2>7. \A i \in 1 .. (l + 1) : i \in 1 .. l \/ i = l + 1
    BY <2>3
  <2>8. \A i \in 1 .. l : i # l + 1
    BY <2>3
  <2>9. Drawn(r, m)
    <3>1. \A i \in 1 .. (l + 1) : r.strokes[i].estimates \subseteq 1 .. (m - 1)
      <4>1. {u} \ {0} \subseteq 1 .. (m - 1)
        BY <1>1
      <4>2. \A i \in 1 .. l : s.strokes[i].estimates \subseteq 1 .. (m - 1)
        BY <1>2 DEF Drawn, l
      <4>. QED
        BY <2>2, <2>4, <2>7, <4>1, <4>2
    <3>2. \A i \in 1 .. (l + 1) :
             r.strokes[i].fate = "drawing" <=> r.active # NoActive /\ r.active.stroke = i
      BY <2>2, <2>3, <2>4, <2>5, <2>7, <2>8
    <3>3. ASSUME OnePen, NEW i \in 1 .. (l + 1), r.strokes[i].fate = "Up"
          PROVE  r.strokes[i].estimates = {}
      <4>1. i \in 1 .. l /\ s.strokes[i].fate = "Up"
        BY <2>2, <2>4, <2>7, <3>3
      <4>. QED
        BY <1>2, <2>2, <2>4, <3>3, <4>1 DEF Drawn, l
    <3>. QED
      BY <2>2, <2>4, <3>1, <3>2, <3>3 DEF Drawn
  <2>10. Estimates(r) = {u} \ {0}
    BY <2>2, <2>3, <2>4, <2>5 DEF Estimates
  <2>11. Claimed(r) \subseteq Claimed(s) \cup {p}
    BY <2>2, <2>3, <2>4 DEF Claimed
  <2>12. Follows(s, r, e)
    BY <1>1, <2>3, <2>4, <2>10, <2>11 DEF Follows
  <2>. QED
    BY <2>1, <2>4, <2>6, <2>9, <2>12 DEF AppOK
<1>. QED
  BY <1>5, <1>6

\* The app lets go of its stroke: FinishStroke, then Deactivate.
LEMMA LetGo ==
    ASSUME NEW n \in Nat, NEW m \in Nat, NEW s, AppOK(s, n, m), s.active # NoActive,
           NEW fate \in Fate, fate # "drawing",
           OnePen /\ fate = "Up" => Estimates(s) = {}
    PROVE  LET r == Deactivate(FinishStroke(s, s.active.stroke, fate))
           IN  /\ AppOK(r, n, m) /\ r.active = NoActive /\ r.suppressed = s.suppressed
<1> DEFINE j == s.active.stroke
           b == FinishStroke(s, s.active.stroke, fate)
           r == [b EXCEPT !.active = NoActive]
<1>1. s \in AppState /\ Held(s, n) /\ Drawn(s, m) /\ j \in 1 .. Len(s.strokes) /\ Len(s.strokes) \in Nat
  BY ActiveIs, AppParts DEF AppOK
<1>2. /\ b \in AppState /\ b.active = s.active /\ b.suppressed = s.suppressed
      /\ Len(b.strokes) = Len(s.strokes)
      /\ \A i \in 1 .. Len(s.strokes) :
            /\ b.strokes[i].estimates = s.strokes[i].estimates
            /\ i = j /\ s.strokes[i].fate = "drawing" => b.strokes[i].fate = fate
            /\ i # j \/ s.strokes[i].fate # "drawing" => b.strokes[i].fate = s.strokes[i].fate
  BY <1>1, FinishIs
<1>3. Deactivate(b) = r
  BY DEF Deactivate
<1>4. Estimates(s) = s.strokes[j].estimates
  BY DEF Estimates
<1> HIDE DEF b
<1>5. r \in AppState /\ r.active = NoActive /\ r.suppressed = b.suppressed /\ r.strokes = b.strokes
  BY <1>2, AppUpdates, NothingIsActive
<1> HIDE DEF r, j
<1>6. Held(r, n)
  <2>1. NoPointer \notin s.suppressed
    BY <1>1, NothingIsActive DEF Held
  <2>. QED
    BY <1>1, <1>2, <1>5, <2>1, NothingIsActive DEF Held
<1>7. \A i \in 1 .. Len(s.strokes) : s.strokes[i].fate = "drawing" <=> i = j
  BY <1>1 DEF Drawn, j
<1>8. Drawn(r, m)
  <2>1. \A i \in 1 .. Len(s.strokes) : r.strokes[i].estimates \subseteq 1 .. (m - 1)
    BY <1>1, <1>2, <1>5 DEF Drawn
  <2>2. \A i \in 1 .. Len(s.strokes) : r.strokes[i].fate # "drawing"
    BY <1>2, <1>5, <1>7
  <2>3. ASSUME OnePen, NEW i \in 1 .. Len(s.strokes), r.strokes[i].fate = "Up"
        PROVE  r.strokes[i].estimates = {}
    <3>1. CASE i = j
      <4>1. fate = "Up"
        BY <1>2, <1>5, <1>7, <2>3, <3>1
      <4>. QED
        BY <1>2, <1>4, <1>5, <2>3, <3>1, <4>1
    <3>2. CASE i # j
      <4>1. s.strokes[i].fate = "Up"
        BY <1>2, <1>5, <2>3, <3>2
      <4>. QED
        BY <1>1, <1>2, <1>5, <2>3, <4>1 DEF Drawn
    <3>. QED
      BY <3>1, <3>2
  <2>. QED
    BY <1>2, <1>5, <2>1, <2>2, <2>3 DEF Drawn
<1>. QED
  BY <1>2, <1>3, <1>5, <1>6, <1>8 DEF AppOK, b

LEMMA MoveFollows ==
    ASSUME NEW n \in Nat, NEW m \in Nat, NEW s, AppOK(s, n, m), NEW e \in StylusEvent, NEW c,
           e.phase = "Move", e.pointer < n
    PROVE  LET r == OnMove(s, e, c) IN AppOK(r, n, m) /\ Follows(s, r, e)
<1> DEFINE p == e.pointer
<1>1. p \in Nat /\ p \in 0 .. (n - 1) /\ \A x : ~Ends(e, x) /\ \A y : ~Settles(e, x, y)
  BY DEF StylusEvent, Ends, Settles
<1>2. CASE p \notin s.suppressed /\ s.active.pointer = p /\ c.claimed
  <2> DEFINE b == Deactivate(FinishStroke(s, s.active.stroke, "discarded"))
             x == b.suppressed \cup {p}
             r == [b EXCEPT !.suppressed = x]
  <2>1. s.active # NoActive
    BY <1>1, <1>2, NothingIsActive
  <2>2. OnMove(s, e, c) = r
    BY <1>2 DEF OnMove, Drives, Suppress
  <2>3. AppOK(b, n, m) /\ b.active = NoActive /\ b.suppressed = s.suppressed
    <3> DEFINE fate == "discarded"
    <3>1. fate \in Fate /\ fate # "drawing" /\ (OnePen /\ fate = "Up" => Estimates(s) = {})
      BY DEF Fate
    <3>2. b = Deactivate(FinishStroke(s, s.active.stroke, fate))
      OBVIOUS
    <3> HIDE DEF fate
    <3>. QED
      BY <2>1, <3>1, <3>2, LetGo
  <2> HIDE DEF b
  <2>4. b \in AppState /\ Held(b, n) /\ Drawn(b, m) /\ b.suppressed \subseteq Nat
    BY <2>3, AppParts DEF AppOK
  <2>5. x \in SUBSET Nat
    BY <1>1, <2>4
  <2> HIDE DEF x
  <2>6. r \in AppState /\ r.active = b.active /\ r.suppressed = x /\ r.strokes = b.strokes
    BY <2>4, <2>5, AppUpdates
  <2> HIDE DEF r
  <2>7. Held(r, n)
    BY <1>1, <2>3, <2>4, <2>6, NothingIsActive DEF Held, x
  <2>8. Drawn(r, m)
    BY <2>4, <2>6 DEF Drawn
  <2>9. Claimed(r) \subseteq Claimed(s) /\ Estimates(r) = {}
    BY <1>1, <1>2, <2>3, <2>6, NothingIsActive DEF Claimed, Estimates, x
  <2>10. Follows(s, r, e)
    BY <1>1, <2>9 DEF Follows
  <2>. QED
    BY <2>2, <2>6, <2>7, <2>8, <2>10 DEF AppOK
<1>3. CASE ~(p \notin s.suppressed /\ s.active.pointer = p /\ c.claimed)
  <2>1. OnMove(s, e, c) = s
    BY <1>3 DEF OnMove, Drives
  <2>. QED
    BY <1>1, <2>1 DEF Follows
<1>. QED
  BY <1>2, <1>3

LEMMA EndFollows ==
    ASSUME NEW n \in Nat, NEW m \in Nat, NEW s, AppOK(s, n, m), NEW e \in StylusEvent,
           e.phase \in {"Up", "Cancel"}, e.pointer < n,
           OnePen => \A u \in Estimates(s) : ~Lifts(e, s.active.pointer)
    PROVE  LET r == OnEnd(s, e) IN AppOK(r, n, m) /\ Follows(s, r, e)
<1> DEFINE p == e.pointer
<1>1. /\ p \in Nat /\ p \in 0 .. (n - 1)
      /\ \A x : x # p => ~Ends(e, x) /\ \A y : ~Settles(e, x, y)
  BY DEF StylusEvent, Ends, Settles
<1>2. s \in AppState /\ Held(s, n) /\ Drawn(s, m) /\ s.suppressed \subseteq Nat
  BY AppParts DEF AppOK
<1>3. CASE p \in s.suppressed
  <2> DEFINE x == s.suppressed \ {p}
             r == [s EXCEPT !.suppressed = x]
  <2>1. OnEnd(s, e) = r
    BY <1>3 DEF OnEnd, Unsuppress
  <2>2. x \in SUBSET Nat
    BY <1>2
  <2> HIDE DEF x
  <2>3. r \in AppState /\ r.active = s.active /\ r.suppressed = x /\ r.strokes = s.strokes
    BY <1>2, <2>2, AppUpdates
  <2> HIDE DEF r
  <2>4. s.active.pointer # p
    BY <1>2, <1>3 DEF Held
  <2>5. Held(r, n) /\ Drawn(r, m)
    BY <1>2, <2>3 DEF Held, Drawn, x
  <2>6. Claimed(r) = Claimed(s) \ {p} /\ Estimates(r) = Estimates(s)
    BY <2>3, <2>4 DEF Claimed, Estimates, x
  <2>7. Follows(s, r, e)
    BY <1>1, <2>3, <2>4, <2>6 DEF Follows
  <2>. QED
    BY <2>1, <2>3, <2>5, <2>7 DEF AppOK
<1>4. CASE p \notin s.suppressed /\ s.active.pointer = p
  <2> DEFINE fate == e.phase
             r == Deactivate(FinishStroke(s, s.active.stroke, fate))
  <2>1. s.active # NoActive
    BY <1>1, <1>4, NothingIsActive
  <2>2. OnEnd(s, e) = r
    BY <1>4 DEF OnEnd, Drives
  <2>3. fate \in Fate /\ fate # "drawing" /\ (OnePen /\ fate = "Up" => Estimates(s) = {})
    BY <1>4 DEF Fate, Lifts
  <2> HIDE DEF fate
  <2>4. AppOK(r, n, m) /\ r.active = NoActive /\ r.suppressed = s.suppressed
    BY <2>1, <2>3, LetGo
  <2> HIDE DEF r
  <2>5. Claimed(r) \subseteq Claimed(s) \ {p} /\ Estimates(r) = {}
    BY <1>4, <2>4, NothingIsActive DEF Claimed, Estimates
  <2>6. Follows(s, r, e)
    BY <1>1, <2>5 DEF Follows
  <2>. QED
    BY <2>2, <2>4, <2>6
<1>5. CASE p \notin s.suppressed /\ s.active.pointer # p
  <2>1. OnEnd(s, e) = s
    BY <1>5 DEF OnEnd, Drives
  <2>2. p \notin Claimed(s)
    BY <1>5 DEF Claimed
  <2>. QED
    BY <1>1, <1>5, <2>1, <2>2 DEF Follows
<1>. QED
  BY <1>3, <1>4, <1>5

LEMMA ReviseFollows ==
    ASSUME NEW n \in Nat, NEW m \in Nat, NEW s, AppOK(s, n, m), NEW e \in StylusEvent,
           e.phase = "Revise", e.pointer < n
    PROVE  LET r == OnRevise(s, e) IN AppOK(r, n, m) /\ Follows(s, r, e)
<1> DEFINE p == e.pointer
           u == e.update
<1>1. /\ p \in Nat /\ p \in 0 .. (n - 1)
      /\ \A x : ~Ends(e, x)
      /\ \A x, y : x # p \/ y # u => ~Settles(e, x, y)
  BY DEF StylusEvent, Ends, Settles
<1>2. CASE s.active.pointer = p
  <2> DEFINE j == s.active.stroke
             r == ReviseSample(s, j, u)
  <2>1. s.active # NoActive
    BY <1>1, <1>2, NothingIsActive
  <2>2. OnRevise(s, e) = r
    BY <1>2 DEF OnRevise, Drives
  <2>3. s \in AppState /\ Held(s, n) /\ Drawn(s, m) /\ j \in 1 .. Len(s.strokes)
    BY <2>1, ActiveIs DEF AppOK
  <2> HIDE DEF j, u
  <2>4. /\ r \in AppState /\ r.active = s.active /\ r.suppressed = s.suppressed
        /\ Len(r.strokes) = Len(s.strokes)
        /\ \A i \in 1 .. Len(s.strokes) :
              /\ r.strokes[i].fate = s.strokes[i].fate
              /\ i = j => r.strokes[i].estimates = s.strokes[i].estimates \ {u}
              /\ i # j => r.strokes[i].estimates = s.strokes[i].estimates
    BY <2>3, ReviseIs
  <2> HIDE DEF r
  <2>5. \A i \in 1 .. Len(s.strokes) : r.strokes[i].estimates \subseteq s.strokes[i].estimates
    BY <2>4
  <2>6. Held(r, n)
    BY <2>3, <2>4 DEF Held
  <2>7. Drawn(r, m)
    <3>1. \A i \in 1 .. Len(s.strokes) : r.strokes[i].estimates \subseteq 1 .. (m - 1)
      BY <2>3, <2>5 DEF Drawn
    <3>2. \A i \in 1 .. Len(s.strokes) :
             r.strokes[i].fate = "drawing" <=> r.active # NoActive /\ r.active.stroke = i
      BY <2>3, <2>4 DEF Drawn
    <3>3. OnePen => \A i \in 1 .. Len(s.strokes) :
                       r.strokes[i].fate = "Up" => r.strokes[i].estimates = {}
      BY <2>3, <2>4, <2>5 DEF Drawn
    <3>. QED
      BY <2>4, <3>1, <3>2, <3>3 DEF Drawn
  <2>8. Claimed(r) = Claimed(s) /\ Estimates(r) = Estimates(s) \ {u}
    BY <2>1, <2>3, <2>4 DEF Claimed, Estimates, j
  <2>9. Follows(s, r, e)
    <3>1. \A y \in Estimates(r) : y # e.update
      BY <2>8 DEF u
    <3>. QED
      BY <1>1, <2>4, <2>8, <3>1 DEF Follows, u
  <2>. QED
    BY <2>2, <2>4, <2>6, <2>7, <2>9 DEF AppOK
<1>3. CASE s.active.pointer # p
  <2>1. OnRevise(s, e) = s
    BY <1>3 DEF OnRevise, Drives
  <2>. QED
    BY <1>1, <1>3, <2>1 DEF Follows
<1>. QED
  BY <1>2, <1>3

(***************************************************************************)
(* The app's state after k events of the queue q: every event of it is of  *)
(* a pointer below n with an update below m.                               *)
(***************************************************************************)
QueueOK(q, n, m) == q \in Queue /\ \A i \in 1 .. Len(q) : q[i].pointer < n /\ q[i].update < m

After(q, T, D, s, n, m, k) ==
    /\ QueueOK(q, n, m) /\ AppOK(s, n, m)
    /\ QueueAhead(q, T, D, k) /\ AppAhead(q, T, D, s, k)

LEMMA EventFollows ==
    ASSUME NEW n \in Nat, NEW m \in Nat, NEW q, NEW T, NEW D, NEW s, NEW c, NEW k \in Nat,
           After(q, T, D, s, n, m, k), k < Len(q)
    PROVE  After(q, T, D, OnStylusEvent(s, q[k + 1], c), n, m, k + 1)
<1> DEFINE e == q[k + 1]
           r == OnStylusEvent(s, e, c)
<1>1. AppOK(s, n, m) /\ QueueOK(q, n, m) /\ QueueAhead(q, T, D, k) /\ AppAhead(q, T, D, s, k)
  BY DEF After
<1>2. q \in Queue /\ Len(q) \in Nat /\ k + 1 \in 1 .. Len(q)
  BY <1>1 DEF QueueOK, Queue
<1>3. e \in StylusEvent /\ e.pointer < n /\ e.update < m
  BY <1>1, <1>2 DEF QueueOK, Queue
<1>4. \A p \in Claimed(s) : ~Starts(e, p)
  BY <1>1, <1>2, NextIsNoStart DEF AppAhead
<1>5. OnePen => \A u \in Estimates(s) : ~Lifts(e, s.active.pointer)
  BY <1>1, <1>2, NextIsNoLift DEF AppAhead
<1>6. e.phase \in {"Down", "Move", "Up", "Cancel", "Revise"}
  BY <1>3 DEF StylusEvent, Phase
<1> HIDE DEF e
<1>7. AppOK(r, n, m) /\ Follows(s, r, e)
  <2>1. CASE e.phase = "Down"
    <3>1. r = OnDown(s, e, c)
      BY <2>1 DEF OnStylusEvent
    <3>2. e.pointer \notin Claimed(s)
      BY <1>4, <2>1 DEF Starts
    <3>. QED
      BY <1>1, <1>3, <2>1, <3>1, <3>2, DownFollows
  <2>2. CASE e.phase = "Move"
    <3>1. r = OnMove(s, e, c)
      BY <2>2 DEF OnStylusEvent
    <3>. QED
      BY <1>1, <1>3, <2>2, <3>1, MoveFollows
  <2>3. CASE e.phase \in {"Up", "Cancel"}
    <3>1. r = OnEnd(s, e)
      BY <2>3 DEF OnStylusEvent
    <3>. QED
      BY <1>1, <1>3, <1>5, <2>3, <3>1, EndFollows
  <2>4. CASE e.phase = "Revise"
    <3>1. r = OnRevise(s, e)
      BY <2>4 DEF OnStylusEvent
    <3>. QED
      BY <1>1, <1>3, <2>4, <3>1, ReviseFollows
  <2>. QED
    BY <1>6, <2>1, <2>2, <2>3, <2>4
<1> HIDE DEF r
<1>8. QueueAhead(q, T, D, k + 1) /\ AppAhead(q, T, D, r, k + 1)
  <2>1. \A p \in Claimed(r) : (p \in Claimed(s) /\ ~Ends(q[k + 1], p)) \/ Starts(q[k + 1], p)
    BY <1>7 DEF Follows, e
  <2>2. \A u \in Estimates(r) :
           \/ /\ u \in Estimates(s) /\ r.active.pointer = s.active.pointer
              /\ ~Settles(q[k + 1], r.active.pointer, u)
           \/ Starts(q[k + 1], r.active.pointer) /\ q[k + 1].update = u /\ u # 0
    BY <1>7 DEF Follows, e
  <2>. QED
    BY <1>1, <1>2, <2>1, <2>2, AheadMovesOn
<1>9. After(q, T, D, r, n, m, k + 1)
  BY <1>1, <1>7, <1>8 DEF After
<1>. QED
  BY <1>9 DEF r, e

(***************************************************************************)
(* The app's loops: FoldLeft folds a step over a queue, or over the        *)
(* touches to cancel. The fold over the first k is the step applied to the *)
(* fold over the ones before it.                                           *)
(***************************************************************************)
LoopStep(c, x, y) == IF c \in Chrome THEN OnStylusEvent(x, y, c) ELSE OnTouch(x, y, "Cancel")

LoopTo(c, base, seq, g, S) ==
    IF S = {} THEN base ELSE LoopStep(c, g[S \ {Max(S)}], seq[Max(S)])

Folded(c, base, seq, n, g) == g = [S \in SUBSET (1 .. n) |-> LoopTo(c, base, seq, g, S)]

LEMMA LeastOfNat ==
    ASSUME NEW T, T \subseteq Nat, T # {}
    PROVE  \E x \in T : \A y \in T : x <= y
<1> DEFINE Less == {p \in Nat \X Nat : p[1] < p[2]}
<1>1. OpToRel(<, Nat) = Less
  BY Zenon DEF OpToRel
<1>2. PICK x \in T : \A y \in T : ~(<<y, x>> \in Less)
  BY <1>1, NatLessThanWellFounded, WFMin, Zenon
<1>3. \A y \in T : x <= y
  <2>1. SUFFICES ASSUME NEW y \in T, y < x PROVE FALSE
    BY SMT
  <2>2. <<y, x>> \in Less
    BY <2>1
  <2>. QED
    BY <1>2, <2>2
<1>. QED
  BY <1>3

LEMMA LastOf ==
    ASSUME NEW n \in Nat \ {0}, NEW S \in SUBSET (1 .. n), n \in S
    PROVE  Max(S) = n
<1>1. \A y \in S : n >= y
  OBVIOUS
<1>2. \A x \in S : (\A y \in S : x >= y) => x = n
  OBVIOUS
<1>3. Max(S) \in S /\ \A y \in S : Max(S) >= y
  BY <1>1 DEF Max
<1>. QED
  BY <1>2, <1>3

LEMMA FoldExists ==
    ASSUME NEW c, NEW base, NEW seq, NEW n \in Nat
    PROVE  \E g : Folded(c, base, seq, n, g)
<1> DEFINE T == {k \in Nat : ~ \E g : Folded(c, base, seq, k, g)}
<1>1. SUFFICES ASSUME T # {} PROVE FALSE
  BY <1>1
<1>2. PICK m \in T : \A y \in T : m <= y
  <2>1. T \subseteq Nat
    OBVIOUS
  <2> HIDE DEF T
  <2>. QED
    BY <1>1, <2>1, LeastOfNat
<1>3. m \in Nat /\ ~ \E g : Folded(c, base, seq, m, g)
  OBVIOUS
<1>4. \A k \in Nat : k < m => \E g : Folded(c, base, seq, k, g)
  BY <1>2
<1> HIDE DEF T
<1>5. CASE m = 0
  <2> DEFINE f == [S \in SUBSET (1 .. m) |-> base]
             h == [S \in SUBSET (1 .. m) |-> LoopTo(c, base, seq, f, S)]
  <2>1. 1 .. m = {}
    BY <1>5
  <2>2. ASSUME NEW S \in SUBSET (1 .. m) PROVE LoopTo(c, base, seq, f, S) = base
    BY <2>1, <2>2 DEF LoopTo
  <2>3. f = h
    BY <2>2
  <2>. QED
    BY <1>3, <2>3 DEF Folded
<1>6. CASE m # 0
  <2>1. m - 1 \in Nat /\ m - 1 < m /\ m \in Nat \ {0}
    BY <1>3, <1>6
  <2>2. PICK g : Folded(c, base, seq, m - 1, g)
    BY <1>4, <2>1
  <2> DEFINE top(S) == LoopStep(c, g[S \ {m}], seq[m])
             f == [S \in SUBSET (1 .. m) |-> IF m \in S THEN top(S) ELSE g[S]]
             to(S) == LoopTo(c, base, seq, f, S)
  <2>3. \A S \in SUBSET (1 .. (m - 1)) : g[S] = LoopTo(c, base, seq, g, S)
    BY <2>2, Zenon DEF Folded
  <2>4. \A S \in SUBSET (1 .. m) :
           /\ S \ {m} \in SUBSET (1 .. m) /\ m \notin S \ {m}
           /\ m \notin S => S \in SUBSET (1 .. (m - 1))
    BY <2>1
  <2>5. ASSUME NEW S \in SUBSET (1 .. m), m \in S PROVE to(S) = top(S)
    <3>1. Max(S) = m /\ S # {}
      BY <2>1, <2>5, LastOf
    <3>2. f[S \ {m}] = g[S \ {m}]
      BY <2>4
    <3> HIDE DEF f
    <3>. QED
      BY <3>1, <3>2 DEF LoopTo
  <2>6. ASSUME NEW S \in SUBSET (1 .. m), m \notin S PROVE to(S) = g[S]
    <3>1. g[S] = LoopTo(c, base, seq, g, S)
      BY <2>3, <2>4, <2>6
    <3>2. S \ {Max(S)} \in SUBSET (1 .. m) /\ m \notin S \ {Max(S)}
      BY <2>6
    <3>3. f[S \ {Max(S)}] = g[S \ {Max(S)}]
      BY <3>2
    <3> HIDE DEF f
    <3>. QED
      BY <3>1, <3>3 DEF LoopTo
  <2> HIDE DEF top
  <2>7. \A S \in SUBSET (1 .. m) : f[S] = IF m \in S THEN top(S) ELSE g[S]
    OBVIOUS
  <2>8. f = [S \in SUBSET (1 .. m) |-> f[S]]
    OBVIOUS
  <2> HIDE DEF to
  <2>9. \A S \in SUBSET (1 .. m) : f[S] = to(S)
    <3> HIDE DEF f
    <3>. QED
      BY <2>5, <2>6, <2>7
  <2> HIDE DEF f
  <2>10. f = [S \in SUBSET (1 .. m) |-> to(S)]
    BY <2>8, <2>9
  <2>11. Folded(c, base, seq, m, f)
    BY <2>10 DEF Folded, to
  <2>. QED
    BY <1>3, <2>11
<1>. QED
  BY <1>5, <1>6

LEMMA FoldSteps ==
    ASSUME NEW c, NEW base, NEW seq, NEW n \in Nat, NEW g, Folded(c, base, seq, n, g)
    PROVE  /\ g[1 .. 0] = base
           /\ \A k \in 0 .. (n - 1) : g[1 .. (k + 1)] = LoopStep(c, g[1 .. k], seq[k + 1])
<1>1. \A S \in SUBSET (1 .. n) : g[S] = LoopTo(c, base, seq, g, S)
  BY Zenon DEF Folded
<1>2. g[1 .. 0] = base
  <2>1. 1 .. 0 = {} /\ {} \in SUBSET (1 .. n)
    OBVIOUS
  <2>. QED
    BY <1>1, <2>1 DEF LoopTo
<1>3. ASSUME NEW k \in 0 .. (n - 1)
      PROVE  g[1 .. (k + 1)] = LoopStep(c, g[1 .. k], seq[k + 1])
  <2> DEFINE S == 1 .. (k + 1)
  <2>1. /\ S \in SUBSET (1 .. n) /\ S # {} /\ k + 1 \in Nat \ {0} /\ k + 1 \in S
        /\ S \in SUBSET (1 .. (k + 1)) /\ S \ {k + 1} = 1 .. k
    OBVIOUS
  <2> HIDE DEF S
  <2>2. Max(S) = k + 1
    BY <2>1, LastOf
  <2>3. g[S] = LoopStep(c, g[S \ {k + 1}], seq[k + 1])
    BY <1>1, <2>1, <2>2 DEF LoopTo
  <2>. QED
    BY <2>1, <2>3 DEF S
<1>. QED
  BY <1>2, <1>3

\* route_input's loop.
LEMMA QueueLoop ==
    ASSUME NEW seq \in Queue, NEW c \in Chrome, NEW base
    PROVE  \E g : /\ Folded(c, base, seq, Len(seq), g)
                  /\ FoldLeft(LAMBDA s, e : OnStylusEvent(s, e, c), base, seq) = g[1 .. Len(seq)]
<1> DEFINE v == FoldLeft(LAMBDA s, e : OnStylusEvent(s, e, c), base, seq)
           S == DOMAIN seq
           step(s, e) == OnStylusEvent(s, e, c)
           next(g, s) == IF s = {} THEN base ELSE LET i == Max(s) IN step(g[s \ {i}], seq[i])
           folded(g) == g = [s \in SUBSET S |-> next(g, s)]
           r == CHOOSE g : folded(g)
<1>1. v = r[S]
  BY Zenon DEF FoldLeft, MapThenFoldSet
<1>2. S = 1 .. Len(seq) /\ Len(seq) \in Nat
  BY DEF Queue
<1>3. \A x, y : LoopStep(c, x, y) = step(x, y)
  BY DEF LoopStep
<1> HIDE DEF step, v, S
<1>4. \A g, s : LoopTo(c, base, seq, g, s) = next(g, s)
  BY <1>3 DEF LoopTo
<1>5. \A g : folded(g) => Folded(c, base, seq, Len(seq), g)
  <2> HIDE DEF next
  <2>. QED
    BY <1>2, <1>4 DEF Folded
<1>6. \A g : Folded(c, base, seq, Len(seq), g) => folded(g)
  <2> HIDE DEF next
  <2>. QED
    BY <1>2, <1>4 DEF Folded
<1>7. \E g : folded(g)
  BY <1>2, <1>6, FoldExists
<1> HIDE DEF folded
<1>8. folded(r)
  BY <1>7
<1> HIDE DEF r
<1>9. Folded(c, base, seq, Len(seq), r) /\ v = r[1 .. Len(seq)]
  BY <1>1, <1>2, <1>5, <1>8
<1>. QED
  BY <1>9 DEF v

\* Once the queue is handled, the app is in order for an empty one.
LEMMA QueueIsHandled ==
    ASSUME NEW n \in Nat, NEW m \in Nat, NEW q, NEW T, NEW D, NEW s, NEW c \in Chrome,
           After(q, T, D, s, n, m, 0)
    PROVE  After(q, T, D, FoldLeft(LAMBDA x, e : OnStylusEvent(x, e, c), s, q), n, m, Len(q))
<1> DEFINE v == FoldLeft(LAMBDA x, e : OnStylusEvent(x, e, c), s, q)
<1>1. q \in Queue /\ Len(q) \in Nat
  BY DEF After, QueueOK, Queue
<1>2. PICK g : Folded(c, s, q, Len(q), g) /\ v = g[1 .. Len(q)]
  BY <1>1, QueueLoop
<1> HIDE DEF v
<1>3. /\ g[1 .. 0] = s
      /\ \A k \in 0 .. (Len(q) - 1) : g[1 .. (k + 1)] = OnStylusEvent(g[1 .. k], q[k + 1], c)
  BY <1>1, <1>2, FoldSteps DEF LoopStep
<1> DEFINE at(k) == g[1 .. k]
           T0 == {k \in 0 .. Len(q) : ~After(q, T, D, at(k), n, m, k)}
<1>4. at(0) = s /\ \A k \in 0 .. (Len(q) - 1) : at(k + 1) = OnStylusEvent(at(k), q[k + 1], c)
  BY <1>3
<1>5. v = at(Len(q))
  BY <1>2
<1> HIDE DEF at
<1>6. T0 = {}
  <2>1. SUFFICES ASSUME T0 # {} PROVE FALSE
    OBVIOUS
  <2>2. PICK k \in T0 : \A y \in T0 : k <= y
    <3>1. T0 \subseteq Nat
      BY <1>1
    <3> HIDE DEF T0
    <3>. QED
      BY <2>1, <3>1, LeastOfNat
  <2>3. k \in 0 .. Len(q) /\ ~After(q, T, D, at(k), n, m, k)
    OBVIOUS
  <2>4. k # 0
    BY <1>4, <2>3
  <2>5. k - 1 \in 0 .. Len(q) /\ k - 1 \in Nat /\ k - 1 \in 0 .. (Len(q) - 1) /\ k - 1 < Len(q) /\ (k - 1) + 1 = k
    BY <1>1, <2>3, <2>4
  <2>6. After(q, T, D, at(k - 1), n, m, k - 1)
    BY <2>2, <2>5
  <2>7. After(q, T, D, OnStylusEvent(at(k - 1), q[(k - 1) + 1], c), n, m, (k - 1) + 1)
    BY <2>5, <2>6, EventFollows
  <2>. QED
    BY <1>4, <2>3, <2>5, <2>7
<1>7. After(q, T, D, v, n, m, Len(q))
  BY <1>1, <1>5, <1>6
<1>. QED
  BY <1>7 DEF v

\* What holds behind the whole queue holds for an empty one.
LEMMA EmptyQueue ==
    ASSUME NEW n \in Nat, NEW m \in Nat, NEW q, NEW T, NEW D, NEW s, After(q, T, D, s, n, m, Len(q))
    PROVE  After(<< >>, T, D, s, n, m, 0)
<1> DEFINE e == << >>
<1>1. e \in Queue /\ Len(e) = 0 /\ Len(q) \in Nat
  BY DEF After, QueueOK, Queue
<1> HIDE DEF e
<1>2. (Len(q) + 1) .. Len(q) = {} /\ (0 + 1) .. Len(e) = {}
  BY <1>1
<1>3. \A p : InProgress(q, T, p, Len(q)) => InProgress(e, T, p, 0)
  BY <1>2 DEF InProgress, Reopens, Ending
<1>4. \A p, u : Revised(q, D, p, u, Len(q)) => Revised(e, D, p, u, 0)
  BY <1>2 DEF Revised
<1>5. QueueAhead(e, T, D, 0) /\ QueueOK(e, n, m)
  BY <1>1, <1>2 DEF QueueAhead, QueueOK
<1>6. AppAhead(e, T, D, s, 0)
  BY <1>3, <1>4 DEF After, AppAhead
<1>7. After(e, T, D, s, n, m, 0)
  BY <1>5, <1>6 DEF After
<1>. QED
  BY <1>7 DEF e

(***************************************************************************)
(* The adapter's handlers act while the whole queue is ahead (k is 0).     *)
(***************************************************************************)
LEMMA AfterGrows ==
    ASSUME NEW n \in Nat, NEW m \in Nat, NEW n1 \in Nat, NEW m1 \in Nat, n <= n1, m <= m1,
           NEW q, NEW r, NEW T, NEW U, NEW D, NEW E, NEW s,
           After(q, T, D, s, n, m, 0), Extends(q, r),
           \A p \in 0 .. (n - 1) :
              FitsGesture(q, r, T, U, p) /\ (OnePen => FitsEstimates(q, r, D, E, p)),
           \A i \in Added(q, r) :
              /\ r[i].pointer < n1 /\ r[i].update < m1
              /\ r[i].phase = "Down" =>
                    /\ i = Len(r)
                    /\ r[i].pointer \in U
                    /\ r[i].update # 0 => Pending(r[i].pointer, r[i].update) \in E
    PROVE  After(r, U, E, s, n1, m1, 0)
<1>1. QueueOK(q, n, m) /\ AppOK(s, n, m) /\ QueueAhead(q, T, D, 0) /\ AppAhead(q, T, D, s, 0)
  BY DEF After
<1>2. QueueAhead(r, U, E, 0) /\ AppAhead(r, U, E, s, 0)
  <2>1. Claimed(s) \subseteq 0 .. (n - 1) /\ Estimates(s) \subseteq Nat
    BY <1>1, ActiveIs
  <2>2. Estimates(s) # {} => s.active.pointer \in 0 .. (n - 1)
    BY <1>1, ActiveIs
  <2>3. \A i \in 1 .. Len(q) : q[i].pointer < n
    BY <1>1 DEF QueueOK
  <2>. QED
    BY <1>1, <2>1, <2>2, <2>3, AheadGrows
<1>3. AppOK(s, n1, m1)
  <2>1. 0 .. (n - 1) \subseteq 0 .. (n1 - 1) /\ 1 .. (m - 1) \subseteq 1 .. (m1 - 1)
    OBVIOUS
  <2>2. Held(s, n1)
    BY <1>1, <2>1 DEF AppOK, Held
  <2>3. Drawn(s, m1)
    BY <1>1, <2>1 DEF AppOK, Drawn
  <2>. QED
    BY <1>1, <2>2, <2>3 DEF AppOK
<1>4. QueueOK(r, n1, m1)
  <2>1. r \in Queue /\ q \in Queue /\ Len(q) \in Nat /\ Len(r) \in Nat /\ \A i \in 1 .. Len(q) : r[i] = q[i]
    BY DEF Extends, Queue
  <2>2. ASSUME NEW i \in 1 .. Len(r) PROVE r[i].pointer < n1 /\ r[i].update < m1
    <3>1. CASE i \in 1 .. Len(q)
      <4>1. r[i] = q[i] /\ q[i].pointer < n /\ q[i].update < m /\ q[i] \in StylusEvent
        BY <1>1, <2>1, <3>1 DEF QueueOK, Queue
      <4>2. q[i].pointer \in Nat /\ q[i].update \in Nat
        BY <4>1 DEF StylusEvent
      <4>. QED
        BY <4>1, <4>2
    <3>2. CASE i \notin 1 .. Len(q)
      BY <2>1, <3>2 DEF Added
    <3>. QED
      BY <3>1, <3>2
  <2>. QED
    BY <2>1, <2>2 DEF QueueOK
<1>. QED
  BY <1>2, <1>3, <1>4 DEF After

\* One event more.
LEMMA AfterAppend ==
    ASSUME NEW n \in Nat, NEW m \in Nat, NEW n1 \in Nat, NEW m1 \in Nat, n <= n1, m <= m1,
           NEW q, NEW T, NEW U, NEW D, NEW E, NEW s, NEW e \in StylusEvent,
           After(q, T, D, s, n, m, 0),
           e.pointer < n1, e.update < m1,
           \A p \in 0 .. (n - 1) :
              /\ Kept(p) /\ p \in T => p \in U \/ Ends(e, p)
              /\ Starts(e, p) => Kept(p) /\ p \notin T
              /\ OnePen => \A u \in Nat : Pending(p, u) \in D =>
                              (Pending(p, u) \in E \/ Settles(e, p, u)) /\ ~Lifts(e, p),
           e.phase = "Down" => /\ e.pointer \in U
                               /\ e.update # 0 => Pending(e.pointer, e.update) \in E
    PROVE  After(Append(q, e), U, E, s, n1, m1, 0)
<1> DEFINE r == Append(q, e)
<1>1. q \in Queue /\ Len(q) \in Nat
  BY DEF After, QueueOK, Queue
<1>2. /\ r \in Queue /\ Len(r) = Len(q) + 1 /\ r[Len(q) + 1] = e
      /\ \A i \in 1 .. Len(q) : r[i] = q[i]
  BY <1>1 DEF Queue
<1> HIDE DEF r
<1>3. Extends(q, r) /\ \A i \in Added(q, r) : i = Len(r) /\ r[i] = e
  BY <1>1, <1>2 DEF Extends, Added
<1>4. Len(q) + 1 \in Added(q, r)
  BY <1>1, <1>2 DEF Added
<1>5. ASSUME NEW p \in 0 .. (n - 1) PROVE FitsGesture(q, r, T, U, p)
  <2>1. Kept(p) /\ p \in T => p \in U \/ \E j \in Added(q, r) : Ends(r[j], p)
    BY <1>2, <1>4
  <2>2. \A i \in Added(q, r) : Starts(r[i], p) => Kept(p) /\ p \notin T
    BY <1>3
  <2>. QED
    BY <2>1, <2>2 DEF FitsGesture
<1>6. ASSUME OnePen, NEW p \in 0 .. (n - 1) PROVE FitsEstimates(q, r, D, E, p)
  <2>1. ASSUME NEW u \in Nat, Pending(p, u) \in D
        PROVE  /\ Pending(p, u) \in E \/ \E j \in Added(q, r) : Settles(r[j], p, u)
               /\ \A i \in Added(q, r) : ~Lifts(r[i], p)
    <3>1. (Pending(p, u) \in E \/ Settles(e, p, u)) /\ ~Lifts(e, p)
      BY <1>6, <2>1
    <3>. QED
      BY <1>2, <1>3, <1>4, <3>1
  <2>. QED
    BY <2>1 DEF FitsEstimates
<1>7. \A i \in Added(q, r) :
         /\ r[i].pointer < n1 /\ r[i].update < m1
         /\ r[i].phase = "Down" =>
               /\ i = Len(r)
               /\ r[i].pointer \in U
               /\ r[i].update # 0 => Pending(r[i].pointer, r[i].update) \in E
  BY <1>3
<1>8. After(r, U, E, s, n1, m1, 0)
  BY <1>3, <1>5, <1>6, <1>7, AfterGrows
<1>. QED
  BY <1>8 DEF r

\* No event more: what is tracked stays so, what is pending too.
LEMMA AfterSame ==
    ASSUME NEW n \in Nat, NEW m \in Nat, NEW q, NEW T, NEW U, NEW D, NEW E, NEW s,
           After(q, T, D, s, n, m, 0),
           \A p \in 0 .. (n - 1) : p \in T => p \in U,
           OnePen => D \subseteq E
    PROVE  After(q, U, E, s, n, m, 0)
<1>1. q \in Queue /\ Len(q) \in Nat
  BY DEF After, QueueOK, Queue
<1>2. Extends(q, q) /\ Added(q, q) = {}
  BY <1>1 DEF Extends, Added
<1>3. \A p \in 0 .. (n - 1) : FitsGesture(q, q, T, U, p) /\ (OnePen => FitsEstimates(q, q, D, E, p))
  BY <1>2 DEF FitsGesture, FitsEstimates
<1>4. \A i \in Added(q, q) :
         /\ q[i].pointer < n /\ q[i].update < m
         /\ q[i].phase = "Down" =>
               /\ i = Len(q)
               /\ q[i].pointer \in U
               /\ q[i].update # 0 => Pending(q[i].pointer, q[i].update) \in E
  BY <1>2
<1>5. n <= n /\ m <= m
  OBVIOUS
<1>. QED
  BY <1>2, <1>3, <1>4, <1>5, AfterGrows

(***************************************************************************)
(* The adapter.                                                            *)
(***************************************************************************)
Estimate == [update : Nat, pointer : Nat]

AdapterState ==
    [queue       : Queue,
     mouseDown   : BOOLEAN,
     touches     : [Fingers -> Int],
     pens        : [Pens -> Int],
     activePen   : Int,
     pending     : SUBSET Estimate,
     nextPointer : Nat,
     nextUpdate  : Nat]

Fields(r, queue, mouseDown, touches, pens, activePen, pending, nextPointer, nextUpdate) ==
    /\ r \in AdapterState
    /\ r.queue = queue /\ r.mouseDown = mouseDown /\ r.touches = touches /\ r.pens = pens
    /\ r.activePen = activePen /\ r.pending = pending
    /\ r.nextPointer = nextPointer /\ r.nextUpdate = nextUpdate

LEMMA AdapterParts ==
    ASSUME NEW a \in AdapterState
    PROVE  /\ a.queue \in Queue /\ Len(a.queue) \in Nat
           /\ a.mouseDown \in BOOLEAN
           /\ a.touches \in [Fingers -> Int] /\ \A f \in Fingers : a.touches[f] \in Int
           /\ a.pens \in [Pens -> Int] /\ \A p \in Pens : a.pens[p] \in Int
           /\ a.activePen \in Int
           /\ a.pending \subseteq Estimate
           /\ a.nextPointer \in Nat /\ a.nextUpdate \in Nat
<1>1. a.queue \in Queue
  BY DEF AdapterState
<1>2. Len(a.queue) \in Nat
  BY <1>1 DEF Queue
<1>. QED
  BY <1>1, <1>2 DEF AdapterState

LEMMA AdapterUpdates ==
    ASSUME NEW a \in AdapterState
    PROVE  /\ \A x \in Queue :
                 Fields([a EXCEPT !.queue = x], x, a.mouseDown, a.touches, a.pens, a.activePen,
                        a.pending, a.nextPointer, a.nextUpdate)
           /\ \A x \in BOOLEAN :
                 Fields([a EXCEPT !.mouseDown = x], a.queue, x, a.touches, a.pens, a.activePen,
                        a.pending, a.nextPointer, a.nextUpdate)
           /\ \A x \in [Fingers -> Int] :
                 Fields([a EXCEPT !.touches = x], a.queue, a.mouseDown, x, a.pens, a.activePen,
                        a.pending, a.nextPointer, a.nextUpdate)
           /\ \A x \in [Pens -> Int] :
                 Fields([a EXCEPT !.pens = x], a.queue, a.mouseDown, a.touches, x, a.activePen,
                        a.pending, a.nextPointer, a.nextUpdate)
           /\ \A x \in Int :
                 Fields([a EXCEPT !.activePen = x], a.queue, a.mouseDown, a.touches, a.pens, x,
                        a.pending, a.nextPointer, a.nextUpdate)
           /\ \A x \in SUBSET Estimate :
                 Fields([a EXCEPT !.pending = x], a.queue, a.mouseDown, a.touches, a.pens, a.activePen,
                        x, a.nextPointer, a.nextUpdate)
           /\ \A x \in Nat :
                 Fields([a EXCEPT !.nextPointer = x], a.queue, a.mouseDown, a.touches, a.pens, a.activePen,
                        a.pending, x, a.nextUpdate)
           /\ \A x \in Nat :
                 Fields([a EXCEPT !.nextUpdate = x], a.queue, a.mouseDown, a.touches, a.pens, a.activePen,
                        a.pending, a.nextPointer, x)
<1> DEFINE TT == [Fingers -> Int]
           PP == [Pens -> Int]
           DD == SUBSET Estimate
<1>1. a \in [queue : Queue, mouseDown : BOOLEAN, touches : TT, pens : PP, activePen : Int,
             pending : DD, nextPointer : Nat, nextUpdate : Nat]
  BY DEF AdapterState
<1>2. AdapterState = [queue : Queue, mouseDown : BOOLEAN, touches : TT, pens : PP, activePen : Int,
                      pending : DD, nextPointer : Nat, nextUpdate : Nat]
  BY DEF AdapterState
<1> HIDE DEF TT, PP, DD
<1>3. /\ \A x \in Queue :
            Fields([a EXCEPT !.queue = x], x, a.mouseDown, a.touches, a.pens, a.activePen,
                   a.pending, a.nextPointer, a.nextUpdate)
      /\ \A x \in BOOLEAN :
            Fields([a EXCEPT !.mouseDown = x], a.queue, x, a.touches, a.pens, a.activePen,
                   a.pending, a.nextPointer, a.nextUpdate)
  BY <1>1, <1>2 DEF Fields
<1>4. /\ \A x \in TT :
            Fields([a EXCEPT !.touches = x], a.queue, a.mouseDown, x, a.pens, a.activePen,
                   a.pending, a.nextPointer, a.nextUpdate)
      /\ \A x \in PP :
            Fields([a EXCEPT !.pens = x], a.queue, a.mouseDown, a.touches, x, a.activePen,
                   a.pending, a.nextPointer, a.nextUpdate)
  BY <1>1, <1>2 DEF Fields
<1>5. /\ \A x \in Int :
            Fields([a EXCEPT !.activePen = x], a.queue, a.mouseDown, a.touches, a.pens, x,
                   a.pending, a.nextPointer, a.nextUpdate)
      /\ \A x \in DD :
            Fields([a EXCEPT !.pending = x], a.queue, a.mouseDown, a.touches, a.pens, a.activePen,
                   x, a.nextPointer, a.nextUpdate)
  BY <1>1, <1>2 DEF Fields
<1>6. /\ \A x \in Nat :
            Fields([a EXCEPT !.nextPointer = x], a.queue, a.mouseDown, a.touches, a.pens, a.activePen,
                   a.pending, x, a.nextUpdate)
      /\ \A x \in Nat :
            Fields([a EXCEPT !.nextUpdate = x], a.queue, a.mouseDown, a.touches, a.pens, a.activePen,
                   a.pending, a.nextPointer, x)
  BY <1>1, <1>2 DEF Fields
<1>. QED
  BY <1>3, <1>4, <1>5, <1>6 DEF TT, PP, DD

(***************************************************************************)
(* The invariant, with s the app's state and held what the user holds.     *)
(***************************************************************************)
\* TrackedPointers, of any adapter.
Tracked(a) ==
    {a.touches[f] : f \in Fingers} \cup {a.pens[p] : p \in Pens}
        \cup IF a.mouseDown THEN {Mouse} ELSE {}

Touching(a) == {f \in Fingers : a.touches[f] # NoPointer}

\* The pointers in use were minted. A finger's pointer has no estimates.
Slots(a) ==
    /\ \A f \in Fingers : a.touches[f] = NoPointer \/ a.touches[f] \in 1 .. (a.nextPointer - 1)
    /\ \A p \in Pens : a.pens[p] = NoPointer \/ a.pens[p] \in 1 .. (a.nextPointer - 1)
    /\ a.activePen # NoPointer => \E p \in Pens : a.pens[p] = a.activePen
    /\ \A e \in a.pending : /\ e.update \in 1 .. (a.nextUpdate - 1)
                            /\ e.pointer \in 1 .. (a.nextPointer - 1)
                            /\ \A f \in Fingers : a.touches[f] # e.pointer
    /\ IsFiniteSet(a.pending) /\ IsFiniteSet(Touching(a))

\* Whatever has a pointer is held; the only pen's is the one that draws, and
\* the only one with estimates.
InHand(a, held) ==
    /\ \A f \in Fingers : a.touches[f] # NoPointer => f \in held
    /\ OnePen => \A p \in Pens : a.pens[p] # NoPointer => p \in held /\ a.activePen = a.pens[p]
    /\ OnePen => \A e \in a.pending : \E p \in Pens : a.pens[p] = e.pointer

Whole(a, s, held) ==
    /\ a \in AdapterState /\ a.nextPointer >= 1 /\ a.nextUpdate >= 1
    /\ Slots(a) /\ InHand(a, held)
    /\ After(a.queue, Tracked(a), a.pending, s, a.nextPointer, a.nextUpdate, 0)

LEMMA TrackedIs ==
    ASSUME NEW a, Slots(a), a.nextPointer \in Nat
    PROVE  /\ Mouse \in Tracked(a) <=> a.mouseDown
           /\ \A f \in Fingers : a.touches[f] \in Tracked(a)
           /\ \A p \in Pens : a.pens[p] \in Tracked(a)
<1>1. \A f \in Fingers : a.touches[f] # Mouse
  BY DEF Slots, Mouse, NoPointer
<1>2. \A p \in Pens : a.pens[p] # Mouse
  BY DEF Slots, Mouse, NoPointer
<1>. QED
  BY <1>1, <1>2 DEF Tracked

Event(phase, pointer, update) == [phase |-> phase, pointer |-> pointer, update |-> update]

LEMMA EventIs ==
    ASSUME NEW phase \in {"Down", "Move", "Up", "Cancel", "Revise"}, NEW p \in Nat, NEW u \in Nat
    PROVE  LET e == Event(phase, p, u)
           IN  e \in StylusEvent /\ e.phase = phase /\ e.pointer = p /\ e.update = u
BY DEF Event, StylusEvent, Phase

LEMMA EmitIs ==
    ASSUME NEW a \in AdapterState, NEW phase \in {"Down", "Move", "Up", "Cancel"}, NEW p \in Nat
    PROVE  /\ Append(a.queue, Event(phase, p, 0)) \in Queue
           /\ Fields(Emit(a, phase, p), Append(a.queue, Event(phase, p, 0)), a.mouseDown, a.touches,
                     a.pens, a.activePen, a.pending, a.nextPointer, a.nextUpdate)
<1> DEFINE x == Append(a.queue, Event(phase, p, 0))
<1>1. Emit(a, phase, p) = [a EXCEPT !.queue = x]
  BY DEF Emit, Event
<1>2. x \in Queue
  BY AdapterParts, EventIs DEF Queue
<1> HIDE DEF x
<1>3. Fields([a EXCEPT !.queue = x], x, a.mouseDown, a.touches, a.pens, a.activePen,
             a.pending, a.nextPointer, a.nextUpdate)
  BY <1>2, AdapterUpdates
<1>4. Fields(Emit(a, phase, p), x, a.mouseDown, a.touches, a.pens, a.activePen,
             a.pending, a.nextPointer, a.nextUpdate)
  BY <1>1, <1>3
<1>. QED
  BY <1>2, <1>4 DEF x

\* An adapter that differs in the queue, or whose mouse went down or up.
LEMMA SlotsStay ==
    ASSUME NEW a, NEW b, Slots(a), b.touches = a.touches, b.pens = a.pens, b.activePen = a.activePen,
           b.pending = a.pending, b.nextPointer = a.nextPointer, b.nextUpdate = a.nextUpdate
    PROVE  /\ Slots(b) /\ \A held : InHand(a, held) => InHand(b, held)
           /\ \A p : p # Mouse => (p \in Tracked(a) <=> p \in Tracked(b))
<1>1. Touching(b) = Touching(a)
  BY DEF Touching
<1>2. Slots(b)
  BY <1>1 DEF Slots
<1>3. \A held : InHand(a, held) => InHand(b, held)
  BY DEF InHand
<1>4. \A p : p # Mouse => (p \in Tracked(a) <=> p \in Tracked(b))
  BY DEF Tracked
<1>. QED
  BY <1>2, <1>3, <1>4

\* A Move, of whatever is tracked.
LEMMA MoveKeeps ==
    ASSUME NEW a, NEW s, NEW held, Whole(a, s, held), NEW p \in Nat, p < a.nextPointer
    PROVE  LET b == Emit(a, "Move", p)
           IN  /\ Whole(b, s, held)
               /\ Fields(b, Append(a.queue, Event("Move", p, 0)), a.mouseDown, a.touches, a.pens,
                         a.activePen, a.pending, a.nextPointer, a.nextUpdate)
<1> DEFINE move == "Move"
           e == Event(move, p, 0)
           x == Append(a.queue, e)
           b == Emit(a, move, p)
<1>1. /\ a \in AdapterState /\ a.nextPointer >= 1 /\ a.nextUpdate >= 1 /\ Slots(a) /\ InHand(a, held)
      /\ a.nextPointer \in Nat /\ a.nextUpdate \in Nat
      /\ After(a.queue, Tracked(a), a.pending, s, a.nextPointer, a.nextUpdate, 0)
  BY AdapterParts DEF Whole
<1>2. move \in {"Down", "Move", "Up", "Cancel"} /\ move \in {"Down", "Move", "Up", "Cancel", "Revise"}
  OBVIOUS
<1>3. e \in StylusEvent /\ e.phase = "Move" /\ e.pointer = p /\ e.update = 0
  BY EventIs
<1> HIDE DEF move
<1>4. Fields(b, x, a.mouseDown, a.touches, a.pens, a.activePen, a.pending, a.nextPointer, a.nextUpdate)
  BY <1>1, <1>2, EmitIs
<1> HIDE DEF b, e
<1>5. /\ b \in AdapterState /\ b.queue = x /\ b.mouseDown = a.mouseDown
      /\ b.touches = a.touches /\ b.pens = a.pens /\ b.activePen = a.activePen
      /\ b.pending = a.pending /\ b.nextPointer = a.nextPointer /\ b.nextUpdate = a.nextUpdate
  BY <1>4 DEF Fields
<1>6. Slots(b) /\ InHand(b, held)
  BY <1>1, <1>5, SlotsStay
<1>7. Tracked(b) = Tracked(a)
  BY <1>5 DEF Tracked
<1>8. \A y : ~Starts(e, y) /\ ~Lifts(e, y)
  BY <1>3 DEF Starts, Lifts
<1>9. After(x, Tracked(a), a.pending, s, a.nextPointer, a.nextUpdate, 0)
  <2> DEFINE T == Tracked(a)
             D == a.pending
  <2>1. \A y \in 0 .. (a.nextPointer - 1) :
           /\ Kept(y) /\ y \in T => y \in T \/ Ends(e, y)
           /\ Starts(e, y) => Kept(y) /\ y \notin T
           /\ OnePen => \A u \in Nat : Pending(y, u) \in D =>
                           (Pending(y, u) \in D \/ Settles(e, y, u)) /\ ~Lifts(e, y)
    BY <1>8
  <2>2. /\ e.phase # "Down" /\ e.pointer < a.nextPointer /\ e.update < a.nextUpdate
        /\ a.nextPointer <= a.nextPointer /\ a.nextUpdate <= a.nextUpdate
    BY <1>1, <1>3
  <2> HIDE DEF T, D
  <2>3. After(a.queue, T, D, s, a.nextPointer, a.nextUpdate, 0)
    BY <1>1 DEF T, D
  <2>4. After(x, T, D, s, a.nextPointer, a.nextUpdate, 0)
    BY <1>1, <1>3, <2>1, <2>2, <2>3, AfterAppend
  <2>. QED
    BY <2>4 DEF T, D
<1>10. Whole(b, s, held)
  BY <1>1, <1>5, <1>6, <1>7, <1>9 DEF Whole
<1>. QED
  BY <1>4, <1>10 DEF b, e, move

\* A handler that adds an event: its slots, and that the event fits.
LEMMA WholeAppend ==
    ASSUME NEW a, NEW b, NEW s, NEW held, NEW held2, NEW e \in StylusEvent,
           Whole(a, s, held), b \in AdapterState, b.queue = Append(a.queue, e),
           a.nextPointer <= b.nextPointer, a.nextUpdate <= b.nextUpdate,
           Slots(b), InHand(b, held2), e.pointer < b.nextPointer, e.update < b.nextUpdate,
           \A p \in 0 .. (a.nextPointer - 1) :
              /\ Kept(p) /\ p \in Tracked(a) => p \in Tracked(b) \/ Ends(e, p)
              /\ Starts(e, p) => Kept(p) /\ p \notin Tracked(a)
              /\ OnePen => \A u \in Nat : Pending(p, u) \in a.pending =>
                              (Pending(p, u) \in b.pending \/ Settles(e, p, u)) /\ ~Lifts(e, p),
           e.phase = "Down" => /\ e.pointer \in Tracked(b)
                               /\ e.update # 0 => Pending(e.pointer, e.update) \in b.pending
    PROVE  Whole(b, s, held2)
<1>1. /\ a \in AdapterState /\ a.nextPointer >= 1 /\ a.nextUpdate >= 1
      /\ a.nextPointer \in Nat /\ a.nextUpdate \in Nat
      /\ After(a.queue, Tracked(a), a.pending, s, a.nextPointer, a.nextUpdate, 0)
  BY AdapterParts DEF Whole
<1>2. b.nextPointer \in Nat /\ b.nextUpdate \in Nat
  BY AdapterParts
<1> DEFINE T == Tracked(a)
           U == Tracked(b)
           D == a.pending
           E == b.pending
           n == a.nextPointer
           m == a.nextUpdate
           n1 == b.nextPointer
           m1 == b.nextUpdate
           q == a.queue
<1>3. \A p \in 0 .. (n - 1) :
         /\ Kept(p) /\ p \in T => p \in U \/ Ends(e, p)
         /\ Starts(e, p) => Kept(p) /\ p \notin T
         /\ OnePen => \A u \in Nat : Pending(p, u) \in D =>
                         (Pending(p, u) \in E \/ Settles(e, p, u)) /\ ~Lifts(e, p)
  OBVIOUS
<1>4. e.phase = "Down" => e.pointer \in U /\ (e.update # 0 => Pending(e.pointer, e.update) \in E)
  OBVIOUS
<1>5. /\ After(q, T, D, s, n, m, 0) /\ n \in Nat /\ m \in Nat /\ n1 \in Nat /\ m1 \in Nat
      /\ n <= n1 /\ m <= m1 /\ e.pointer < n1 /\ e.update < m1
  BY <1>1, <1>2
<1>6. b.queue = Append(q, e)
  OBVIOUS
<1> HIDE DEF T, U, D, E, n, m, n1, m1, q
<1>7. After(Append(q, e), U, E, s, n1, m1, 0)
  BY <1>3, <1>4, <1>5, AfterAppend
<1>8. After(b.queue, Tracked(b), b.pending, s, b.nextPointer, b.nextUpdate, 0)
  BY <1>6, <1>7 DEF U, E, n1, m1
<1>. QED
  BY <1>1, <1>2, <1>8 DEF Whole

\* Phases whose events start, lift or settle nothing.
LEMMA PhaseIs ==
    ASSUME NEW e
    PROVE  /\ e.phase = "Down" => \A p : ~Lifts(e, p) /\ ~Ends(e, p) /\ (Starts(e, p) <=> p = e.pointer)
           /\ e.phase \in {"Up", "Cancel"} => \A p : ~Starts(e, p) /\ (Ends(e, p) <=> p = e.pointer)
           /\ e.phase = "Up" => \A p : Lifts(e, p) <=> p = e.pointer
           /\ e.phase = "Cancel" => /\ \A p : ~Lifts(e, p)
                                    /\ \A p, u : Settles(e, p, u) <=> p = e.pointer
BY DEF Starts, Lifts, Ends, Settles

\* The mouse's button goes down, or up, or is cancelled.
LEMMA MouseKeeps ==
    ASSUME NEW a, NEW s, NEW held, Whole(a, s, held), NEW down \in BOOLEAN, a.mouseDown # down,
           NEW phase \in {"Down", "Up", "Cancel"}, down <=> phase = "Down"
    PROVE  LET b == Emit([a EXCEPT !.mouseDown = down], phase, Mouse)
           IN  /\ Whole(b, s, held)
               /\ Fields(b, Append(a.queue, Event(phase, Mouse, 0)), down, a.touches, a.pens,
                         a.activePen, a.pending, a.nextPointer, a.nextUpdate)
<1> DEFINE e == Event(phase, Mouse, 0)
           x == Append(a.queue, e)
           c == [a EXCEPT !.mouseDown = down]
           b == Emit(c, phase, Mouse)
<1>1. /\ a \in AdapterState /\ a.nextPointer >= 1 /\ a.nextUpdate >= 1 /\ Slots(a) /\ InHand(a, held)
      /\ a.nextPointer \in Nat /\ a.nextUpdate \in Nat /\ a.mouseDown \in BOOLEAN
  BY AdapterParts DEF Whole
<1>2. /\ phase \in {"Down", "Move", "Up", "Cancel"} /\ phase \in {"Down", "Move", "Up", "Cancel", "Revise"}
      /\ Mouse \in Nat /\ Mouse = 0
  BY DEF Mouse
<1>3. e \in StylusEvent /\ e.phase = phase /\ e.pointer = Mouse /\ e.update = 0
  BY <1>2, EventIs
<1>4. Fields(c, a.queue, down, a.touches, a.pens, a.activePen, a.pending, a.nextPointer, a.nextUpdate)
  BY <1>1, AdapterUpdates
<1> HIDE DEF c
<1>5. /\ c \in AdapterState /\ c.queue = a.queue
      /\ c.mouseDown = down /\ c.touches = a.touches /\ c.pens = a.pens /\ c.activePen = a.activePen
      /\ c.pending = a.pending /\ c.nextPointer = a.nextPointer /\ c.nextUpdate = a.nextUpdate
  BY <1>4 DEF Fields
<1>6. Fields(b, x, down, a.touches, a.pens, a.activePen, a.pending, a.nextPointer, a.nextUpdate)
  <2>1. Fields(b, Append(c.queue, Event(phase, Mouse, 0)), c.mouseDown, c.touches, c.pens, c.activePen,
               c.pending, c.nextPointer, c.nextUpdate)
    BY <1>2, <1>5, EmitIs
  <2> HIDE DEF b
  <2>. QED
    BY <1>5, <2>1
<1> HIDE DEF b, e
<1>7. /\ b \in AdapterState /\ b.queue = Append(a.queue, e) /\ b.mouseDown = down
      /\ b.touches = a.touches /\ b.pens = a.pens /\ b.activePen = a.activePen
      /\ b.pending = a.pending /\ b.nextPointer = a.nextPointer /\ b.nextUpdate = a.nextUpdate
  BY <1>6 DEF Fields
<1>8. Slots(b) /\ InHand(b, held) /\ \A p : p # Mouse => (p \in Tracked(a) <=> p \in Tracked(b))
  BY <1>1, <1>7, SlotsStay
<1>9. (Mouse \in Tracked(a) <=> a.mouseDown) /\ (Mouse \in Tracked(b) <=> down)
  BY <1>1, <1>7, <1>8, TrackedIs
<1>10. ASSUME NEW u \in Nat PROVE Pending(Mouse, u) \notin a.pending
  <2>1. Pending(Mouse, u).pointer = 0
    BY <1>2 DEF Pending
  <2>2. \A y \in a.pending : y.pointer \in 1 .. (a.nextPointer - 1)
    BY <1>1 DEF Slots
  <2>. QED
    BY <2>1, <2>2
<1>11. \A p \in 0 .. (a.nextPointer - 1) :
          /\ Kept(p) /\ p \in Tracked(a) => p \in Tracked(b) \/ Ends(e, p)
          /\ Starts(e, p) => Kept(p) /\ p \notin Tracked(a)
          /\ OnePen => \A u \in Nat : Pending(p, u) \in a.pending =>
                          (Pending(p, u) \in b.pending \/ Settles(e, p, u)) /\ ~Lifts(e, p)
  <2>1. CASE phase = "Down"
    <3>1. e.phase = "Down" /\ down /\ ~a.mouseDown
      BY <1>1, <1>3, <2>1
    <3>2. \A p : ~Lifts(e, p) /\ ~Ends(e, p) /\ (Starts(e, p) <=> p = Mouse)
      BY <1>3, <3>1, PhaseIs
    <3>. QED
      BY <1>7, <1>8, <1>9, <3>1, <3>2 DEF Kept
  <2>2. CASE phase # "Down"
    <3>1. e.phase \in {"Up", "Cancel"}
      BY <1>3, <2>2
    <3>2. \A p : ~Starts(e, p) /\ (Ends(e, p) <=> p = Mouse)
      BY <1>3, <3>1, PhaseIs
    <3>3. \A p : p # Mouse => ~Lifts(e, p)
      BY <1>3 DEF Lifts
    <3>. QED
      BY <1>7, <1>8, <1>10, <3>2, <3>3
  <2>. QED
    BY <2>1, <2>2
<1>12. /\ a.nextPointer <= b.nextPointer /\ a.nextUpdate <= b.nextUpdate
       /\ e.pointer < b.nextPointer /\ e.update < b.nextUpdate
       /\ e.phase = "Down" => /\ e.pointer \in Tracked(b)
                              /\ e.update # 0 => Pending(e.pointer, e.update) \in b.pending
  BY <1>1, <1>2, <1>3, <1>7, <1>9
<1>13. Whole(b, s, held)
  BY <1>3, <1>7, <1>8, <1>11, <1>12, WholeAppend
<1>. QED
  BY <1>6, <1>13 DEF b, c, e

(***************************************************************************)
(* Touch.                                                                  *)
(***************************************************************************)
LEMMA TouchesUpdate ==
    ASSUME NEW t \in [Fingers -> Int], NEW f \in Fingers, NEW x \in Int
    PROVE  LET u == [t EXCEPT ![f] = x]
           IN  u \in [Fingers -> Int] /\ u[f] = x /\ \A g \in Fingers : g # f => u[g] = t[g]
OBVIOUS

\* A finger that is not held goes down.
LEMMA TouchDownKeeps ==
    ASSUME NEW a, NEW s, NEW held, Whole(a, s, held), NEW f \in Fingers, f \notin held
    PROVE  LET b == OnTouch(a, f, "Down")
           IN  Whole(b, s, held \cup {f}) /\ b.mouseDown = a.mouseDown
<1> DEFINE n == a.nextPointer
           down == "Down"
           t == [a.touches EXCEPT ![f] = n]
           c == [a EXCEPT !.touches = t]
           d == [c EXCEPT !.nextPointer = n + 1]
           e == Event(down, n, 0)
           x == Append(a.queue, e)
           b == Emit(d, down, n)
<1>1. /\ a \in AdapterState /\ n >= 1 /\ a.nextUpdate >= 1 /\ Slots(a) /\ InHand(a, held)
      /\ n \in Nat /\ a.nextUpdate \in Nat /\ a.touches \in [Fingers -> Int]
  BY AdapterParts DEF Whole
<1>2. OnTouch(a, f, "Down") = b
  <2>1. [a EXCEPT !.touches[f] = a.nextPointer, !.nextPointer = @ + 1] = d
    BY <1>1 DEF AdapterState
  <2> DEFINE y == [a EXCEPT !.touches[f] = a.nextPointer, !.nextPointer = @ + 1]
  <2>2. OnTouch(a, f, "Down") = Emit(y, "Down", n)
    BY DEF OnTouch
  <2> HIDE DEF y, d
  <2>3. y = d
    BY <2>1 DEF y
  <2>. QED
    BY <2>2, <2>3
<1>3. n \in Int /\ n + 1 \in Nat
  BY <1>1
<1>4. down \in {"Down", "Move", "Up", "Cancel"} /\ down \in {"Down", "Move", "Up", "Cancel", "Revise"}
  OBVIOUS
<1>5. e \in StylusEvent /\ e.phase = "Down" /\ e.pointer = n /\ e.update = 0
  BY <1>1, EventIs
<1> HIDE DEF n, down
<1>6. t \in [Fingers -> Int] /\ t[f] = n /\ \A g \in Fingers : g # f => t[g] = a.touches[g]
  BY <1>1, <1>3, TouchesUpdate
<1> HIDE DEF t
<1>7. Fields(c, a.queue, a.mouseDown, t, a.pens, a.activePen, a.pending, a.nextPointer, a.nextUpdate)
  BY <1>1, <1>6, AdapterUpdates
<1> HIDE DEF c
<1>8. /\ c \in AdapterState /\ c.queue = a.queue /\ c.mouseDown = a.mouseDown
      /\ c.touches = t /\ c.pens = a.pens /\ c.activePen = a.activePen
      /\ c.pending = a.pending /\ c.nextPointer = a.nextPointer /\ c.nextUpdate = a.nextUpdate
  BY <1>7 DEF Fields
<1>9. Fields(d, c.queue, c.mouseDown, c.touches, c.pens, c.activePen, c.pending, n + 1, c.nextUpdate)
  BY <1>3, <1>8, AdapterUpdates
<1> HIDE DEF d
<1>10. /\ d \in AdapterState /\ d.queue = a.queue /\ d.mouseDown = a.mouseDown
       /\ d.touches = t /\ d.pens = a.pens /\ d.activePen = a.activePen
       /\ d.pending = a.pending /\ d.nextPointer = n + 1 /\ d.nextUpdate = a.nextUpdate
  BY <1>8, <1>9 DEF Fields
<1>11. Fields(b, Append(d.queue, Event(down, n, 0)), d.mouseDown, d.touches, d.pens, d.activePen,
              d.pending, d.nextPointer, d.nextUpdate)
  BY <1>1, <1>4, <1>10, EmitIs DEF n
<1> HIDE DEF b, e
<1>12. /\ b \in AdapterState /\ b.queue = Append(a.queue, e) /\ b.mouseDown = a.mouseDown
       /\ b.touches = t /\ b.pens = a.pens /\ b.activePen = a.activePen
       /\ b.pending = a.pending /\ b.nextPointer = n + 1 /\ b.nextUpdate = a.nextUpdate
  BY <1>10, <1>11 DEF Fields, e
<1>13. a.touches[f] = NoPointer
  BY <1>1 DEF InHand
<1>14. a.nextPointer = n /\ n \in Nat /\ n >= 1
  BY <1>1 DEF n
<1>15. Slots(b)
  <2>1. \A g \in Fingers : b.touches[g] = NoPointer \/ b.touches[g] \in 1 .. n
    BY <1>1, <1>6, <1>12, <1>14 DEF Slots
  <2>2. \A p \in Pens : b.pens[p] = NoPointer \/ b.pens[p] \in 1 .. n
    BY <1>1, <1>12, <1>14 DEF Slots
  <2>3. b.activePen # NoPointer => \E p \in Pens : b.pens[p] = b.activePen
    BY <1>1, <1>12 DEF Slots
  <2>4. \A y \in b.pending : /\ y.update \in 1 .. (a.nextUpdate - 1)
                             /\ y.pointer \in 1 .. (n - 1)
                             /\ \A g \in Fingers : b.touches[g] # y.pointer
    BY <1>1, <1>6, <1>12, <1>14 DEF Slots
  <2>5. Touching(b) = Touching(a) \cup {f}
    BY <1>6, <1>12, <1>14 DEF Touching, NoPointer
  <2>6. IsFiniteSet(Touching(b)) /\ IsFiniteSet(b.pending)
    BY <1>1, <1>12, <2>5, FS_AddElement DEF Slots
  <2>7. b.nextPointer - 1 = n /\ 1 .. (n - 1) \subseteq 1 .. n
    BY <1>12, <1>14
  <2>. QED
    BY <1>12, <2>1, <2>2, <2>3, <2>4, <2>6, <2>7 DEF Slots
<1>16. InHand(b, held \cup {f})
  BY <1>1, <1>6, <1>12 DEF InHand
<1>17. \A p \in Tracked(a) : p = NoPointer \/ p \in Tracked(b)
  BY <1>6, <1>12, <1>13 DEF Tracked
<1>18. n \in Tracked(b)
  BY <1>6, <1>12 DEF Tracked
<1>19. \A p \in 0 .. (a.nextPointer - 1) :
          /\ Kept(p) /\ p \in Tracked(a) => p \in Tracked(b) \/ Ends(e, p)
          /\ Starts(e, p) => Kept(p) /\ p \notin Tracked(a)
          /\ OnePen => \A u \in Nat : Pending(p, u) \in a.pending =>
                          (Pending(p, u) \in b.pending \/ Settles(e, p, u)) /\ ~Lifts(e, p)
  <2>1. \A p \in 0 .. (a.nextPointer - 1) : p # n /\ p # NoPointer
    BY <1>14 DEF NoPointer
  <2>2. \A p : ~Lifts(e, p) /\ ~Ends(e, p) /\ (Starts(e, p) <=> p = n)
    BY <1>5, PhaseIs
  <2>. QED
    BY <1>12, <1>17, <2>1, <2>2
<1>20. /\ a.nextPointer <= b.nextPointer /\ a.nextUpdate <= b.nextUpdate
       /\ e.pointer < b.nextPointer /\ e.update < b.nextUpdate
       /\ e.phase = "Down" => /\ e.pointer \in Tracked(b)
                              /\ e.update # 0 => Pending(e.pointer, e.update) \in b.pending
  BY <1>1, <1>5, <1>12, <1>14, <1>18
<1>21. Whole(b, s, held \cup {f})
  <2> DEFINE h == held \cup {f}
  <2>1. InHand(b, h)
    BY <1>16
  <2> HIDE DEF h
  <2>2. Whole(b, s, h)
    BY <1>5, <1>12, <1>15, <1>19, <1>20, <2>1, WholeAppend
  <2>. QED
    BY <2>2 DEF h
<1>. QED
  BY <1>2, <1>12, <1>21

\* A finger that is down is lifted, or its touch is cancelled.
LEMMA TouchEndKeeps ==
    ASSUME NEW a, NEW s, NEW held, Whole(a, s, held), NEW f \in Fingers, a.touches[f] # NoPointer,
           NEW phase \in {"Up", "Cancel"}
    PROVE  LET b == OnTouch(a, f, phase)
           IN  /\ Whole(b, s, held) /\ b \in AdapterState /\ b.mouseDown = a.mouseDown
               /\ b.touches[f] = NoPointer /\ \A g \in Fingers : g # f => b.touches[g] = a.touches[g]
               /\ b.pens = a.pens /\ b.activePen = a.activePen /\ b.pending = a.pending
<1> DEFINE n == a.touches[f]
           t == [a.touches EXCEPT ![f] = NoPointer]
           c == [a EXCEPT !.touches = t]
           e == Event(phase, n, 0)
           x == Append(a.queue, e)
           b == Emit(c, phase, n)
<1>1. /\ a \in AdapterState /\ a.nextPointer >= 1 /\ a.nextUpdate >= 1 /\ Slots(a) /\ InHand(a, held)
      /\ a.nextPointer \in Nat /\ a.nextUpdate \in Nat /\ a.touches \in [Fingers -> Int]
  BY AdapterParts DEF Whole
<1>2. OnTouch(a, f, phase) = b
  <2>1. [a EXCEPT !.touches[f] = NoPointer] = c
    BY <1>1 DEF AdapterState
  <2> DEFINE y == [a EXCEPT !.touches[f] = NoPointer]
  <2>2. phase # "Down" /\ phase # "Move"
    OBVIOUS
  <2>3. OnTouch(a, f, phase) = Emit(y, phase, n)
    BY <2>2 DEF OnTouch
  <2> HIDE DEF y, c
  <2>4. y = c
    BY <2>1 DEF y
  <2>. QED
    BY <2>3, <2>4
<1>3. n \in 1 .. (a.nextPointer - 1) /\ n \in Nat
  BY <1>1 DEF Slots
<1>4. phase \in {"Down", "Move", "Up", "Cancel"} /\ phase \in {"Down", "Move", "Up", "Cancel", "Revise"}
  OBVIOUS
<1>5. e \in StylusEvent /\ e.phase = phase /\ e.pointer = n /\ e.update = 0
  BY <1>3, <1>4, EventIs
<1>6. t \in [Fingers -> Int] /\ t[f] = NoPointer /\ \A g \in Fingers : g # f => t[g] = a.touches[g]
  <2>1. NoPointer \in Int
    BY DEF NoPointer
  <2>. QED
    BY <1>1, <2>1, TouchesUpdate
<1> HIDE DEF t
<1>7. Fields(c, a.queue, a.mouseDown, t, a.pens, a.activePen, a.pending, a.nextPointer, a.nextUpdate)
  BY <1>1, <1>6, AdapterUpdates
<1> HIDE DEF c
<1>8. /\ c \in AdapterState /\ c.queue = a.queue /\ c.mouseDown = a.mouseDown
      /\ c.touches = t /\ c.pens = a.pens /\ c.activePen = a.activePen
      /\ c.pending = a.pending /\ c.nextPointer = a.nextPointer /\ c.nextUpdate = a.nextUpdate
  BY <1>7 DEF Fields
<1> HIDE DEF n
<1>9. Fields(b, Append(c.queue, Event(phase, n, 0)), c.mouseDown, c.touches, c.pens, c.activePen,
             c.pending, c.nextPointer, c.nextUpdate)
  BY <1>3, <1>4, <1>8, EmitIs
<1> HIDE DEF b, e
<1>10. /\ b \in AdapterState /\ b.queue = Append(a.queue, e) /\ b.mouseDown = a.mouseDown
       /\ b.touches = t /\ b.pens = a.pens /\ b.activePen = a.activePen
       /\ b.pending = a.pending /\ b.nextPointer = a.nextPointer /\ b.nextUpdate = a.nextUpdate
  BY <1>8, <1>9 DEF Fields, e
<1>11. Slots(b)
  <2>1. \A g \in Fingers : b.touches[g] = NoPointer \/ b.touches[g] = a.touches[g]
    BY <1>6, <1>10
  <2>2. \A y \in a.pending : y.pointer # NoPointer
    BY <1>1 DEF Slots, NoPointer
  <2>3. Touching(b) \subseteq Touching(a)
    BY <1>10, <2>1 DEF Touching
  <2>4. IsFiniteSet(Touching(b))
    BY <1>1, <2>3, FS_Subset DEF Slots
  <2>. QED
    BY <1>1, <1>10, <2>1, <2>2, <2>4 DEF Slots
<1>12. InHand(b, held)
  BY <1>1, <1>6, <1>10 DEF InHand
<1>13. \A p \in Tracked(a) : p = n \/ p \in Tracked(b)
  BY <1>6, <1>10 DEF Tracked, n
<1>14. ASSUME NEW u \in Nat PROVE Pending(n, u) \notin a.pending
  <2>1. Pending(n, u).pointer = a.touches[f]
    BY DEF Pending, n
  <2>. QED
    BY <1>1, <2>1 DEF Slots
<1>15. \A p \in 0 .. (a.nextPointer - 1) :
          /\ Kept(p) /\ p \in Tracked(a) => p \in Tracked(b) \/ Ends(e, p)
          /\ Starts(e, p) => Kept(p) /\ p \notin Tracked(a)
          /\ OnePen => \A u \in Nat : Pending(p, u) \in a.pending =>
                          (Pending(p, u) \in b.pending \/ Settles(e, p, u)) /\ ~Lifts(e, p)
  <2>1. \A p : ~Starts(e, p) /\ (Ends(e, p) <=> p = n)
    BY <1>5, PhaseIs
  <2>2. \A p : p # n => ~Lifts(e, p)
    BY <1>5 DEF Lifts
  <2>. QED
    BY <1>10, <1>13, <1>14, <2>1, <2>2
<1>16. /\ a.nextPointer <= b.nextPointer /\ a.nextUpdate <= b.nextUpdate
       /\ e.pointer < b.nextPointer /\ e.update < b.nextUpdate /\ e.phase # "Down"
  BY <1>1, <1>3, <1>5, <1>10
<1>17. Whole(b, s, held)
  BY <1>5, <1>10, <1>11, <1>12, <1>15, <1>16, WholeAppend
<1>. QED
  BY <1>2, <1>6, <1>10, <1>17

(***************************************************************************)
(* The pen.                                                                *)
(***************************************************************************)
LEMMA PensUpdate ==
    ASSUME NEW t \in [Pens -> Int], NEW p \in Pens, NEW x \in Int
    PROVE  LET u == [t EXCEPT ![p] = x]
           IN  u \in [Pens -> Int] /\ u[p] = x /\ \A g \in Pens : g # p => u[g] = t[g]
OBVIOUS

LEMMA PendingIs ==
    ASSUME NEW p \in Nat, NEW u \in Nat
    PROVE  /\ Pending(p, u) \in Estimate /\ Pending(p, u).update = u /\ Pending(p, u).pointer = p
           /\ \A e \in Estimate : e = Pending(e.pointer, e.update) /\ e.pointer \in Nat /\ e.update \in Nat
BY DEF Pending, Estimate

LEMMA PenDownIs ==
    ASSUME NEW a \in AdapterState, NEW pen \in Pens
    PROVE  Fields(PenDown(a, pen),
                  Append(a.queue, Event("Down", a.nextPointer, a.nextUpdate)),
                  a.mouseDown, a.touches, [a.pens EXCEPT ![pen] = a.nextPointer], a.nextPointer,
                  a.pending \cup {Pending(a.nextPointer, a.nextUpdate)},
                  a.nextPointer + 1, a.nextUpdate + 1)
<1> DEFINE n == a.nextPointer
           m == a.nextUpdate
           down == "Down"
           q == Append(a.queue, Event(down, n, m))
           t == [a.pens EXCEPT ![pen] = n]
           d == a.pending \cup {Pending(n, m)}
           a1 == [a EXCEPT !.queue = q]
           a2 == [a1 EXCEPT !.pens = t]
           a3 == [a2 EXCEPT !.activePen = n]
           a4 == [a3 EXCEPT !.pending = d]
           a5 == [a4 EXCEPT !.nextPointer = n + 1]
           a6 == [a5 EXCEPT !.nextUpdate = m + 1]
<1>1. PenDown(a, pen) = a6
  BY DEF PenDown, AdapterState, Pending, Event
<1>2. n \in Nat /\ n \in Int /\ m \in Nat /\ n + 1 \in Nat /\ m + 1 \in Nat
  BY AdapterParts
<1>3. q \in Queue
  <2>1. down \in {"Down", "Move", "Up", "Cancel", "Revise"}
    OBVIOUS
  <2> HIDE DEF down, n, m
  <2>2. Event(down, n, m) \in StylusEvent /\ a.queue \in Queue
    BY <1>2, <2>1, EventIs, AdapterParts
  <2>. QED
    BY <2>2 DEF Queue
<1>4. t \in [Pens -> Int]
  BY <1>2, AdapterParts, PensUpdate
<1>5. d \in SUBSET Estimate
  <2> HIDE DEF n, m
  <2>. QED
    BY <1>2, AdapterParts, PendingIs
<1> HIDE DEF q, t, d, n, m, a1, a2, a3, a4, a5, a6
<1>6. Fields(a1, q, a.mouseDown, a.touches, a.pens, a.activePen, a.pending, a.nextPointer, a.nextUpdate)
  BY <1>3, AdapterUpdates DEF a1
<1>7. Fields(a2, q, a.mouseDown, a.touches, t, a.activePen, a.pending, a.nextPointer, a.nextUpdate)
  <2>1. Fields(a2, a1.queue, a1.mouseDown, a1.touches, t, a1.activePen, a1.pending, a1.nextPointer, a1.nextUpdate)
    BY <1>4, <1>6, AdapterUpdates DEF a2, Fields
  <2>. QED
    BY <1>6, <2>1 DEF Fields
<1>8. Fields(a3, q, a.mouseDown, a.touches, t, n, a.pending, a.nextPointer, a.nextUpdate)
  <2>1. Fields(a3, a2.queue, a2.mouseDown, a2.touches, a2.pens, n, a2.pending, a2.nextPointer, a2.nextUpdate)
    BY <1>2, <1>7, AdapterUpdates DEF a3, Fields
  <2>. QED
    BY <1>7, <2>1 DEF Fields
<1>9. Fields(a4, q, a.mouseDown, a.touches, t, n, d, a.nextPointer, a.nextUpdate)
  <2>1. Fields(a4, a3.queue, a3.mouseDown, a3.touches, a3.pens, a3.activePen, d, a3.nextPointer, a3.nextUpdate)
    BY <1>5, <1>8, AdapterUpdates DEF a4, Fields
  <2>. QED
    BY <1>8, <2>1 DEF Fields
<1>10. Fields(a5, q, a.mouseDown, a.touches, t, n, d, n + 1, a.nextUpdate)
  <2>1. Fields(a5, a4.queue, a4.mouseDown, a4.touches, a4.pens, a4.activePen, a4.pending, n + 1, a4.nextUpdate)
    BY <1>2, <1>9, AdapterUpdates DEF a5, Fields
  <2>. QED
    BY <1>9, <2>1 DEF Fields
<1>11. Fields(a6, q, a.mouseDown, a.touches, t, n, d, n + 1, m + 1)
  <2>1. Fields(a6, a5.queue, a5.mouseDown, a5.touches, a5.pens, a5.activePen, a5.pending, a5.nextPointer, m + 1)
    BY <1>2, <1>10, AdapterUpdates DEF a6, Fields
  <2>. QED
    BY <1>10, <2>1 DEF Fields
<1>. QED
  BY <1>1, <1>11 DEF q, t, d, n, m

\* A pen goes down. When it is the only one, it drives no stroke yet.
LEMMA PenDownKeeps ==
    ASSUME NEW a, NEW s, NEW held, Whole(a, s, held), NEW pen \in Pens, pen \notin held
    PROVE  LET b == PenDown(a, pen)
           IN  /\ Whole(b, s, held \cup {pen})
               /\ b.activePen # NoPointer /\ b.mouseDown = a.mouseDown
<1> DEFINE n == a.nextPointer
           m == a.nextUpdate
           down == "Down"
           e == Event(down, n, m)
           t == [a.pens EXCEPT ![pen] = n]
           b == PenDown(a, pen)
           h == held \cup {pen}
<1>1. /\ a \in AdapterState /\ n >= 1 /\ m >= 1 /\ Slots(a) /\ InHand(a, held)
      /\ n \in Nat /\ m \in Nat /\ n \in Int /\ a.pens \in [Pens -> Int] /\ a.pending \subseteq Estimate
  BY AdapterParts DEF Whole
<1>2. e \in StylusEvent /\ e.phase = "Down" /\ e.pointer = n /\ e.update = m
  BY <1>1, EventIs
<1>3. Fields(b, Append(a.queue, e), a.mouseDown, a.touches, t, n, a.pending \cup {Pending(n, m)}, n + 1, m + 1)
  BY <1>1, PenDownIs
<1>4. t \in [Pens -> Int] /\ t[pen] = n /\ \A g \in Pens : g # pen => t[g] = a.pens[g]
  BY <1>1, PensUpdate
<1>5. a.nextPointer = n /\ a.nextUpdate = m
  OBVIOUS
<1> HIDE DEF e, t, b, n, m
<1>6. /\ b \in AdapterState /\ b.queue = Append(a.queue, e) /\ b.mouseDown = a.mouseDown
      /\ b.touches = a.touches /\ b.pens = t /\ b.activePen = n
      /\ b.pending = a.pending \cup {Pending(n, m)} /\ b.nextPointer = n + 1 /\ b.nextUpdate = m + 1
  BY <1>3 DEF Fields
<1>7. Pending(n, m).update = m /\ Pending(n, m).pointer = n
  BY <1>1, PendingIs
<1>8. b.activePen # NoPointer
  BY <1>1, <1>6 DEF NoPointer
<1>9. Slots(b)
  <2>1. /\ 1 .. (n - 1) \subseteq 1 .. n /\ 1 .. (m - 1) \subseteq 1 .. m /\ n \in 1 .. n /\ m \in 1 .. m
        /\ n \notin 1 .. (n - 1) /\ n # NoPointer /\ b.nextPointer - 1 = n /\ b.nextUpdate - 1 = m
    <3>1. n \in Nat /\ m \in Nat /\ n >= 1 /\ m >= 1
      BY <1>1
    <3>2. 1 .. (n - 1) \subseteq 1 .. n /\ 1 .. (m - 1) \subseteq 1 .. m
      BY <3>1
    <3>3. n \in 1 .. n /\ m \in 1 .. m /\ n \notin 1 .. (n - 1) /\ n # NoPointer
      BY <3>1 DEF NoPointer
    <3>4. b.nextPointer - 1 = n /\ b.nextUpdate - 1 = m
      BY <1>6, <3>1
    <3>. QED
      BY <3>2, <3>3, <3>4
  <2>2. \A f \in Fingers : a.touches[f] = NoPointer \/ a.touches[f] \in 1 .. (n - 1)
    BY <1>1, <1>5 DEF Slots
  <2>3. \A p \in Pens : b.pens[p] = NoPointer \/ b.pens[p] \in 1 .. n
    BY <1>1, <1>4, <1>5, <1>6, <2>1 DEF Slots
  <2>4. \E p \in Pens : b.pens[p] = b.activePen
    BY <1>4, <1>6
  <2>5. ASSUME NEW y \in b.pending
        PROVE  y.update \in 1 .. m /\ y.pointer \in 1 .. n /\ \A f \in Fingers : b.touches[f] # y.pointer
    <3>1. CASE y \in a.pending
      BY <1>1, <1>5, <1>6, <2>1, <3>1 DEF Slots
    <3>2. CASE y = Pending(n, m)
      BY <1>6, <1>7, <2>1, <2>2, <3>2
    <3>. QED
      BY <1>6, <3>1, <3>2
  <2>6. Touching(b) = Touching(a)
    BY <1>6 DEF Touching
  <2>7. IsFiniteSet(b.pending) /\ IsFiniteSet(Touching(b))
    <3>1. IsFiniteSet(a.pending) /\ IsFiniteSet(Touching(a))
      BY <1>1 DEF Slots
    <3>2. IsFiniteSet(a.pending \cup {Pending(n, m)})
      BY <3>1, FS_AddElement
    <3>. QED
      BY <1>6, <2>6, <3>1, <3>2
  <2>. QED
    BY <1>6, <2>1, <2>2, <2>3, <2>4, <2>5, <2>7 DEF Slots
<1>10. InHand(b, h)
  <2>1. \A f \in Fingers : b.touches[f] # NoPointer => f \in h
    BY <1>1, <1>6 DEF InHand
  <2>2. ASSUME OnePen
        PROVE  /\ \A p \in Pens : b.pens[p] # NoPointer => p \in h /\ b.activePen = b.pens[p]
               /\ \A y \in b.pending : \E p \in Pens : b.pens[p] = y.pointer
    <3>1. \A p \in Pens : p = pen
      BY <2>2 DEF OnePen
    <3>2. a.pens[pen] = NoPointer
      BY <1>1, <2>2 DEF InHand
    <3>3. a.pending = {}
      <4>1. SUFFICES ASSUME NEW y \in a.pending PROVE FALSE
        OBVIOUS
      <4>2. y.pointer \in 1 .. (n - 1) /\ y.pointer = NoPointer
        BY <1>1, <1>5, <2>2, <3>1, <3>2 DEF Slots, InHand
      <4>. QED
        BY <4>2 DEF NoPointer
    <3>. QED
      BY <1>4, <1>6, <1>7, <3>1, <3>3
  <2>. QED
    BY <2>1, <2>2 DEF InHand
<1>11. \A p \in 0 .. (a.nextPointer - 1) :
          /\ Kept(p) /\ p \in Tracked(a) => p \in Tracked(b) \/ Ends(e, p)
          /\ Starts(e, p) => Kept(p) /\ p \notin Tracked(a)
          /\ OnePen => \A u \in Nat : Pending(p, u) \in a.pending =>
                          (Pending(p, u) \in b.pending \/ Settles(e, p, u)) /\ ~Lifts(e, p)
  <2>1. \A p \in 0 .. (n - 1) : p # n /\ p # NoPointer
    BY <1>1 DEF NoPointer
  <2>2. \A p : ~Lifts(e, p) /\ ~Ends(e, p) /\ (Starts(e, p) <=> p = n)
    BY <1>2, PhaseIs
  <2>3. ASSUME NEW p \in 0 .. (n - 1), Kept(p), p \in Tracked(a) PROVE p \in Tracked(b)
    <3>1. CASE p = Mouse
      <4>1. a.mouseDown
        BY <1>1, <1>5, <2>3, <3>1, TrackedIs
      <4>. QED
        BY <1>6, <3>1, <4>1 DEF Tracked
    <3>2. CASE p # Mouse
      <4>1. OnePen
        BY <2>3, <3>2 DEF Kept
      <4>2. \A x \in Pens : a.pens[x] = NoPointer
        BY <1>1, <4>1 DEF InHand, OnePen
      <4>3. PICK f \in Fingers : p = a.touches[f]
        BY <2>1, <2>3, <3>2, <4>2 DEF Tracked
      <4>. QED
        BY <1>6, <4>3 DEF Tracked
    <3>. QED
      BY <3>1, <3>2
  <2>. QED
    BY <1>5, <1>6, <2>1, <2>2, <2>3
<1>12. n \in Tracked(b)
  BY <1>4, <1>6 DEF Tracked
<1>13. /\ a.nextPointer <= b.nextPointer /\ a.nextUpdate <= b.nextUpdate
       /\ e.pointer < b.nextPointer /\ e.update < b.nextUpdate
  BY <1>1, <1>2, <1>5, <1>6
<1>14. e.phase = "Down" => /\ e.pointer \in Tracked(b)
                           /\ e.update # 0 => Pending(e.pointer, e.update) \in b.pending
  BY <1>2, <1>6, <1>12
<1> HIDE DEF h
<1>15. Whole(b, s, h)
  BY <1>2, <1>6, <1>9, <1>10, <1>11, <1>13, <1>14, WholeAppend
<1>. QED
  BY <1>6, <1>8, <1>15 DEF b, h

\* SetToSeq lists the elements of a finite set.
LEMMA SetToSeqIs ==
    ASSUME NEW S, IsFiniteSet(S)
    PROVE  /\ Cardinality(S) \in Nat
           /\ SetToSeq(S) \in [1 .. Cardinality(S) -> S]
           /\ \A x \in S : \E i \in 1 .. Cardinality(S) : SetToSeq(S)[i] = x
<1> DEFINE n == Cardinality(S)
           q == SetToSeq(S)
<1>1. n \in Nat /\ ExistsBijection(1 .. n, S)
  BY FS_CardinalityType
<1>2. PICK f \in [1 .. n -> S] : IsInjective(f)
  BY <1>1 DEF ExistsBijection, Bijection, Injection
<1>3. q \in [1 .. n -> S] /\ IsInjective(q)
  BY <1>2 DEF SetToSeq
<1>4. q \in Injection(1 .. n, S)
  BY <1>3 DEF Injection
<1> HIDE DEF q
<1>5. IsFiniteSet(1 .. n) /\ Cardinality(1 .. n) = n
  BY <1>1, FS_Interval
<1>6. q \in Surjection(1 .. n, S)
  BY <1>4, <1>5, FS_Injection
<1>7. \A x \in S : \E i \in 1 .. n : q[i] = x
  BY <1>6 DEF Surjection
<1>. QED
  BY <1>1, <1>3, <1>7 DEF q

\* The revisions of a pointer, in some order.
Revisions(a, p) ==
    {[phase |-> "Revise", pointer |-> p, update |-> e.update] : e \in PendingOf(a, p)}

LEMMA RevisionsAre ==
    ASSUME NEW a \in AdapterState, IsFiniteSet(a.pending), NEW p \in Nat
    PROVE  LET q == SetToSeq(Revisions(a, p))
           IN  /\ q \in Queue /\ Len(q) \in Nat
               /\ \A i \in 1 .. Len(q) :
                     /\ q[i].phase = "Revise" /\ q[i].pointer = p
                     /\ \E e \in a.pending : q[i].update = e.update
               /\ \A u \in Nat : Pending(p, u) \in a.pending =>
                     \E i \in 1 .. Len(q) : q[i].pointer = p /\ q[i].phase = "Revise" /\ q[i].update = u
<1> DEFINE S == PendingOf(a, p)
           R == Revisions(a, p)
           q == SetToSeq(R)
           c == Cardinality(R)
           f == [e \in S |-> [phase |-> "Revise", pointer |-> p, update |-> e.update]]
<1>1. S \subseteq a.pending /\ a.pending \subseteq Estimate
  BY AdapterParts DEF PendingOf
<1>2. IsFiniteSet(S)
  BY <1>1, FS_Subset
<1>3. f \in Surjection(S, R)
  BY DEF Surjection, Revisions
<1>4. IsFiniteSet(R)
  <2> HIDE DEF S, R, f
  <2>. QED
    BY <1>2, <1>3, FS_Surjection
<1>5. \A x \in R : /\ x \in StylusEvent /\ x.phase = "Revise" /\ x.pointer = p
                   /\ \E e \in a.pending : x.update = e.update
  BY <1>1 DEF Revisions, StylusEvent, Estimate
<1>6. \A u \in Nat : Pending(p, u) \in a.pending =>
         \E x \in R : x.pointer = p /\ x.phase = "Revise" /\ x.update = u
  <2>1. ASSUME NEW u \in Nat, Pending(p, u) \in a.pending
        PROVE  \E x \in R : x.pointer = p /\ x.phase = "Revise" /\ x.update = u
    <3> DEFINE x == [phase |-> "Revise", pointer |-> p, update |-> u]
    <3>1. Pending(p, u) \in S /\ Pending(p, u).update = u
      BY <2>1, PendingIs DEF PendingOf
    <3>2. x \in R
      BY <3>1 DEF Revisions
    <3>. QED
      BY <3>2
  <2>. QED
    BY <2>1
<1> HIDE DEF R, S
<1>7. c \in Nat /\ q \in [1 .. c -> R] /\ \A x \in R : \E i \in 1 .. c : q[i] = x
  BY <1>4, SetToSeqIs
<1> HIDE DEF q, c
<1>8. q \in [1 .. c -> StylusEvent] /\ DOMAIN q = 1 .. c
  BY <1>5, <1>7
<1>9. q \in Queue /\ Len(q) = c
  BY <1>7, <1>8 DEF Queue
<1>10. \A i \in 1 .. c : q[i] \in R
  BY <1>7
<1>11. \A i \in 1 .. c : /\ q[i].phase = "Revise" /\ q[i].pointer = p
                         /\ \E e \in a.pending : q[i].update = e.update
  BY <1>5, <1>10
<1>12. \A u \in Nat : Pending(p, u) \in a.pending =>
          \E i \in 1 .. c : q[i].pointer = p /\ q[i].phase = "Revise" /\ q[i].update = u
  BY <1>6, <1>7
<1>13. /\ q \in Queue /\ Len(q) \in Nat
       /\ \A i \in 1 .. Len(q) : /\ q[i].phase = "Revise" /\ q[i].pointer = p
                                 /\ \E e \in a.pending : q[i].update = e.update
       /\ \A u \in Nat : Pending(p, u) \in a.pending =>
             \E i \in 1 .. Len(q) : q[i].pointer = p /\ q[i].phase = "Revise" /\ q[i].update = u
  BY <1>7, <1>9, <1>11, <1>12
<1>. QED
  BY <1>13 DEF q, R

\* The estimates of a pointer are revised. None is left.
LEMMA RevisionsKeep ==
    ASSUME NEW a, NEW s, NEW held, Whole(a, s, held), NEW p \in Nat, p < a.nextPointer
    PROVE  LET b == EmitRevisions(a, p)
           IN  /\ Whole(b, s, held) /\ b \in AdapterState
               /\ b.mouseDown = a.mouseDown /\ b.touches = a.touches /\ b.pens = a.pens
               /\ b.activePen = a.activePen /\ b.nextPointer = a.nextPointer
               /\ \A e \in b.pending : e.pointer # p
<1> DEFINE z == SetToSeq(Revisions(a, p))
           d == a.pending \ PendingOf(a, p)
           c == [a EXCEPT !.pending = d]
           x == a.queue \o z
           b == [c EXCEPT !.queue = x]
<1>1. /\ a \in AdapterState /\ a.nextPointer >= 1 /\ a.nextUpdate >= 1 /\ Slots(a) /\ InHand(a, held)
      /\ a.nextPointer \in Nat /\ a.nextUpdate \in Nat /\ a.queue \in Queue /\ a.pending \subseteq Estimate
      /\ After(a.queue, Tracked(a), a.pending, s, a.nextPointer, a.nextUpdate, 0)
  BY AdapterParts DEF Whole
<1>2. EmitRevisions(a, p) = b
  <2>1. TakePending(a, p) = c
    BY DEF TakePending
  <2>2. EmitRevisions(a, p) = [TakePending(a, p) EXCEPT !.queue = @ \o z]
    BY DEF EmitRevisions, Revisions
  <2>3. c.queue = a.queue
    BY <1>1 DEF AdapterState
  <2> HIDE DEF z, c
  <2>. QED
    BY <2>1, <2>2, <2>3
<1>3. IsFiniteSet(a.pending)
  BY <1>1 DEF Slots
<1>4. /\ z \in Queue /\ Len(z) \in Nat
      /\ \A i \in 1 .. Len(z) : /\ z[i].phase = "Revise" /\ z[i].pointer = p
                                /\ \E e \in a.pending : z[i].update = e.update
      /\ \A u \in Nat : Pending(p, u) \in a.pending =>
            \E i \in 1 .. Len(z) : z[i].pointer = p /\ z[i].phase = "Revise" /\ z[i].update = u
  BY <1>1, <1>3, RevisionsAre
<1> HIDE DEF z
<1>5. d \in SUBSET Estimate /\ d \subseteq a.pending
  BY <1>1
<1>6. \A e \in a.pending : e.pointer # p => e \in d
  BY DEF PendingOf
<1>7. \A e \in d : e.pointer # p
  BY DEF PendingOf
<1> HIDE DEF d
<1>8. Fields(c, a.queue, a.mouseDown, a.touches, a.pens, a.activePen, d, a.nextPointer, a.nextUpdate)
  BY <1>1, <1>5, AdapterUpdates
<1>9. x \in Queue
  BY <1>1, <1>4 DEF Queue
<1> HIDE DEF c, x
<1>10. Fields(b, x, c.mouseDown, c.touches, c.pens, c.activePen, c.pending, c.nextPointer, c.nextUpdate)
  BY <1>8, <1>9, AdapterUpdates DEF Fields
<1> HIDE DEF b
<1>11. /\ b \in AdapterState /\ b.queue = x /\ b.mouseDown = a.mouseDown
       /\ b.touches = a.touches /\ b.pens = a.pens /\ b.activePen = a.activePen
       /\ b.pending = d /\ b.nextPointer = a.nextPointer /\ b.nextUpdate = a.nextUpdate
  BY <1>8, <1>10 DEF Fields
<1>12. Slots(b)
  <2>1. Touching(b) = Touching(a)
    BY <1>11 DEF Touching
  <2>2. IsFiniteSet(d)
    BY <1>3, <1>5, FS_Subset
  <2>. QED
    BY <1>1, <1>5, <1>11, <2>1, <2>2 DEF Slots
<1>13. InHand(b, held)
  BY <1>1, <1>5, <1>11 DEF InHand
<1>14. Tracked(b) = Tracked(a)
  BY <1>11 DEF Tracked
<1> DEFINE q == a.queue
<1>15. q \in Queue /\ Len(q) \in Nat
  BY <1>1 DEF Queue
<1>16. /\ Len(x) = Len(q) + Len(z)
       /\ \A i \in 1 .. Len(q) : x[i] = q[i]
       /\ \A i \in 1 .. Len(z) : x[Len(q) + i] = z[i]
  BY <1>4, <1>15 DEF Queue, x
<1> HIDE DEF q
<1>17. Extends(q, x)
  BY <1>4, <1>9, <1>15, <1>16 DEF Extends
<1>18. \A i \in Added(q, x) : /\ x[i].phase = "Revise" /\ x[i].pointer = p
                              /\ \E e \in a.pending : x[i].update = e.update
  <2>1. ASSUME NEW i \in Added(q, x) PROVE i - Len(q) \in 1 .. Len(z) /\ Len(q) + (i - Len(q)) = i
    BY <1>4, <1>15, <1>16 DEF Added
  <2>2. ASSUME NEW i \in Added(q, x) PROVE x[i] = z[i - Len(q)]
    BY <1>16, <2>1
  <2>. QED
    BY <1>4, <2>1, <2>2
<1>19. \A u \in Nat : Pending(p, u) \in a.pending => \E i \in Added(q, x) : Settles(x[i], p, u)
  <2>1. ASSUME NEW i \in 1 .. Len(z) PROVE Len(q) + i \in Added(q, x) /\ x[Len(q) + i] = z[i]
    BY <1>4, <1>15, <1>16 DEF Added
  <2>2. ASSUME NEW u \in Nat, Pending(p, u) \in a.pending PROVE \E i \in Added(q, x) : Settles(x[i], p, u)
    <3>1. PICK i \in 1 .. Len(z) : z[i].pointer = p /\ z[i].phase = "Revise" /\ z[i].update = u
      BY <1>4, <2>2
    <3>2. Len(q) + i \in Added(q, x) /\ Settles(x[Len(q) + i], p, u)
      BY <2>1, <3>1 DEF Settles
    <3>. QED
      BY <3>2
  <2>. QED
    BY <2>2
<1>20. \A y \in Nat : FitsGesture(q, x, Tracked(a), Tracked(b), y)
  BY <1>14, <1>18 DEF FitsGesture, Starts
<1>21. \A y \in Nat : FitsEstimates(q, x, a.pending, d, y)
  <2>1. ASSUME NEW y \in Nat, NEW u \in Nat, Pending(y, u) \in a.pending
        PROVE  Pending(y, u) \in d \/ \E i \in Added(q, x) : Settles(x[i], y, u)
    <3>1. CASE y = p
      BY <1>19, <2>1, <3>1
    <3>2. CASE y # p
      <4>1. Pending(y, u).pointer # p
        BY <3>2, PendingIs
      <4>. QED
        BY <1>6, <2>1, <4>1
    <3>. QED
      BY <3>1, <3>2
  <2>2. \A y : \A i \in Added(q, x) : ~Lifts(x[i], y)
    BY <1>18 DEF Lifts
  <2>. QED
    BY <2>1, <2>2 DEF FitsEstimates
<1>22. \A i \in Added(q, x) :
          /\ x[i].pointer < a.nextPointer /\ x[i].update < a.nextUpdate
          /\ x[i].phase = "Down" =>
                /\ i = Len(x)
                /\ x[i].pointer \in Tracked(b)
                /\ x[i].update # 0 => Pending(x[i].pointer, x[i].update) \in d
  <2>1. \A e \in a.pending : e.update < a.nextUpdate
    BY <1>1 DEF Slots
  <2>. QED
    BY <1>18, <2>1
<1>23. After(x, Tracked(b), d, s, a.nextPointer, a.nextUpdate, 0)
  <2> DEFINE T == Tracked(a)
             U == Tracked(b)
             D == a.pending
             n == a.nextPointer
             m == a.nextUpdate
  <2>1. After(q, T, D, s, n, m, 0) /\ n \in Nat /\ m \in Nat
    BY <1>1 DEF q
  <2>2. \A y \in 0 .. (n - 1) : FitsGesture(q, x, T, U, y) /\ (OnePen => FitsEstimates(q, x, D, d, y))
    BY <1>20, <1>21
  <2>3. \A i \in Added(q, x) :
           /\ x[i].pointer < n /\ x[i].update < m
           /\ x[i].phase = "Down" =>
                 /\ i = Len(x)
                 /\ x[i].pointer \in U
                 /\ x[i].update # 0 => Pending(x[i].pointer, x[i].update) \in d
    BY <1>22
  <2>4. n <= n /\ m <= m
    BY <2>1
  <2> HIDE DEF T, U, D, n, m
  <2>5. After(x, U, d, s, n, m, 0)
    BY <1>17, <2>1, <2>2, <2>3, <2>4, AfterGrows
  <2>. QED
    BY <2>5 DEF U, n, m
<1>24. Whole(b, s, held)
  BY <1>1, <1>11, <1>12, <1>13, <1>23 DEF Whole
<1>25. EmitRevisions(a, p) = b
  BY <1>2 DEF b, c, x
<1>. QED
  BY <1>7, <1>11, <1>24, <1>25

LEMMA PenReleasedIs ==
    ASSUME NEW a \in AdapterState, NEW pen \in Pens
    PROVE  LET t == [a.pens EXCEPT ![pen] = NoPointer]
               y == IF a.activePen = a.pens[pen] THEN NoPointer ELSE a.activePen
           IN  Fields(PenReleased(a, pen), a.queue, a.mouseDown, a.touches, t, y, a.pending,
                      a.nextPointer, a.nextUpdate)
<1> DEFINE t == [a.pens EXCEPT ![pen] = NoPointer]
           y == IF a.activePen = a.pens[pen] THEN NoPointer ELSE a.activePen
           a1 == [a EXCEPT !.pens = t]
           a2 == [a1 EXCEPT !.activePen = y]
<1>1. PenReleased(a, pen) = a2
  BY DEF PenReleased, AdapterState
<1>2. NoPointer \in Int
  BY DEF NoPointer
<1>3. t \in [Pens -> Int] /\ y \in Int
  BY <1>2, AdapterParts, PensUpdate
<1> HIDE DEF t, y, a1, a2
<1>4. Fields(a1, a.queue, a.mouseDown, a.touches, t, a.activePen, a.pending, a.nextPointer, a.nextUpdate)
  BY <1>3, AdapterUpdates DEF a1
<1>5. Fields(a2, a1.queue, a1.mouseDown, a1.touches, a1.pens, y, a1.pending, a1.nextPointer, a1.nextUpdate)
  BY <1>3, <1>4, AdapterUpdates DEF a2, Fields
<1>6. Fields(a2, a.queue, a.mouseDown, a.touches, t, y, a.pending, a.nextPointer, a.nextUpdate)
  BY <1>4, <1>5 DEF Fields
<1>. QED
  BY <1>1, <1>6 DEF t, y

\* A pen's stroke ends: lifted, with its estimates revised, or cancelled.
LEMMA PenEndKeeps ==
    ASSUME NEW a, NEW s, NEW held, Whole(a, s, held), NEW pen \in Pens, a.pens[pen] # NoPointer,
           NEW phase \in {"Up", "Cancel"}, NEW b, NEW d,
           phase = "Up" => \A e \in a.pending : e.pointer # a.pens[pen],
           d = a.pending \ PendingOf(a, a.pens[pen]),
           Fields(b, Append(a.queue, Event(phase, a.pens[pen], 0)), a.mouseDown, a.touches,
                  [a.pens EXCEPT ![pen] = NoPointer],
                  IF a.activePen = a.pens[pen] THEN NoPointer ELSE a.activePen, d,
                  a.nextPointer, a.nextUpdate)
    PROVE  Whole(b, s, held \ {pen})
<1> DEFINE n == a.pens[pen]
           t == [a.pens EXCEPT ![pen] = NoPointer]
           y == IF a.activePen = n THEN NoPointer ELSE a.activePen
           e == Event(phase, n, 0)
           h == held \ {pen}
<1>1. /\ a \in AdapterState /\ a.nextPointer >= 1 /\ a.nextUpdate >= 1 /\ Slots(a) /\ InHand(a, held)
      /\ a.nextPointer \in Nat /\ a.nextUpdate \in Nat /\ a.pens \in [Pens -> Int] /\ a.pending \subseteq Estimate
  BY AdapterParts DEF Whole
<1>2. n \in 1 .. (a.nextPointer - 1) /\ n \in Nat
  BY <1>1 DEF Slots
<1>3. phase \in {"Down", "Move", "Up", "Cancel", "Revise"}
  OBVIOUS
<1>4. e \in StylusEvent /\ e.phase = phase /\ e.pointer = n /\ e.update = 0
  BY <1>2, <1>3, EventIs
<1>5. t \in [Pens -> Int] /\ t[pen] = NoPointer /\ \A g \in Pens : g # pen => t[g] = a.pens[g]
  <2>1. NoPointer \in Int
    BY DEF NoPointer
  <2>. QED
    BY <1>1, <2>1, PensUpdate
<1>6. y = NoPointer \/ (y = a.activePen /\ y # n)
  OBVIOUS
<1>7. d \subseteq a.pending /\ (\A x \in a.pending : x.pointer # n => x \in d) /\ (\A x \in d : x.pointer # n)
  BY DEF PendingOf
<1>8. phase = "Up" => \A x \in a.pending : x.pointer # n
  OBVIOUS
<1>9. n # NoPointer /\ n = a.pens[pen]
  OBVIOUS
<1> HIDE DEF t, y, e, n
<1>10. /\ b \in AdapterState /\ b.queue = Append(a.queue, e) /\ b.mouseDown = a.mouseDown
       /\ b.touches = a.touches /\ b.pens = t /\ b.activePen = y
       /\ b.pending = d /\ b.nextPointer = a.nextPointer /\ b.nextUpdate = a.nextUpdate
  BY DEF Fields, t, y, e, n
<1>11. Slots(b)
  <2>1. \A g \in Pens : b.pens[g] = NoPointer \/ b.pens[g] = a.pens[g]
    BY <1>5, <1>10
  <2>2. b.activePen # NoPointer => \E p \in Pens : b.pens[p] = b.activePen
    <3>1. SUFFICES ASSUME b.activePen # NoPointer PROVE \E p \in Pens : b.pens[p] = b.activePen
      OBVIOUS
    <3>2. y = a.activePen /\ y # n /\ b.activePen = y
      BY <1>6, <1>10, <3>1
    <3>3. PICK p \in Pens : a.pens[p] = a.activePen
      BY <1>1, <3>1, <3>2 DEF Slots
    <3>4. p # pen
      BY <1>9, <3>2, <3>3
    <3>. QED
      BY <1>5, <1>10, <3>2, <3>3, <3>4
  <2>3. Touching(b) = Touching(a)
    BY <1>10 DEF Touching
  <2>4. IsFiniteSet(b.pending)
    BY <1>1, <1>7, <1>10, FS_Subset DEF Slots
  <2>. QED
    BY <1>1, <1>7, <1>10, <2>1, <2>2, <2>3, <2>4 DEF Slots
<1>12. InHand(b, h)
  <2>1. \A f \in Fingers : b.touches[f] # NoPointer => f \in h
    <3>1. \A f \in Fingers : f # pen
      BY DevicesAssumption
    <3>. QED
      BY <1>1, <1>10, <3>1 DEF InHand
  <2>2. ASSUME OnePen
        PROVE  /\ \A p \in Pens : b.pens[p] # NoPointer => p \in h /\ b.activePen = b.pens[p]
               /\ \A x \in b.pending : \E p \in Pens : b.pens[p] = x.pointer
    <3>1. \A p \in Pens : p = pen
      BY <2>2 DEF OnePen
    <3>2. \A x \in a.pending : x.pointer = n
      BY <1>1, <1>9, <2>2, <3>1 DEF InHand
    <3>3. d = {}
      BY <1>7, <3>2
    <3>. QED
      BY <1>5, <1>10, <3>1, <3>3
  <2>. QED
    BY <2>1, <2>2 DEF InHand
<1>13. \A p \in Tracked(a) : p = n \/ p \in Tracked(b)
  BY <1>5, <1>9, <1>10 DEF Tracked
<1>14. \A p \in 0 .. (a.nextPointer - 1) :
          /\ Kept(p) /\ p \in Tracked(a) => p \in Tracked(b) \/ Ends(e, p)
          /\ Starts(e, p) => Kept(p) /\ p \notin Tracked(a)
          /\ OnePen => \A u \in Nat : Pending(p, u) \in a.pending =>
                          (Pending(p, u) \in b.pending \/ Settles(e, p, u)) /\ ~Lifts(e, p)
  <2>1. \A p : ~Starts(e, p) /\ (Ends(e, p) <=> p = n)
    BY <1>4, PhaseIs
  <2>2. \A p : p # n => ~Lifts(e, p)
    BY <1>4 DEF Lifts
  <2>3. ASSUME NEW p \in 0 .. (a.nextPointer - 1), NEW u \in Nat, Pending(p, u) \in a.pending
        PROVE  (Pending(p, u) \in b.pending \/ Settles(e, p, u)) /\ ~Lifts(e, p)
    <3>1. Pending(p, u).pointer = p
      BY DEF Pending
    <3>2. CASE p = n
      <4>1. phase = "Cancel"
        BY <1>8, <2>3, <3>1, <3>2
      <4>. QED
        BY <1>4, <3>2, <4>1 DEF Settles, Lifts
    <3>3. CASE p # n
      BY <1>7, <1>10, <2>2, <2>3, <3>1, <3>3
    <3>. QED
      BY <3>2, <3>3
  <2>. QED
    BY <1>13, <2>1, <2>3
<1>15. /\ a.nextPointer <= b.nextPointer /\ a.nextUpdate <= b.nextUpdate
       /\ e.pointer < b.nextPointer /\ e.update < b.nextUpdate /\ e.phase # "Down"
  BY <1>1, <1>2, <1>4, <1>10
<1> HIDE DEF h
<1>16. Whole(b, s, h)
  BY <1>4, <1>10, <1>11, <1>12, <1>14, <1>15, WholeAppend
<1>. QED
  BY <1>16 DEF h

\* It lifts.
LEMMA PenUpKeeps ==
    ASSUME NEW a, NEW s, NEW held, Whole(a, s, held), NEW pen \in Pens, a.pens[pen] # NoPointer,
           \A e \in a.pending : e.pointer # a.pens[pen]
    PROVE  LET b == PenReleased(Emit(a, "Up", a.pens[pen]), pen)
           IN  Whole(b, s, held \ {pen}) /\ b.mouseDown = a.mouseDown
<1> DEFINE up == "Up"
           n == a.pens[pen]
           x == Append(a.queue, Event(up, n, 0))
           c == Emit(a, up, n)
           b == PenReleased(c, pen)
           d == a.pending
<1>1. /\ a \in AdapterState /\ a.nextPointer >= 1 /\ Slots(a) /\ a.nextPointer \in Nat
  BY AdapterParts DEF Whole
<1>2. n \in Nat
  BY <1>1 DEF Slots
<1>3. up \in {"Down", "Move", "Up", "Cancel"} /\ up \in {"Up", "Cancel"}
  OBVIOUS
<1> HIDE DEF up
<1>4. Fields(c, x, a.mouseDown, a.touches, a.pens, a.activePen, a.pending, a.nextPointer, a.nextUpdate)
  BY <1>1, <1>2, <1>3, EmitIs
<1> HIDE DEF c
<1>5. Fields(b, c.queue, c.mouseDown, c.touches, [c.pens EXCEPT ![pen] = NoPointer],
             IF c.activePen = c.pens[pen] THEN NoPointer ELSE c.activePen, c.pending,
             c.nextPointer, c.nextUpdate)
  BY <1>4, PenReleasedIs DEF Fields
<1> HIDE DEF b
<1>6. /\ c.queue = x /\ c.mouseDown = a.mouseDown /\ c.touches = a.touches /\ c.pens = a.pens
      /\ c.activePen = a.activePen /\ c.pending = a.pending
      /\ c.nextPointer = a.nextPointer /\ c.nextUpdate = a.nextUpdate
  BY <1>4 DEF Fields
<1>7. Fields(b, x, a.mouseDown, a.touches, [a.pens EXCEPT ![pen] = NoPointer],
             IF a.activePen = a.pens[pen] THEN NoPointer ELSE a.activePen, d,
             a.nextPointer, a.nextUpdate)
  BY <1>5, <1>6
<1>8. d = a.pending \ PendingOf(a, n)
  BY DEF PendingOf
<1>9. up = "Up" => \A e \in a.pending : e.pointer # a.pens[pen]
  OBVIOUS
<1>10. Whole(b, s, held \ {pen})
  <2> HIDE DEF d
  <2>. QED
    BY <1>3, <1>7, <1>8, <1>9, PenEndKeeps
<1>11. b.mouseDown = a.mouseDown
  BY <1>7 DEF Fields
<1>. QED
  BY <1>10, <1>11 DEF b, c, up

\* The adapter cancels it.
LEMMA PenCancelKeeps ==
    ASSUME NEW a, NEW s, NEW held, Whole(a, s, held), NEW pen \in Pens, a.pens[pen] # NoPointer
    PROVE  LET b == CancelPen(a, pen)
           IN  /\ Whole(b, s, held \ {pen}) /\ b \in AdapterState /\ b.mouseDown = a.mouseDown
               /\ b.touches = a.touches /\ b.pens[pen] = NoPointer
               /\ b.activePen = IF a.activePen = a.pens[pen] THEN NoPointer ELSE a.activePen
<1> DEFINE cancel == "Cancel"
           n == a.pens[pen]
           x == Append(a.queue, Event(cancel, n, 0))
           c == Emit(a, cancel, n)
           d == a.pending \ PendingOf(a, n)
           w == [c EXCEPT !.pending = d]
           b == PenReleased(w, pen)
<1>1. /\ a \in AdapterState /\ a.nextPointer >= 1 /\ Slots(a) /\ a.nextPointer \in Nat
      /\ a.pending \subseteq Estimate /\ a.pens \in [Pens -> Int]
  BY AdapterParts DEF Whole
<1>2. n \in Nat
  BY <1>1 DEF Slots
<1>3. cancel \in {"Down", "Move", "Up", "Cancel"} /\ cancel \in {"Up", "Cancel"} /\ cancel # "Up"
  OBVIOUS
<1> HIDE DEF cancel
<1>4. Fields(c, x, a.mouseDown, a.touches, a.pens, a.activePen, a.pending, a.nextPointer, a.nextUpdate)
  BY <1>1, <1>2, <1>3, EmitIs
<1>5. CancelPen(a, pen) = b
  <2>1. c.pending \ PendingOf(c, n) = d
    <3> HIDE DEF c
    <3>. QED
      BY <1>4 DEF PendingOf, Fields
  <2>2. CancelPen(a, pen) = PenReleased([c EXCEPT !.pending = c.pending \ PendingOf(c, n)], pen)
    BY DEF CancelPen, TakePending, cancel
  <2> HIDE DEF c, d
  <2>. QED
    BY <2>1, <2>2
<1>6. d \in SUBSET Estimate
  BY <1>1
<1> HIDE DEF c, d
<1>7. c \in AdapterState /\ c.queue = x /\ c.mouseDown = a.mouseDown /\ c.touches = a.touches /\ c.pens = a.pens
      /\ c.activePen = a.activePen /\ c.nextPointer = a.nextPointer /\ c.nextUpdate = a.nextUpdate
  BY <1>4 DEF Fields
<1>8. Fields(w, c.queue, c.mouseDown, c.touches, c.pens, c.activePen, d, c.nextPointer, c.nextUpdate)
  BY <1>6, <1>7, AdapterUpdates
<1> HIDE DEF w
<1>9. w \in AdapterState /\ w.queue = x /\ w.mouseDown = a.mouseDown /\ w.touches = a.touches /\ w.pens = a.pens
      /\ w.activePen = a.activePen /\ w.pending = d /\ w.nextPointer = a.nextPointer /\ w.nextUpdate = a.nextUpdate
  BY <1>7, <1>8 DEF Fields
<1>10. Fields(b, w.queue, w.mouseDown, w.touches, [w.pens EXCEPT ![pen] = NoPointer],
             IF w.activePen = w.pens[pen] THEN NoPointer ELSE w.activePen, w.pending,
             w.nextPointer, w.nextUpdate)
  BY <1>9, PenReleasedIs
<1> HIDE DEF b
<1>11. Fields(b, x, a.mouseDown, a.touches, [a.pens EXCEPT ![pen] = NoPointer],
             IF a.activePen = a.pens[pen] THEN NoPointer ELSE a.activePen, d,
             a.nextPointer, a.nextUpdate)
  BY <1>9, <1>10
<1>12. d = a.pending \ PendingOf(a, n)
  BY DEF d
<1>13. cancel = "Up" => \A e \in a.pending : e.pointer # a.pens[pen]
  BY <1>3
<1>14. Whole(b, s, held \ {pen})
  BY <1>3, <1>11, <1>12, <1>13, PenEndKeeps
<1>15. /\ b \in AdapterState /\ b.mouseDown = a.mouseDown
       /\ b.touches = a.touches /\ b.pens = [a.pens EXCEPT ![pen] = NoPointer]
       /\ b.activePen = IF a.activePen = a.pens[pen] THEN NoPointer ELSE a.activePen
  BY <1>11 DEF Fields
<1>16. b.pens[pen] = NoPointer
  BY <1>1, <1>15
<1>. QED
  BY <1>5, <1>14, <1>15, <1>16

(***************************************************************************)
(* The adapter's handlers, whatever they are called with.                  *)
(***************************************************************************)
\* What is pressed matters only where something has a pointer.
LEMMA HeldIs ==
    ASSUME NEW a, NEW s, NEW held, NEW held2, Whole(a, s, held),
           \A x \in held : \/ x \in held2
                           \/ /\ x \in Fingers => a.touches[x] = NoPointer
                              /\ x \in Pens => a.pens[x] = NoPointer
    PROVE  Whole(a, s, held2)
<1>1. InHand(a, held)
  BY DEF Whole
<1>2. \A f \in Fingers : a.touches[f] # NoPointer => f \in held2
  BY <1>1 DEF InHand
<1>3. OnePen => \A p \in Pens : a.pens[p] # NoPointer => p \in held2 /\ a.activePen = a.pens[p]
  BY <1>1 DEF InHand
<1>4. InHand(a, held2)
  BY <1>1, <1>2, <1>3 DEF InHand
<1>. QED
  BY <1>4 DEF Whole

LEMMA PointerOfPen ==
    ASSUME NEW a, NEW s, NEW held, Whole(a, s, held), NEW pen \in Pens, a.pens[pen] # NoPointer
    PROVE  a.pens[pen] \in Nat /\ a.pens[pen] < a.nextPointer
<1>1. a.nextPointer \in Nat /\ a.pens[pen] \in 1 .. (a.nextPointer - 1)
  BY AdapterParts DEF Whole, Slots
<1>. QED
  BY <1>1

LEMMA PenMoveKeeps ==
    ASSUME NEW a, NEW s, NEW held, Whole(a, s, held), NEW pen \in Pens, NEW native \in BOOLEAN
    PROVE  LET b == HandleMacRaw(a, pen, "Move", native)
           IN  Whole(b, s, held) /\ b.mouseDown = a.mouseDown
<1> DEFINE n == a.pens[pen]
           r == EmitRevisions(a, n)
           b == HandleMacRaw(a, pen, "Move", native)
<1>1. CASE n = NoPointer
  <2>1. b = a
    BY <1>1 DEF HandleMacRaw
  <2>. QED
    BY <2>1
<1>2. CASE n # NoPointer
  <2>1. n \in Nat /\ n < a.nextPointer
    BY <1>2, PointerOfPen
  <2>2. b = IF native THEN r ELSE Emit(r, "Move", n)
    BY <1>2 DEF HandleMacRaw
  <2> HIDE DEF n, b
  <2>3. Whole(r, s, held) /\ r.mouseDown = a.mouseDown /\ r.nextPointer = a.nextPointer
    BY <2>1, RevisionsKeep
  <2> HIDE DEF r
  <2>4. Whole(Emit(r, "Move", n), s, held) /\ Emit(r, "Move", n).mouseDown = r.mouseDown
    BY <2>1, <2>3, MoveKeeps DEF Fields
  <2>5. CASE native
    BY <2>2, <2>3, <2>5 DEF b
  <2>6. CASE ~native
    <3>1. b = Emit(r, "Move", n)
      BY <2>2, <2>6
    <3>. QED
      BY <2>3, <2>4, <3>1 DEF b
  <2>. QED
    BY <2>5, <2>6
<1>. QED
  BY <1>1, <1>2

LEMMA PenLiftKeeps ==
    ASSUME NEW a, NEW s, NEW held, Whole(a, s, held), NEW pen \in Pens
    PROVE  LET b == HandleMacRaw(a, pen, "Up", FALSE)
           IN  Whole(b, s, held \ {pen}) /\ b.mouseDown = a.mouseDown
<1> DEFINE n == a.pens[pen]
           r == EmitRevisions(a, n)
           b == HandleMacRaw(a, pen, "Up", FALSE)
           c == PenReleased(Emit(r, "Up", n), pen)
<1>1. CASE n = NoPointer
  <2>1. b = a
    BY <1>1 DEF HandleMacRaw
  <2>2. \A x \in held : x \in held \ {pen} \/ x = pen
    OBVIOUS
  <2>3. pen \notin Fingers /\ a.pens[pen] = NoPointer
    BY <1>1, DevicesAssumption
  <2>4. Whole(a, s, held \ {pen})
    <3> DEFINE h == held \ {pen}
    <3>1. \A x \in held : \/ x \in h
                          \/ /\ x \in Fingers => a.touches[x] = NoPointer
                             /\ x \in Pens => a.pens[x] = NoPointer
      BY <2>3
    <3> HIDE DEF h
    <3>2. Whole(a, s, h)
      BY <3>1, HeldIs
    <3>. QED
      BY <3>2 DEF h
  <2>. QED
    BY <2>1, <2>4
<1>2. CASE n # NoPointer
  <2>1. n \in Nat /\ n < a.nextPointer
    BY <1>2, PointerOfPen
  <2>2. b = c
    BY <1>2 DEF HandleMacRaw
  <2>3. n = a.pens[pen]
    OBVIOUS
  <2> HIDE DEF n, b
  <2>4. /\ Whole(r, s, held) /\ r.mouseDown = a.mouseDown /\ r.pens = a.pens
        /\ \A e \in r.pending : e.pointer # n
    BY <2>1, RevisionsKeep
  <2>5. r.pens[pen] = n
    BY <2>3, <2>4
  <2> HIDE DEF r
  <2>6. Whole(c, s, held \ {pen}) /\ c.mouseDown = r.mouseDown
    <3>1. LET x == PenReleased(Emit(r, "Up", r.pens[pen]), pen)
          IN  Whole(x, s, held \ {pen}) /\ x.mouseDown = r.mouseDown
      BY <1>2, <2>4, <2>5, PenUpKeeps
    <3>. QED
      BY <2>5, <3>1
  <2>7. Whole(b, s, held \ {pen}) /\ b.mouseDown = a.mouseDown
    BY <2>2, <2>4, <2>6
  <2>. QED
    BY <2>7 DEF b
<1>. QED
  BY <1>1, <1>2

LEMMA PenLeavesKeeps ==
    ASSUME NEW a, NEW s, NEW held, Whole(a, s, held), NEW pen \in Pens
    PROVE  LET b == HandleMacProximity(a, pen, FALSE)
           IN  Whole(b, s, held \ {pen}) /\ b.mouseDown = a.mouseDown
<1> DEFINE b == HandleMacProximity(a, pen, FALSE)
           h == held \ {pen}
<1>1. CASE a.pens[pen] = NoPointer
  <2>1. b = a
    BY <1>1 DEF HandleMacProximity
  <2>2. \A x \in held : \/ x \in h
                        \/ /\ x \in Fingers => a.touches[x] = NoPointer
                           /\ x \in Pens => a.pens[x] = NoPointer
    BY <1>1, DevicesAssumption
  <2> HIDE DEF h, b
  <2>3. Whole(a, s, h)
    BY <2>2, HeldIs
  <2>. QED
    BY <2>1, <2>3 DEF h, b
<1>2. CASE a.pens[pen] # NoPointer
  <2>1. b = CancelPen(a, pen)
    BY <1>2 DEF HandleMacProximity
  <2> HIDE DEF b
  <2>2. Whole(CancelPen(a, pen), s, held \ {pen}) /\ CancelPen(a, pen).mouseDown = a.mouseDown
    BY <1>2, PenCancelKeeps
  <2>. QED
    BY <2>1, <2>2 DEF b
<1>. QED
  BY <1>1, <1>2

LEMMA CursorKeeps ==
    ASSUME NEW a, NEW s, NEW held, Whole(a, s, held)
    PROVE  LET b == OnCursorMoved(a)
           IN  Whole(b, s, held) /\ b.mouseDown = a.mouseDown
<1>1. a \in AdapterState /\ a.nextPointer >= 1 /\ a.nextPointer \in Nat
  BY AdapterParts DEF Whole
<1>2. Mouse \in Nat /\ Mouse < a.nextPointer
  BY <1>1 DEF Mouse
<1> DEFINE c == Emit(a, "Move", Mouse)
<1>3. Whole(c, s, held) /\ c.mouseDown = a.mouseDown
  BY <1>2, MoveKeeps DEF Fields
<1>4. OnCursorMoved(a) = IF a.activePen = NoPointer /\ a.mouseDown THEN c ELSE a
  BY DEF OnCursorMoved
<1> HIDE DEF c
<1>. QED
  BY <1>3, <1>4

\* The mouse's button does nothing while a pen draws.
LEMMA ButtonKeeps ==
    ASSUME NEW a, NEW s, NEW held, Whole(a, s, held), NEW left \in BOOLEAN, NEW down \in BOOLEAN
    PROVE  LET b == OnMouseButton(a, left, down)
           IN  Whole(b, s, held) /\ (~a.mouseDown /\ b.mouseDown => down /\ a.activePen = NoPointer)
<1> DEFINE phase == IF down THEN "Down" ELSE "Up"
           c == Emit([a EXCEPT !.mouseDown = down], phase, Mouse)
           b == OnMouseButton(a, left, down)
<1>1. b = IF a.activePen # NoPointer \/ ~left \/ a.mouseDown = down THEN a ELSE c
  BY DEF OnMouseButton
<1>2. phase \in {"Down", "Up", "Cancel"} /\ (down <=> phase = "Down")
  OBVIOUS
<1> HIDE DEF phase, b
<1>3. CASE a.activePen # NoPointer \/ ~left \/ a.mouseDown = down
  BY <1>1, <1>3 DEF b
<1>4. CASE ~(a.activePen # NoPointer \/ ~left \/ a.mouseDown = down)
  <2>1. b = c /\ a.activePen = NoPointer /\ a.mouseDown # down
    BY <1>1, <1>4
  <2>2. Whole(c, s, held) /\ c.mouseDown = down
    BY <1>2, <2>1, MouseKeeps DEF Fields
  <2> HIDE DEF c
  <2>3. Whole(b, s, held) /\ (~a.mouseDown /\ b.mouseDown => down /\ a.activePen = NoPointer)
    BY <2>1, <2>2
  <2>. QED
    BY <2>3 DEF b
<1>. QED
  BY <1>3, <1>4

LEMMA FingerKeeps ==
    ASSUME NEW a, NEW s, NEW held, Whole(a, s, held), NEW f \in Fingers, NEW phase \in Phase,
           phase = "Down" => f \notin held
    PROVE  LET b == OnTouch(a, f, phase)
               h == IF phase = "Down" THEN held \cup {f} ELSE IF phase = "Move" THEN held ELSE held \ {f}
           IN  Whole(b, s, h) /\ b.mouseDown = a.mouseDown
<1> DEFINE b == OnTouch(a, f, phase)
           n == a.touches[f]
<1>1. CASE phase = "Down"
  BY <1>1, TouchDownKeeps
<1>2. CASE phase = "Move"
  <2>1. CASE n = NoPointer
    <3>1. b = a
      BY <1>2, <2>1 DEF OnTouch
    <3>. QED
      BY <1>2, <3>1
  <2>2. CASE n # NoPointer
    <3>1. b = Emit(a, "Move", n)
      BY <1>2, <2>2 DEF OnTouch
    <3>2. n \in Nat /\ n < a.nextPointer
      <4>1. a.nextPointer \in Nat /\ n \in 1 .. (a.nextPointer - 1)
        BY <2>2, AdapterParts DEF Whole, Slots
      <4>. QED
        BY <4>1
    <3> HIDE DEF n
    <3>3. Whole(Emit(a, "Move", n), s, held) /\ Emit(a, "Move", n).mouseDown = a.mouseDown
      BY <3>2, MoveKeeps DEF Fields
    <3>. QED
      BY <1>2, <3>1, <3>3
  <2>. QED
    BY <2>1, <2>2
<1>3. CASE phase \in {"Up", "Cancel"}
  <2> DEFINE h == held \ {f}
  <2>1. f \notin Pens
    BY DevicesAssumption
  <2>2. CASE n = NoPointer
    <3>1. b = a
      BY <1>3, <2>2 DEF OnTouch
    <3>2. \A x \in held : \/ x \in h
                          \/ /\ x \in Fingers => a.touches[x] = NoPointer
                             /\ x \in Pens => a.pens[x] = NoPointer
      BY <2>1, <2>2
    <3> HIDE DEF h, b
    <3>3. Whole(a, s, h)
      BY <3>2, HeldIs
    <3>. QED
      BY <1>3, <3>1, <3>3 DEF h, b
  <2>3. CASE n # NoPointer
    <3>1. Whole(b, s, held) /\ b.mouseDown = a.mouseDown /\ b.touches[f] = NoPointer
      BY <1>3, <2>3, TouchEndKeeps
    <3>2. \A x \in held : \/ x \in h
                          \/ /\ x \in Fingers => b.touches[x] = NoPointer
                             /\ x \in Pens => b.pens[x] = NoPointer
      BY <2>1, <3>1
    <3> HIDE DEF h, b
    <3>3. Whole(b, s, h)
      BY <3>1, <3>2, HeldIs
    <3>. QED
      BY <1>3, <3>1, <3>3 DEF h, b
  <2>. QED
    BY <2>2, <2>3
<1>. QED
  BY <1>1, <1>2, <1>3 DEF Phase

(***************************************************************************)
(* Focus is lost.                                                          *)
(***************************************************************************)
LEMMA CancelMouseKeeps ==
    ASSUME NEW a, NEW s, NEW held, Whole(a, s, held)
    PROVE  LET b == CancelMouse(a)
           IN  /\ Whole(b, s, held) /\ b.mouseDown = FALSE
               /\ b.touches = a.touches /\ b.pens = a.pens /\ b.activePen = a.activePen
<1> DEFINE cancel == "Cancel"
           up == FALSE
           c == Emit([a EXCEPT !.mouseDown = up], cancel, Mouse)
           b == CancelMouse(a)
<1>1. b = IF a.mouseDown THEN c ELSE a
  BY DEF CancelMouse
<1>2. a.mouseDown \in BOOLEAN
  BY AdapterParts DEF Whole
<1>3. up \in BOOLEAN /\ cancel \in {"Down", "Up", "Cancel"} /\ (up <=> cancel = "Down") /\ up = FALSE
  OBVIOUS
<1> HIDE DEF b
<1>4. CASE a.mouseDown
  <2>1. a.mouseDown # up
    BY <1>2, <1>3, <1>4
  <2> HIDE DEF up, cancel
  <2>2. /\ Whole(c, s, held) /\ c.mouseDown = up
        /\ c.touches = a.touches /\ c.pens = a.pens /\ c.activePen = a.activePen
    BY <1>3, <2>1, MouseKeeps DEF Fields
  <2>3. b = c
    BY <1>1, <1>4
  <2>. QED
    BY <1>3, <2>2, <2>3 DEF b
<1>5. CASE ~a.mouseDown
  <2>1. b = a
    BY <1>1, <1>5
  <2>. QED
    BY <1>2, <1>5, <2>1 DEF b
<1>. QED
  BY <1>4, <1>5

LEMMA CancelActivePenKeeps ==
    ASSUME NEW a, NEW s, NEW held, Whole(a, s, held)
    PROVE  LET b == CancelActivePen(a)
           IN  /\ Whole(b, s, held) /\ b.mouseDown = a.mouseDown
               /\ b.touches = a.touches /\ b.activePen = NoPointer
<1> DEFINE drawing == {p \in Pens : a.activePen # NoPointer /\ a.pens[p] = a.activePen}
           pen == CHOOSE p \in drawing : TRUE
           c == IF drawing = {} THEN a ELSE CancelPen(a, pen)
           b == [c EXCEPT !.activePen = NoPointer]
<1>1. CancelActivePen(a) = b
  BY DEF CancelActivePen
<1>2. /\ Whole(c, s, held) /\ c.mouseDown = a.mouseDown
      /\ c.touches = a.touches /\ c.activePen = NoPointer
  <2>1. CASE drawing = {}
    <3>1. a.activePen = NoPointer
      BY <2>1 DEF Whole, Slots
    <3>2. c = a
      BY <2>1
    <3>. QED
      BY <3>1, <3>2
  <2>2. CASE drawing # {}
    <3>1. pen \in Pens /\ a.activePen # NoPointer /\ a.pens[pen] = a.activePen
      BY <2>2
    <3>2. c = CancelPen(a, pen)
      BY <2>2
    <3> HIDE DEF pen, c
    <3>3. /\ Whole(CancelPen(a, pen), s, held \ {pen}) /\ CancelPen(a, pen).mouseDown = a.mouseDown
          /\ CancelPen(a, pen).touches = a.touches /\ CancelPen(a, pen).activePen = NoPointer
      BY <3>1, PenCancelKeeps
    <3> DEFINE h == held \ {pen}
    <3>4. \A x \in h : \/ x \in held
                       \/ /\ x \in Fingers => c.touches[x] = NoPointer
                          /\ x \in Pens => c.pens[x] = NoPointer
      OBVIOUS
    <3>5. Whole(c, s, h)
      BY <3>2, <3>3
    <3> HIDE DEF h
    <3>6. Whole(c, s, held)
      BY <3>4, <3>5, HeldIs
    <3>. QED
      BY <3>2, <3>3, <3>6
  <2>. QED
    BY <2>1, <2>2
<1> HIDE DEF c
<1>3. b = c
  <2>1. c \in AdapterState
    BY <1>2 DEF Whole
  <2>. QED
    BY <1>2, <2>1 DEF AdapterState
<1>. QED
  BY <1>1, <1>2, <1>3

\* The loop over the touches. What is not in Chrome tells LoopStep apart.
LEMMA TouchLoop ==
    ASSUME NEW seq, Len(seq) \in Nat, DOMAIN seq = 1 .. Len(seq), NEW c, c \notin Chrome, NEW base
    PROVE  \E g : /\ Folded(c, base, seq, Len(seq), g)
                  /\ FoldLeft(LAMBDA b, f : OnTouch(b, f, "Cancel"), base, seq) = g[1 .. Len(seq)]
<1> DEFINE v == FoldLeft(LAMBDA b, f : OnTouch(b, f, "Cancel"), base, seq)
           S == DOMAIN seq
           step(b, f) == OnTouch(b, f, "Cancel")
           next(g, s) == IF s = {} THEN base ELSE LET i == Max(s) IN step(g[s \ {i}], seq[i])
           folded(g) == g = [s \in SUBSET S |-> next(g, s)]
           r == CHOOSE g : folded(g)
<1>1. v = r[S]
  BY Zenon DEF FoldLeft, MapThenFoldSet
<1>2. S = 1 .. Len(seq) /\ Len(seq) \in Nat
  OBVIOUS
<1>3. \A x, y : LoopStep(c, x, y) = step(x, y)
  BY DEF LoopStep
<1> HIDE DEF step, v, S
<1>4. \A g, s : LoopTo(c, base, seq, g, s) = next(g, s)
  BY <1>3 DEF LoopTo
<1>5. \A g : folded(g) => Folded(c, base, seq, Len(seq), g)
  <2> HIDE DEF next
  <2>. QED
    BY <1>2, <1>4 DEF Folded
<1>6. \A g : Folded(c, base, seq, Len(seq), g) => folded(g)
  <2> HIDE DEF next
  <2>. QED
    BY <1>2, <1>4 DEF Folded
<1>7. \E g : folded(g)
  BY <1>2, <1>6, FoldExists
<1> HIDE DEF folded
<1>8. folded(r)
  BY <1>7
<1> HIDE DEF r
<1>9. Folded(c, base, seq, Len(seq), r) /\ v = r[1 .. Len(seq)]
  BY <1>1, <1>2, <1>5, <1>8
<1>. QED
  BY <1>9 DEF v

\* Adapter x is a with the touches of the first k of q cancelled.
Cancelled(a, x, s, held, q, k) ==
    /\ Whole(x, s, held) /\ x.mouseDown = a.mouseDown /\ x.activePen = a.activePen
    /\ \A f \in Fingers : x.touches[f] = NoPointer \/ x.touches[f] = a.touches[f]
    /\ \A j \in 1 .. k : x.touches[q[j]] = NoPointer

LEMMA CancelTouchesKeep ==
    ASSUME NEW a, NEW s, NEW held, Whole(a, s, held)
    PROVE  LET b == CancelTouches(a)
           IN  /\ Whole(b, s, held) /\ b.mouseDown = a.mouseDown /\ b.activePen = a.activePen
               /\ \A f \in Fingers : b.touches[f] = NoPointer
<1> DEFINE T == Touching(a)
           n == Cardinality(T)
           q == SetToSeq(T)
           v == FoldLeft(LAMBDA b, f : OnTouch(b, f, "Cancel"), a, q)
           c == [over |-> FALSE, claimed |-> TRUE, consumed |-> FALSE]
<1>1. CancelTouches(a) = v
  BY DEF CancelTouches, Touching
<1>2. IsFiniteSet(T) /\ T \subseteq Fingers
  BY DEF Whole, Slots, Touching
<1>3. c \notin Chrome
  BY DEF Chrome
<1>4. \A f \in Fingers : a.touches[f] # NoPointer => f \in T
  BY DEF Touching
<1> HIDE DEF T, c
<1>5. n \in Nat /\ q \in [1 .. n -> T] /\ \A f \in T : \E i \in 1 .. n : q[i] = f
  BY <1>2, SetToSeqIs
<1> HIDE DEF q, n
<1>6. DOMAIN q = 1 .. n /\ Len(q) = n /\ \A i \in 1 .. n : q[i] \in Fingers
  BY <1>2, <1>5
<1>7. PICK g : Folded(c, a, q, Len(q), g) /\ v = g[1 .. Len(q)]
  <2>1. Len(q) \in Nat /\ DOMAIN q = 1 .. Len(q)
    BY <1>5, <1>6
  <2>. QED
    BY <1>3, <2>1, TouchLoop
<1> HIDE DEF v
<1>8. /\ g[1 .. 0] = a
      /\ \A k \in 0 .. (n - 1) : g[1 .. (k + 1)] = OnTouch(g[1 .. k], q[k + 1], "Cancel")
  <2>1. Len(q) \in Nat
    BY <1>5, <1>6
  <2>2. /\ g[1 .. 0] = a
        /\ \A k \in 0 .. (Len(q) - 1) : g[1 .. (k + 1)] = LoopStep(c, g[1 .. k], q[k + 1])
    BY <1>7, <2>1, FoldSteps
  <2>3. \A x, y : LoopStep(c, x, y) = OnTouch(x, y, "Cancel")
    BY <1>3 DEF LoopStep
  <2>. QED
    BY <1>6, <2>2, <2>3
<1> DEFINE at(k) == g[1 .. k]
           T0 == {k \in 0 .. n : ~Cancelled(a, at(k), s, held, q, k)}
<1>9. at(0) = a /\ \A k \in 0 .. (n - 1) : at(k + 1) = OnTouch(at(k), q[k + 1], "Cancel")
  BY <1>8
<1>10. v = at(n)
  BY <1>6, <1>7
<1> HIDE DEF at
<1>11. Cancelled(a, at(0), s, held, q, 0)
  <2>1. 1 .. 0 = {}
    OBVIOUS
  <2>. QED
    BY <1>9, <2>1 DEF Cancelled
<1>12. ASSUME NEW k \in 0 .. (n - 1), Cancelled(a, at(k), s, held, q, k)
       PROVE  Cancelled(a, at(k + 1), s, held, q, k + 1)
  <2> DEFINE x == at(k)
             f == q[k + 1]
             y == OnTouch(x, f, "Cancel")
  <2>1. f \in Fingers /\ at(k + 1) = y
    <3>1. k + 1 \in 1 .. n
      BY <1>5
    <3>. QED
      BY <1>6, <1>9, <3>1
  <2>2. /\ Whole(x, s, held) /\ x.mouseDown = a.mouseDown /\ x.activePen = a.activePen
        /\ \A i \in Fingers : x.touches[i] = NoPointer \/ x.touches[i] = a.touches[i]
        /\ \A j \in 1 .. k : x.touches[q[j]] = NoPointer
    BY <1>12 DEF Cancelled
  <2>3. /\ Whole(y, s, held) /\ y.mouseDown = x.mouseDown /\ y.activePen = x.activePen
        /\ y.touches[f] = NoPointer /\ \A i \in Fingers : i # f => y.touches[i] = x.touches[i]
    <3> HIDE DEF x, f
    <3>1. CASE x.touches[f] = NoPointer
      <4>1. y = x
        BY <3>1 DEF OnTouch
      <4>. QED
        BY <2>2, <3>1, <4>1
    <3>2. CASE x.touches[f] # NoPointer
      BY <2>1, <2>2, <3>2, TouchEndKeeps
    <3>. QED
      BY <3>1, <3>2
  <2>4. \A j \in 1 .. (k + 1) : j \in 1 .. k \/ j = k + 1
    OBVIOUS
  <2>5. \A j \in 1 .. (k + 1) : q[j] \in Fingers
    BY <1>5, <1>6
  <2>6. q[k + 1] = f
    OBVIOUS
  <2> HIDE DEF x, f, y
  <2>7. \A j \in 1 .. (k + 1) : y.touches[q[j]] = NoPointer
    BY <2>2, <2>3, <2>4, <2>5, <2>6
  <2>8. \A i \in Fingers : y.touches[i] = NoPointer \/ y.touches[i] = a.touches[i]
    BY <2>2, <2>3
  <2>. QED
    BY <2>1, <2>2, <2>3, <2>7, <2>8 DEF Cancelled
<1>13. T0 = {}
  <2>1. SUFFICES ASSUME T0 # {} PROVE FALSE
    OBVIOUS
  <2>2. PICK k \in T0 : \A y \in T0 : k <= y
    <3>1. T0 \subseteq Nat
      BY <1>5
    <3> HIDE DEF T0
    <3>. QED
      BY <2>1, <3>1, LeastOfNat
  <2>3. k \in 0 .. n /\ ~Cancelled(a, at(k), s, held, q, k)
    OBVIOUS
  <2>4. k # 0
    BY <1>11, <2>3
  <2>5. k - 1 \in 0 .. n /\ k - 1 \in 0 .. (n - 1) /\ (k - 1) + 1 = k /\ ~(k <= k - 1)
    BY <1>5, <2>3, <2>4
  <2>6. Cancelled(a, at(k - 1), s, held, q, k - 1)
    BY <2>2, <2>5
  <2>7. Cancelled(a, at((k - 1) + 1), s, held, q, (k - 1) + 1)
    BY <1>12, <2>5, <2>6
  <2>. QED
    BY <2>3, <2>5, <2>7
<1>14. Cancelled(a, v, s, held, q, n)
  BY <1>5, <1>10, <1>13
<1>15. \A f \in Fingers : v.touches[f] = NoPointer
  BY <1>4, <1>5, <1>14 DEF Cancelled
<1>. QED
  BY <1>1, <1>14, <1>15 DEF Cancelled

\* Nothing is left that is tracked, but for the pens that did not draw last.
LEMMA FocusLostKeeps ==
    ASSUME NEW a, NEW s, NEW held, Whole(a, s, held), NEW held2
    PROVE  LET b == OnFocusLost(a)
           IN  /\ Whole(b, s, held2) /\ ~b.mouseDown
               /\ \A f \in Fingers : b.touches[f] = NoPointer
               /\ OnePen => \A p \in Pens : b.pens[p] = NoPointer
<1> DEFINE a1 == CancelMouse(a)
           a2 == CancelActivePen(a1)
           a3 == CancelTouches(a2)
           b == [a3 EXCEPT !.pending = {}]
<1>1. OnFocusLost(a) = b
  BY DEF OnFocusLost
<1>2. Whole(a1, s, held) /\ a1.mouseDown = FALSE
  BY CancelMouseKeeps
<1> HIDE DEF a1
<1>3. Whole(a2, s, held) /\ a2.mouseDown = FALSE /\ a2.activePen = NoPointer
  BY <1>2, CancelActivePenKeeps
<1> HIDE DEF a2
<1>4. /\ Whole(a3, s, held) /\ a3.mouseDown = FALSE /\ a3.activePen = NoPointer
      /\ \A f \in Fingers : a3.touches[f] = NoPointer
  BY <1>3, CancelTouchesKeep
<1> HIDE DEF a3
<1>5. /\ a3 \in AdapterState /\ a3.nextPointer >= 1 /\ a3.nextUpdate >= 1 /\ Slots(a3) /\ InHand(a3, held)
      /\ a3.nextPointer \in Nat /\ a3.nextUpdate \in Nat
      /\ After(a3.queue, Tracked(a3), a3.pending, s, a3.nextPointer, a3.nextUpdate, 0)
  BY <1>4, AdapterParts DEF Whole
<1>6. OnePen => (\A p \in Pens : a3.pens[p] = NoPointer) /\ a3.pending = {}
  <2>1. OnePen => \A p \in Pens : a3.pens[p] = NoPointer
    BY <1>4, <1>5 DEF InHand
  <2>2. \A e \in a3.pending : e.pointer # NoPointer
    BY <1>5 DEF Slots, NoPointer
  <2>. QED
    BY <1>5, <2>1, <2>2 DEF InHand
<1>7. {} \in SUBSET Estimate
  OBVIOUS
<1>8. Fields(b, a3.queue, a3.mouseDown, a3.touches, a3.pens, a3.activePen, {}, a3.nextPointer, a3.nextUpdate)
  BY <1>5, <1>7, AdapterUpdates
<1> HIDE DEF b
<1>9. /\ b \in AdapterState /\ b.queue = a3.queue /\ b.mouseDown = a3.mouseDown
      /\ b.touches = a3.touches /\ b.pens = a3.pens /\ b.activePen = a3.activePen
      /\ b.pending = {} /\ b.nextPointer = a3.nextPointer /\ b.nextUpdate = a3.nextUpdate
  BY <1>8 DEF Fields
<1>10. Slots(b)
  <2>1. Touching(b) = Touching(a3)
    BY <1>9 DEF Touching
  <2>2. IsFiniteSet(b.pending)
    BY <1>9, FS_EmptySet
  <2>. QED
    BY <1>5, <1>9, <2>1, <2>2 DEF Slots
<1>11. InHand(b, held2)
  BY <1>4, <1>6, <1>9 DEF InHand
<1>12. Tracked(b) = Tracked(a3)
  BY <1>9 DEF Tracked
<1>13. After(a3.queue, Tracked(a3), {}, s, a3.nextPointer, a3.nextUpdate, 0)
  <2> DEFINE T == Tracked(a3)
             D == a3.pending
             E == {}
             n == a3.nextPointer
             m == a3.nextUpdate
  <2>1. After(a3.queue, T, D, s, n, m, 0) /\ n \in Nat /\ m \in Nat
    BY <1>5
  <2>2. (\A p \in 0 .. (n - 1) : p \in T => p \in T) /\ (OnePen => D \subseteq E)
    BY <1>6
  <2> HIDE DEF T, D, E, n, m
  <2>3. After(a3.queue, T, E, s, n, m, 0)
    BY <2>1, <2>2, AfterSame
  <2>. QED
    BY <2>3 DEF T, E, n, m
<1>14. Whole(b, s, held2)
  BY <1>5, <1>9, <1>10, <1>11, <1>12, <1>13 DEF Whole
<1>. QED
  BY <1>1, <1>4, <1>6, <1>9, <1>14

(***************************************************************************)
(* route_input and the actions.                                            *)
(***************************************************************************)
Handled(t, q, chrome) == FoldLeft(LAMBDA s, e : OnStylusEvent(s, e, chrome), t, q)

LEMMA QueueIsEmptied ==
    ASSUME NEW a, NEW t, NEW held, Whole(a, t, held), NEW c \in Chrome
    PROVE  LET b == [a EXCEPT !.queue = << >>]
           IN  Whole(b, Handled(t, a.queue, c), held) /\ b.mouseDown = a.mouseDown
<1> DEFINE e == << >>
           b == [a EXCEPT !.queue = e]
           v == Handled(t, a.queue, c)
<1>1. /\ a \in AdapterState /\ a.nextPointer >= 1 /\ a.nextUpdate >= 1 /\ Slots(a) /\ InHand(a, held)
      /\ a.nextPointer \in Nat /\ a.nextUpdate \in Nat
      /\ After(a.queue, Tracked(a), a.pending, t, a.nextPointer, a.nextUpdate, 0)
  BY AdapterParts DEF Whole
<1>2. e \in Queue
  BY DEF Queue
<1>3. After(e, Tracked(a), a.pending, v, a.nextPointer, a.nextUpdate, 0)
  <2> DEFINE T == Tracked(a)
             D == a.pending
             n == a.nextPointer
             m == a.nextUpdate
             q == a.queue
             w == FoldLeft(LAMBDA s, f : OnStylusEvent(s, f, c), t, q)
  <2>1. After(q, T, D, t, n, m, 0) /\ n \in Nat /\ m \in Nat
    BY <1>1
  <2>2. w = v
    BY DEF Handled
  <2> HIDE DEF T, D, n, m, q, v
  <2>3. After(q, T, D, w, n, m, Len(q))
    BY <2>1, QueueIsHandled
  <2> HIDE DEF w
  <2>4. After(<< >>, T, D, w, n, m, 0)
    BY <2>1, <2>3, EmptyQueue
  <2>5. After(e, T, D, v, n, m, 0)
    BY <2>2, <2>4
  <2>. QED
    BY <2>5 DEF T, D, n, m
<1> HIDE DEF e, v
<1>4. Fields(b, e, a.mouseDown, a.touches, a.pens, a.activePen, a.pending, a.nextPointer, a.nextUpdate)
  BY <1>1, <1>2, AdapterUpdates
<1> HIDE DEF b
<1>5. /\ b \in AdapterState /\ b.queue = e /\ b.mouseDown = a.mouseDown
      /\ b.touches = a.touches /\ b.pens = a.pens /\ b.activePen = a.activePen
      /\ b.pending = a.pending /\ b.nextPointer = a.nextPointer /\ b.nextUpdate = a.nextUpdate
  BY <1>4 DEF Fields
<1>6. Slots(b) /\ InHand(b, held)
  BY <1>1, <1>5, SlotsStay
<1>7. Tracked(b) = Tracked(a)
  BY <1>5 DEF Tracked
<1>8. Whole(b, v, held)
  BY <1>1, <1>3, <1>5, <1>6, <1>7 DEF Whole
<1>. QED
  BY <1>5, <1>8 DEF b, e, v

LEMMA Routes ==
    ASSUME NEW a, NEW event, NEW chrome, RouteInput(a, event, chrome)
    PROVE  \/ ~IsTracking(a) /\ adapter' = a /\ app' = app
           \/ /\ adapter' = [OnWindowEvent(a, event) EXCEPT !.queue = << >>]
              /\ app' = Handled(app, OnWindowEvent(a, event).queue, chrome)
<1> DEFINE fed == OnWindowEvent(a, event)
           gated == (chrome.consumed \/ chrome.over) /\ ~IsTracking(a)
           v == FoldLeft(LAMBDA s, e : OnStylusEvent(s, e, chrome), app, fed.queue)
<1>1. IF gated THEN adapter' = a /\ UNCHANGED app
               ELSE adapter' = [fed EXCEPT !.queue = << >>] /\ app' = v /\ Bounded
  BY Zenon DEF RouteInput
<1>2. v = Handled(app, fed.queue, chrome)
  BY DEF Handled
<1> HIDE DEF v, fed
<1>3. \/ gated /\ adapter' = a /\ app' = app
      \/ adapter' = [fed EXCEPT !.queue = << >>] /\ app' = v
  BY <1>1
<1>. QED
  BY <1>2, <1>3 DEF fed

LEMMA RouteKeeps ==
    ASSUME NEW a, NEW event, NEW chrome \in Chrome, NEW held, RouteInput(a, event, chrome),
           Whole(OnWindowEvent(a, event), app, held),
           ~IsTracking(a) => Whole(a, app, held)
    PROVE  /\ Whole(adapter', app', held)
           /\ adapter'.mouseDown = a.mouseDown \/ adapter'.mouseDown = OnWindowEvent(a, event).mouseDown
<1> DEFINE fed == OnWindowEvent(a, event)
           b == [fed EXCEPT !.queue = << >>]
           v == Handled(app, fed.queue, chrome)
<1>1. (~IsTracking(a) /\ adapter' = a /\ app' = app) \/ (adapter' = b /\ app' = v)
  BY Routes
<1>2. Whole(fed, app, held)
  OBVIOUS
<1> HIDE DEF fed
<1>3. Whole(b, v, held) /\ b.mouseDown = fed.mouseDown
  BY <1>2, QueueIsEmptied
<1> HIDE DEF b, v
<1>4. CASE ~IsTracking(a) /\ adapter' = a /\ app' = app
  <2>1. Whole(a, app, held)
    BY <1>4
  <2>. QED
    BY <1>4, <2>1
<1>5. CASE adapter' = b /\ app' = v
  <2>1. Whole(adapter', app', held) /\ adapter'.mouseDown = fed.mouseDown
    BY <1>3, <1>5
  <2>. QED
    BY <2>1 DEF fed
<1>. QED
  BY <1>1, <1>4, <1>5

LEMMA WindowEvents ==
    ASSUME NEW a
    PROVE  /\ OnWindowEvent(a, [type |-> "CursorMoved"]) = OnCursorMoved(a)
           /\ OnWindowEvent(a, [type |-> "CursorLeft"]) = a
           /\ \A left, down : OnWindowEvent(a, [type |-> "MouseInput", left |-> left, pressed |-> down])
                                 = OnMouseButton(a, left, down)
           /\ \A f, phase : OnWindowEvent(a, [type |-> "Touch", finger |-> f, phase |-> phase])
                                 = OnTouch(a, f, phase)
<1>1. OnWindowEvent(a, [type |-> "CursorMoved"]) = OnCursorMoved(a)
  BY DEF OnWindowEvent
<1>2. OnWindowEvent(a, [type |-> "CursorLeft"]) = a
  BY DEF OnWindowEvent
<1>3. ASSUME NEW left, NEW down
      PROVE  OnWindowEvent(a, [type |-> "MouseInput", left |-> left, pressed |-> down])
                = OnMouseButton(a, left, down)
  BY DEF OnWindowEvent
<1>4. ASSUME NEW f, NEW phase
      PROVE  OnWindowEvent(a, [type |-> "Touch", finger |-> f, phase |-> phase]) = OnTouch(a, f, phase)
  BY DEF OnWindowEvent
<1>. QED
  BY <1>1, <1>2, <1>3, <1>4

(***************************************************************************)
(* The invariant.                                                          *)
(***************************************************************************)
AppInv == Whole(adapter, app, pressed) /\ pressed \subseteq Fingers \cup Pens \cup {LeftButton}

\* The mouse goes down only when the user presses its button.
MouseStep == ~adapter.mouseDown /\ adapter'.mouseDown => LeftButton \in pressed' \ pressed

LEMMA InitIsWhole ==
    ASSUME Init
    PROVE  AppInv
<1> DEFINE e == << >>
           none == {}
           t == [f \in Fingers |-> NoPointer]
           p == [x \in Pens |-> NoPointer]
           s == [active |-> NoActive, suppressed |-> none, strokes |-> e]
           n == NoPointer
           f == FALSE
           a == [queue |-> e, mouseDown |-> f, touches |-> t, pens |-> p, activePen |-> n,
                 pending |-> none, nextPointer |-> 1, nextUpdate |-> 1]
<1>1. adapter = a /\ app = s /\ pressed = none
  BY DEF Init, NewAdapter
<1>2. e \in Queue /\ Len(e) = 0 /\ e \in Seq(StrokeState)
  BY DEF Queue
<1>3. /\ t \in [Fingers -> Int] /\ \A x \in Fingers : t[x] = NoPointer
      /\ p \in [Pens -> Int] /\ \A x \in Pens : p[x] = NoPointer
      /\ n \in Int
  BY DEF NoPointer
<1>4. none \in SUBSET Estimate /\ none \in SUBSET Nat /\ IsFiniteSet(none) /\ 1 \in Nat /\ f \in BOOLEAN /\ ~f
  BY FS_EmptySet
<1>5. \A x : x \notin none
  OBVIOUS
<1>6. n = NoPointer
  OBVIOUS
<1> HIDE DEF e, t, p, none, f, n
<1>7. Fields(a, e, f, t, p, n, none, 1, 1)
  BY <1>2, <1>3, <1>4 DEF Fields, AdapterState
<1>8. s \in AppState /\ s.active = NoActive /\ s.suppressed = none /\ s.strokes = e
  BY <1>2, <1>4, NothingIsActive DEF AppState
<1> HIDE DEF a, s
<1>9. /\ a \in AdapterState /\ a.queue = e /\ a.mouseDown = f /\ a.touches = t /\ a.pens = p /\ a.activePen = n
      /\ a.pending = none /\ a.nextPointer = 1 /\ a.nextUpdate = 1
  BY <1>7 DEF Fields
<1>10. Slots(a)
  <2>1. Touching(a) = none
    BY <1>3, <1>5, <1>9 DEF Touching
  <2>. QED
    BY <1>3, <1>4, <1>5, <1>6, <1>9, <2>1 DEF Slots
<1>11. InHand(a, none)
  BY <1>3, <1>5, <1>9 DEF InHand
<1>12. After(e, Tracked(a), none, s, 1, 1, 0)
  <2>1. 1 .. Len(e) = {} /\ (0 + 1) .. Len(e) = {} /\ Len(s.strokes) = 0 /\ 1 .. Len(s.strokes) = {}
    BY <1>2, <1>8
  <2>2. QueueOK(e, 1, 1) /\ QueueAhead(e, Tracked(a), none, 0)
    BY <1>2, <2>1 DEF QueueOK, QueueAhead
  <2>3. Held(s, 1) /\ Drawn(s, 1)
    BY <1>5, <1>8, <2>1 DEF Held, Drawn
  <2>4. Claimed(s) = {} /\ Estimates(s) = {}
    BY <1>5, <1>8, NothingIsActive DEF Claimed, Estimates
  <2>5. AppAhead(e, Tracked(a), none, s, 0)
    BY <2>4 DEF AppAhead
  <2>. QED
    BY <1>8, <2>2, <2>3, <2>5 DEF After, AppOK
<1>13. Whole(a, s, none)
  BY <1>9, <1>10, <1>11, <1>12 DEF Whole
<1>. QED
  BY <1>1, <1>5, <1>13 DEF AppInv

LEMMA CursorActions ==
    ASSUME AppInv, NEW chrome \in Chrome, CursorMoves(chrome) \/ CursorLeaves(chrome)
    PROVE  AppInv' /\ MouseStep
<1>1. Whole(adapter, app, pressed) /\ pressed' = pressed
  BY DEF AppInv, CursorMoves, CursorLeaves
<1>2. CASE CursorMoves(chrome)
  <2> DEFINE e == [type |-> "CursorMoved"]
  <2>1. RouteInput(adapter, e, chrome)
    BY <1>2 DEF CursorMoves
  <2>2. OnWindowEvent(adapter, e) = OnCursorMoved(adapter)
    BY WindowEvents
  <2>3. Whole(OnCursorMoved(adapter), app, pressed) /\ OnCursorMoved(adapter).mouseDown = adapter.mouseDown
    BY <1>1, CursorKeeps
  <2> HIDE DEF e
  <2>4. Whole(OnWindowEvent(adapter, e), app, pressed)
    BY <2>2, <2>3
  <2>5. /\ Whole(adapter', app', pressed)
        /\ adapter'.mouseDown = adapter.mouseDown \/ adapter'.mouseDown = OnWindowEvent(adapter, e).mouseDown
    BY <1>1, <2>1, <2>4, RouteKeeps
  <2>. QED
    BY <1>1, <2>2, <2>3, <2>5 DEF AppInv, MouseStep
<1>3. CASE CursorLeaves(chrome)
  <2> DEFINE e == [type |-> "CursorLeft"]
  <2>1. RouteInput(adapter, e, chrome)
    BY <1>3 DEF CursorLeaves
  <2>2. OnWindowEvent(adapter, e) = adapter
    BY WindowEvents
  <2> HIDE DEF e
  <2>3. Whole(OnWindowEvent(adapter, e), app, pressed)
    BY <1>1, <2>2
  <2>4. /\ Whole(adapter', app', pressed)
        /\ adapter'.mouseDown = adapter.mouseDown \/ adapter'.mouseDown = OnWindowEvent(adapter, e).mouseDown
    BY <1>1, <2>1, <2>3, RouteKeeps
  <2>. QED
    BY <1>1, <2>2, <2>4 DEF AppInv, MouseStep
<1>. QED
  BY <1>2, <1>3

\* The left button is no finger and no pen.
LEMMA ButtonIsFree ==
    ASSUME NEW a, NEW s, NEW held, Whole(a, s, held)
    PROVE  Whole(a, s, held \cup {LeftButton}) /\ Whole(a, s, held \ {LeftButton})
<1> DEFINE h == held \cup {LeftButton}
           k == held \ {LeftButton}
<1>1. \A x \in held : x \in h
  OBVIOUS
<1>2. \A x \in held : x \in k \/ (x \notin Fingers /\ x \notin Pens)
  BY DevicesAssumption
<1> HIDE DEF h, k
<1>3. Whole(a, s, h)
  BY <1>1, HeldIs
<1>4. Whole(a, s, k)
  BY <1>2, HeldIs
<1>. QED
  BY <1>3, <1>4 DEF h, k

LEMMA MouseActions ==
    ASSUME AppInv, NEW chrome \in Chrome, MouseDown(chrome) \/ MouseUp(chrome)
    PROVE  AppInv' /\ MouseStep
<1>1. Whole(adapter, app, pressed) /\ pressed \subseteq Fingers \cup Pens \cup {LeftButton}
  BY DEF AppInv
<1>2. PICK down \in BOOLEAN :
         /\ down => LeftButton \notin pressed /\ pressed' = pressed \cup {LeftButton}
         /\ ~down => pressed' = pressed \ {LeftButton}
         /\ RouteInput(adapter, [type |-> "MouseInput", left |-> TRUE, pressed |-> down], chrome)
  BY DEF MouseDown, MouseUp
<1> DEFINE left == TRUE
           e == [type |-> "MouseInput", left |-> left, pressed |-> down]
           b == OnMouseButton(adapter, left, down)
<1>3. RouteInput(adapter, e, chrome) /\ left \in BOOLEAN
  BY <1>2
<1>4. OnWindowEvent(adapter, e) = b
  BY WindowEvents
<1> HIDE DEF left, e
<1>5. Whole(b, app, pressed) /\ (~adapter.mouseDown /\ b.mouseDown => down)
  BY <1>1, <1>3, ButtonKeeps
<1> HIDE DEF b
<1>6. Whole(b, app, pressed') /\ Whole(adapter, app, pressed')
  BY <1>1, <1>2, <1>5, ButtonIsFree
<1>7. Whole(OnWindowEvent(adapter, e), app, pressed')
  BY <1>4, <1>6
<1>8. /\ Whole(adapter', app', pressed')
      /\ adapter'.mouseDown = adapter.mouseDown \/ adapter'.mouseDown = OnWindowEvent(adapter, e).mouseDown
  BY <1>3, <1>6, <1>7, RouteKeeps
<1>9. MouseStep
  BY <1>2, <1>4, <1>5, <1>8 DEF MouseStep
<1>10. pressed' \subseteq Fingers \cup Pens \cup {LeftButton}
  BY <1>1, <1>2
<1>. QED
  BY <1>8, <1>9, <1>10 DEF AppInv

LEMMA TouchAction ==
    ASSUME AppInv, NEW chrome \in Chrome, NEW f \in Fingers, NEW phase \in Phase, Touch(f, phase, chrome)
    PROVE  AppInv' /\ MouseStep
<1> DEFINE h == IF phase = "Down" THEN pressed \cup {f} ELSE IF phase = "Move" THEN pressed ELSE pressed \ {f}
           e == [type |-> "Touch", finger |-> f, phase |-> phase]
           b == OnTouch(adapter, f, phase)
<1>1. Whole(adapter, app, pressed) /\ pressed \subseteq Fingers \cup Pens \cup {LeftButton}
  BY DEF AppInv
<1>2. (phase = "Down" => f \notin pressed) /\ RouteInput(adapter, e, chrome)
  BY DEF Touch
<1>3. pressed' = h
  <2>1. pressed' = CASE phase = "Down" -> pressed \cup {f}
                     [] phase = "Move" -> pressed
                     [] OTHER          -> pressed \ {f}
    BY DEF Touch
  <2>. QED
    BY <2>1
<1>4. OnWindowEvent(adapter, e) = b
  BY WindowEvents
<1>5. Whole(b, app, h) /\ b.mouseDown = adapter.mouseDown
  BY <1>1, <1>2, FingerKeeps
<1>6. ~IsTracking(adapter) => Whole(adapter, app, h)
  <2>1. SUFFICES ASSUME ~IsTracking(adapter) PROVE Whole(adapter, app, h)
    OBVIOUS
  <2>2. adapter.touches[f] = NoPointer /\ f \notin Pens
    BY <2>1, DevicesAssumption DEF IsTracking
  <2>3. \A x \in pressed : x \in h \/ x = f
    OBVIOUS
  <2>4. \A x \in pressed : \/ x \in h
                           \/ /\ x \in Fingers => adapter.touches[x] = NoPointer
                              /\ x \in Pens => adapter.pens[x] = NoPointer
    BY <2>2, <2>3
  <2> HIDE DEF h
  <2>. QED
    BY <1>1, <2>4, HeldIs
<1>7. h \subseteq Fingers \cup Pens \cup {LeftButton}
  BY <1>1
<1> HIDE DEF h, e, b
<1>8. Whole(OnWindowEvent(adapter, e), app, h)
  BY <1>4, <1>5
<1>9. /\ Whole(adapter', app', h)
      /\ adapter'.mouseDown = adapter.mouseDown \/ adapter'.mouseDown = OnWindowEvent(adapter, e).mouseDown
  BY <1>2, <1>6, <1>8, RouteKeeps
<1>. QED
  BY <1>3, <1>4, <1>5, <1>7, <1>9 DEF AppInv, MouseStep

\* A pen event is seen twice: the adapter b after the monitor's half is what
\* winit's half starts from.
LEMMA PenActions ==
    ASSUME AppInv, NEW chrome \in Chrome, NEW pen \in Pens,
           PenTouches(pen, chrome) \/ PenLifts(pen, chrome) \/ PenMoves(pen, chrome)
    PROVE  AppInv' /\ MouseStep
<1>1. Whole(adapter, app, pressed) /\ pressed \subseteq Fingers \cup Pens \cup {LeftButton}
  BY DEF AppInv
<1>2. CASE PenTouches(pen, chrome)
  <2> DEFINE b == PenDown(adapter, pen)
             h == pressed \cup {pen}
             left == TRUE
             e == [type |-> "MouseInput", left |-> left, pressed |-> left]
  <2>1. HandleMacRaw(adapter, pen, "Down", FALSE) = b
    BY DEF HandleMacRaw
  <2>2. pen \notin pressed /\ RouteInput(b, e, chrome) /\ pressed' = h
    BY <1>2, <2>1 DEF PenTouches
  <2>3. Whole(b, app, h) /\ b.activePen # NoPointer /\ b.mouseDown = adapter.mouseDown
    BY <1>1, <2>2, PenDownKeeps
  <2>4. h \subseteq Fingers \cup Pens \cup {LeftButton} /\ left \in BOOLEAN
    BY <1>1
  <2>5. OnWindowEvent(b, e) = OnMouseButton(b, left, left)
    BY WindowEvents
  <2> HIDE DEF b, h, left, e
  <2>6. OnMouseButton(b, left, left) = b
    BY <2>3 DEF OnMouseButton
  <2>7. Whole(OnWindowEvent(b, e), app, h) /\ OnWindowEvent(b, e).mouseDown = adapter.mouseDown
    BY <2>3, <2>5, <2>6
  <2>8. /\ Whole(adapter', app', h)
        /\ adapter'.mouseDown = b.mouseDown \/ adapter'.mouseDown = OnWindowEvent(b, e).mouseDown
    BY <2>2, <2>3, <2>7, RouteKeeps
  <2>. QED
    BY <2>2, <2>3, <2>4, <2>7, <2>8 DEF AppInv, MouseStep
<1>3. CASE PenLifts(pen, chrome)
  <2> DEFINE b == HandleMacRaw(adapter, pen, "Up", FALSE)
             h == pressed \ {pen}
             left == TRUE
             up == FALSE
             e == [type |-> "MouseInput", left |-> left, pressed |-> up]
             d == OnMouseButton(b, left, up)
  <2>1. RouteInput(b, e, chrome) /\ pressed' = h /\ left \in BOOLEAN /\ up \in BOOLEAN /\ ~up
    BY <1>3 DEF PenLifts
  <2>2. Whole(b, app, h) /\ b.mouseDown = adapter.mouseDown
    BY <1>1, PenLiftKeeps
  <2>3. h \subseteq Fingers \cup Pens \cup {LeftButton}
    BY <1>1
  <2> HIDE DEF b, h, left, up
  <2>4. OnWindowEvent(b, e) = d
    BY WindowEvents
  <2> HIDE DEF e
  <2>5. Whole(d, app, h) /\ (~b.mouseDown => ~d.mouseDown)
    BY <2>1, <2>2, ButtonKeeps
  <2>6. Whole(OnWindowEvent(b, e), app, h)
    BY <2>4, <2>5
  <2>7. /\ Whole(adapter', app', h)
        /\ adapter'.mouseDown = b.mouseDown \/ adapter'.mouseDown = OnWindowEvent(b, e).mouseDown
    BY <2>1, <2>2, <2>6, RouteKeeps
  <2>8. ~adapter.mouseDown => ~adapter'.mouseDown
    BY <2>2, <2>4, <2>5, <2>7
  <2>. QED
    BY <2>1, <2>3, <2>7, <2>8 DEF AppInv, MouseStep
<1>4. CASE PenMoves(pen, chrome)
  <2> DEFINE native == FALSE
             b == HandleMacRaw(adapter, pen, "Move", native)
             e == [type |-> "CursorMoved"]
  <2>1. RouteInput(b, e, chrome) /\ pressed' = pressed /\ native \in BOOLEAN
    BY <1>4 DEF PenMoves
  <2>2. OnWindowEvent(b, e) = OnCursorMoved(b)
    BY WindowEvents
  <2> HIDE DEF native, e
  <2>3. Whole(b, app, pressed) /\ b.mouseDown = adapter.mouseDown
    BY <1>1, <2>1, PenMoveKeeps
  <2> HIDE DEF b
  <2>4. Whole(OnCursorMoved(b), app, pressed) /\ OnCursorMoved(b).mouseDown = b.mouseDown
    BY <2>3, CursorKeeps
  <2>5. Whole(OnWindowEvent(b, e), app, pressed)
    BY <2>2, <2>4
  <2>6. /\ Whole(adapter', app', pressed)
        /\ adapter'.mouseDown = b.mouseDown \/ adapter'.mouseDown = OnWindowEvent(b, e).mouseDown
    BY <2>1, <2>3, <2>5, RouteKeeps
  <2>. QED
    BY <1>1, <2>1, <2>2, <2>3, <2>4, <2>6 DEF AppInv, MouseStep
<1>. QED
  BY <1>2, <1>3, <1>4

\* What only the adapter sees: the app stays as it is.
LEMMA MonitorActions ==
    ASSUME AppInv, MonitorInput
    PROVE  AppInv' /\ MouseStep
<1>1. Whole(adapter, app, pressed) /\ pressed \subseteq Fingers \cup Pens \cup {LeftButton}
  BY DEF AppInv
<1>2. CASE FocusLost
  <2>1. adapter' = OnFocusLost(adapter) /\ pressed' \subseteq pressed /\ app' = app
    BY <1>2 DEF FocusLost
  <2>2. Whole(OnFocusLost(adapter), app, pressed') /\ ~OnFocusLost(adapter).mouseDown
    BY <1>1, FocusLostKeeps
  <2>. QED
    BY <1>1, <2>1, <2>2 DEF AppInv, MouseStep
<1>3. ASSUME NEW p \in Pens, NativePoint(p) PROVE AppInv' /\ MouseStep
  <2> DEFINE native == TRUE
             b == HandleMacRaw(adapter, p, "Move", native)
  <2>1. adapter' = b /\ app' = app /\ pressed' = pressed /\ native \in BOOLEAN
    BY <1>3 DEF NativePoint
  <2> HIDE DEF native
  <2>2. Whole(b, app, pressed) /\ b.mouseDown = adapter.mouseDown
    BY <1>1, <2>1, PenMoveKeeps
  <2> HIDE DEF b
  <2>. QED
    BY <1>1, <2>1, <2>2 DEF AppInv, MouseStep
<1>4. ASSUME NEW p \in Pens, PenLeaves(p) PROVE AppInv' /\ MouseStep
  <2> DEFINE b == HandleMacProximity(adapter, p, FALSE)
             h == pressed \ {p}
  <2>1. adapter' = b /\ app' = app /\ pressed' = h
    BY <1>4 DEF PenLeaves
  <2>2. Whole(b, app, h) /\ b.mouseDown = adapter.mouseDown
    BY <1>1, PenLeavesKeeps
  <2>3. h \subseteq Fingers \cup Pens \cup {LeftButton}
    BY <1>1
  <2> HIDE DEF b, h
  <2>. QED
    BY <2>1, <2>2, <2>3 DEF AppInv, MouseStep
<1>. QED
  BY <1>2, <1>3, <1>4 DEF MonitorInput

LEMMA NextKeepsWhole ==
    ASSUME AppInv, Next
    PROVE  AppInv' /\ MouseStep
<1>1. CASE WinitInput
  <2>1. PICK chrome \in Chrome :
           \/ CursorMoves(chrome) \/ CursorLeaves(chrome)
           \/ MouseDown(chrome) \/ MouseUp(chrome)
           \/ \E f \in Fingers, phase \in Phase : Touch(f, phase, chrome)
           \/ \E p \in Pens : PenTouches(p, chrome) \/ PenLifts(p, chrome) \/ PenMoves(p, chrome)
    BY <1>1 DEF WinitInput
  <2>. QED
    BY <2>1, CursorActions, MouseActions, TouchAction, PenActions
<1>2. CASE MonitorInput
  BY <1>2, MonitorActions
<1>. QED
  BY <1>1, <1>2 DEF Next

(***************************************************************************)
(* The theorems.                                                           *)
(***************************************************************************)
\* The inductive invariant: after every event of the user the adapter's slots
\* hold minted pointers of what is held down, and every gesture the app has
\* seen the start of, now or once it handles the queue, still has its end to
\* come (adapter/mod.rs, adapter/mac.rs, main.rs: route_input, on_sample).
THEOREM AppInvariant == Spec => []AppInv
<1>1. Init => AppInv
  BY InitIsWhole
<1>2. AppInv /\ [Next]_vars => AppInv'
  <2>1. CASE Next
    BY <2>1, NextKeepsWhole
  <2>2. CASE UNCHANGED vars
    BY <2>2 DEF AppInv, vars
  <2>. QED
    BY <2>1, <2>2
<1>. QED
  BY <1>1, <1>2, PTL DEF Spec

LEMMA WholeParts ==
    ASSUME AppInv
    PROVE  /\ adapter \in AdapterState /\ Slots(adapter)
           /\ adapter.nextPointer \in Nat /\ adapter.nextPointer >= 1
           /\ adapter.nextUpdate \in Nat /\ adapter.nextUpdate >= 1
           /\ AppOK(app, adapter.nextPointer, adapter.nextUpdate)
           /\ AppAhead(adapter.queue, Tracked(adapter), adapter.pending, app, 0)
BY AdapterParts DEF AppInv, Whole, After

LEMMA AppIsTyped ==
    ASSUME AppInv
    PROVE  TypeOK
<1> DEFINE n == adapter.nextPointer
           m == adapter.nextUpdate
<1>1. /\ adapter \in AdapterState /\ Slots(adapter) /\ n \in Nat /\ n >= 1 /\ m \in Nat /\ m >= 1
      /\ AppOK(app, n, m)
  BY WholeParts
<1>2. Pointers = 0 .. (n - 1) /\ 1 .. (n - 1) \subseteq Pointers \ {Mouse}
  BY <1>1 DEF Pointers, Mouse
<1>3. adapter.queue \in Seq(StylusEvent) /\ adapter.mouseDown \in BOOLEAN
  BY <1>1, AdapterParts DEF Queue
<1>4. /\ adapter.touches \in [Fingers -> (Pointers \ {Mouse}) \cup {NoPointer}]
      /\ adapter.pens \in [Pens -> (Pointers \ {Mouse}) \cup {NoPointer}]
  <2>1. adapter.touches \in [Fingers -> Int] /\ adapter.pens \in [Pens -> Int]
    BY <1>1, AdapterParts
  <2>2. \A f \in Fingers : adapter.touches[f] \in (Pointers \ {Mouse}) \cup {NoPointer}
    BY <1>1, <1>2 DEF Slots
  <2>3. \A p \in Pens : adapter.pens[p] \in (Pointers \ {Mouse}) \cup {NoPointer}
    BY <1>1, <1>2 DEF Slots
  <2>. QED
    BY <2>1, <2>2, <2>3
<1>5. adapter.activePen \in PenPointers \cup {NoPointer}
  BY <1>1 DEF Slots, PenPointers
<1>6. adapter.pending \subseteq [update : 1 .. m - 1, pointer : Pointers]
  <2>1. ASSUME NEW e \in adapter.pending PROVE e \in [update : 1 .. m - 1, pointer : Pointers]
    <3>1. e \in Estimate
      BY <1>1, <2>1, AdapterParts
    <3>2. e.update \in 1 .. (m - 1) /\ e.pointer \in Pointers
      BY <1>1, <1>2, <2>1 DEF Slots
    <3>. QED
      BY <3>1, <3>2 DEF Estimate
  <2>. QED
    BY <2>1
<1>7. app \in AppState /\ Held(app, n) /\ Drawn(app, m)
  BY <1>1 DEF AppOK
<1>8. /\ app.active \in [pointer : Int, stroke : Nat] /\ DOMAIN app.strokes = 1 .. Len(app.strokes)
      /\ app.strokes \in Seq(StrokeState) /\ Len(app.strokes) \in Nat
      /\ \A i \in 1 .. Len(app.strokes) : app.strokes[i] \in StrokeState
  BY <1>7, AppParts
<1>9. app.active \in [pointer : Pointers, stroke : DOMAIN app.strokes] \cup {NoActive}
  <2>1. app.active # NoActive => app.active.pointer \in Pointers /\ app.active.stroke \in DOMAIN app.strokes
    BY <1>2, <1>7, <1>8 DEF Held
  <2>. QED
    BY <1>8, <2>1
<1>10. app.suppressed \subseteq Pointers
  BY <1>2, <1>7 DEF Held
<1>11. app.strokes \in Seq([fate : Fate, estimates : SUBSET (1 .. m - 1)])
  <2> DEFINE R == [fate : Fate, estimates : SUBSET (1 .. m - 1)]
             k == Len(app.strokes)
  <2>1. ASSUME NEW i \in 1 .. k PROVE app.strokes[i] \in R
    <3>1. app.strokes[i].estimates \subseteq 1 .. (m - 1) /\ app.strokes[i] \in StrokeState
      BY <1>7, <1>8, <2>1 DEF Drawn
    <3>. QED
      BY <3>1 DEF StrokeState
  <2> HIDE DEF R
  <2>2. app.strokes \in [1 .. k -> R]
    BY <1>8, <2>1
  <2>3. app.strokes \in Seq(R)
    BY <1>8, <2>2
  <2>. QED
    BY <2>3 DEF R
<1>12. pressed \subseteq Fingers \cup Pens \cup {LeftButton}
  BY DEF AppInv
<1>. QED
  BY <1>3, <1>4, <1>5, <1>6, <1>9, <1>10, <1>11, <1>12 DEF TypeOK

\* Every pointer and every update_index the adapter and the app hold was
\* minted (adapter/mod.rs, main.rs), whatever the number of devices.
THEOREM AppTypes == Spec => []TypeOK
BY AppInvariant, AppIsTyped, PTL

\* The app's active stroke is the one the engine has in flight: every way
\* on_sample lets go of a stroke tells the engine as well (main.rs).
THEOREM AppDrawsActive == Spec => []EngineDrawsActive
<1>1. AppInv => EngineDrawsActive
  <2>1. SUFFICES ASSUME AppInv PROVE EngineDrawsActive
    OBVIOUS
  <2> DEFINE n == adapter.nextPointer
             m == adapter.nextUpdate
  <2>2. app \in AppState /\ Held(app, n) /\ Drawn(app, m)
    BY <2>1, WholeParts DEF AppOK
  <2>3. DOMAIN app.strokes = 1 .. Len(app.strokes)
    BY <2>2, AppParts
  <2>4. \A i \in 1 .. Len(app.strokes) :
           app.strokes[i].fate = "drawing" <=> app.active # NoActive /\ app.active.stroke = i
    BY <2>2 DEF Drawn
  <2>5. app.active # NoActive => app.active.stroke \in 1 .. Len(app.strokes)
    BY <2>2 DEF Held
  <2>6. Drawing(app) = {i \in 1 .. Len(app.strokes) : app.active # NoActive /\ app.active.stroke = i}
    BY <2>3, <2>4 DEF Drawing
  <2>. QED
    BY <2>5, <2>6 DEF EngineDrawsActive
<1>. QED
  BY <1>1, AppInvariant, PTL

\* A pointer that draws is not swallowed at the same time: its Move and Up
\* reach the stroke (main.rs, suppressed_pointers). The mouse's pointer is the
\* same in every gesture and does not stay suppressed.
THEOREM ActiveStaysUnsuppressed == Spec => []ActiveNotSuppressed
<1>1. AppInv => ActiveNotSuppressed
  BY WholeParts DEF AppOK, Held, ActiveNotSuppressed
<1>. QED
  BY <1>1, AppInvariant, PTL

EndIsDelivered(pointer) ==
    \/ pointer \in TrackedPointers \cup {NoPointer}
    \/ \E i \in DOMAIN adapter.queue :
           adapter.queue[i].pointer = pointer /\ adapter.queue[i].phase \in {"Up", "Cancel"}

LEMMA EndIsAhead ==
    ASSUME AppInv, NEW p \in {app.active.pointer} \cup app.suppressed, Kept(p)
    PROVE  EndIsDelivered(p)
<1>1. adapter.queue \in Queue /\ AppAhead(adapter.queue, Tracked(adapter), adapter.pending, app, 0)
  BY WholeParts, AdapterParts
<1>2. DOMAIN adapter.queue = 1 .. Len(adapter.queue)
  BY <1>1 DEF Queue
<1>3. p = NoPointer \/ p \in Claimed(app)
  BY DEF Claimed
<1>4. CASE p = NoPointer
  BY <1>4 DEF EndIsDelivered
<1>5. CASE p \in Claimed(app)
  <2>1. Ending(adapter.queue, Tracked(adapter), p, 0)
    BY <1>1, <1>5 DEF AppAhead, InProgress
  <2>2. CASE p \in Tracked(adapter)
    BY <2>2 DEF Tracked, EndIsDelivered, TrackedPointers, TouchPointers, PenPointers
  <2>3. CASE \E j \in (0 + 1) .. Len(adapter.queue) : Ends(adapter.queue[j], p)
    BY <1>2, <2>3 DEF EndIsDelivered, Ends
  <2>. QED
    BY <2>1, <2>2, <2>3 DEF Ending
<1>. QED
  BY <1>3, <1>4, <1>5

\* With one pen no gesture's end is lost, late as it may come behind the
\* chrome gate of route_input or the monitor's queue (main.rs). With two,
\* on_focus_lost forgets the estimates of both but cancels only the one that
\* drew last (adapter/mod.rs), and the other may go down again first.
THEOREM EndsDelivered ==
    ASSUME OnePen
    PROVE  Spec => []EndsAreDelivered
<1>1. AppInv => EndsAreDelivered
  BY EndIsAhead DEF EndsAreDelivered, EndIsDelivered, Kept
<1>. QED
  BY <1>1, AppInvariant, PTL

\* The mouse's gesture has its end to come with any number of pens: its
\* pointer is used again and again, so a lost end would swallow later strokes.
MouseEndIsDelivered == Mouse \in {app.active.pointer} \cup app.suppressed => EndIsDelivered(Mouse)

\* See there: on_mouse_button and on_focus_lost (adapter/mod.rs).
THEOREM MouseEndsDelivered == Spec => []MouseEndIsDelivered
<1>1. AppInv => MouseEndIsDelivered
  BY EndIsAhead DEF MouseEndIsDelivered, Kept
<1>. QED
  BY <1>1, AppInvariant, PTL

\* With one pen, a stroke that ended with the pen lifted has no estimates
\* left: handle_mac_raw queues the revisions before the Up (adapter/mac.rs),
\* and on_sample, in that order, passes them on while the stroke is active.
THEOREM LiftedAreFinal ==
    ASSUME OnePen
    PROVE  Spec => []LiftedStrokesAreFinal
<1>1. AppInv => LiftedStrokesAreFinal
  <2>1. SUFFICES ASSUME AppInv PROVE LiftedStrokesAreFinal
    OBVIOUS
  <2>2. app \in AppState /\ Drawn(app, adapter.nextUpdate)
    BY <2>1, WholeParts DEF AppOK
  <2>3. DOMAIN app.strokes = 1 .. Len(app.strokes)
    BY <2>2, AppParts
  <2>. QED
    BY <2>2, <2>3 DEF Drawn, LiftedStrokesAreFinal
<1>. QED
  BY <1>1, AppInvariant, PTL

\* The mouse goes down in the adapter only when the user presses its button,
\* never by the mouse events macOS makes of a pen's: active_pen_pointer is set
\* by the time winit sees them (adapter/mod.rs, on_mouse_button).
THEOREM PenIsNeverMouse == Spec => PenIsNotMouse
<1>1. AppInv /\ [Next]_vars => [~adapter.mouseDown /\ adapter'.mouseDown => LeftButton \in pressed' \ pressed]_vars
  BY NextKeepsWhole DEF MouseStep
<1>. QED
  BY <1>1, AppInvariant, PTL DEF Spec, PenIsNotMouse

\* Every pointer that is mid-gesture, mouse, pen and touch, is cancelled when
\* the application loses the focus (architecture/dataflow.md).
FocusLossEndsAll == [][FocusLost => TrackedPointers' = {}]_vars

\* When the application loses the focus every pointer that is mid-gesture is
\* cancelled, as dataflow.md says of on_focus_lost (adapter/mod.rs), if there
\* is but one pen.
THEOREM FocusLossEndsOnePen ==
    ASSUME OnePen
    PROVE  Spec => FocusLossEndsAll
<1>1. AppInv /\ [Next]_vars => [FocusLost => TrackedPointers' = {}]_vars
  <2>1. SUFFICES ASSUME AppInv, FocusLost PROVE TrackedPointers' = {}
    OBVIOUS
  <2> DEFINE b == OnFocusLost(adapter)
  <2>2. adapter' = b
    BY <2>1 DEF FocusLost
  <2>3. /\ ~b.mouseDown
        /\ \A f \in Fingers : b.touches[f] = NoPointer
        /\ \A p \in Pens : b.pens[p] = NoPointer
    <3>1. Whole(adapter, app, pressed)
      BY <2>1 DEF AppInv
    <3>. QED
      BY <3>1, FocusLostKeeps
  <2> HIDE DEF b
  <2>4. ~adapter'.mouseDown
    BY <2>2, <2>3
  <2>5. TouchPointers' = {}
    BY <2>2, <2>3 DEF TouchPointers
  <2>6. PenPointers' = {}
    BY <2>2, <2>3 DEF PenPointers
  <2>. QED
    BY <2>4, <2>5, <2>6 DEF TrackedPointers
<1>. QED
  BY <1>1, AppInvariant, PTL DEF Spec, FocusLossEndsAll

=============================================================================
