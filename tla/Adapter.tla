------------------------------- MODULE Adapter -------------------------------
(***************************************************************************)
(* The stylus adapter of stylus-junk (adapter/mod.rs), its macOS pen       *)
(* handlers (adapter/mac.rs) and the winit translation (winit_shim.rs):    *)
(* the pure part of App.tla. Every operator takes the StylusAdapter `a` as *)
(* it is when the method is called and returns it as the method leaves it. *)
(*                                                                         *)
(* Positions, axes, tools, capabilities and timestamps are left out: an    *)
(* event is its phase, its pointer, and the update_index it carries        *)
(* (0: none). A pen is the stroke pointer it drives, so the entry          *)
(* proximity creates, with no pointer yet, is NoPointer.                   *)
(***************************************************************************)
EXTENDS Integers, Sequences, SequencesExt

CONSTANTS
    Fingers,    \* touch ids
    Pens        \* device ids of pens

Mouse     == 0   \* PointerId::MOUSE
NoPointer == -1  \* Option::None

Phase == {"Down", "Move", "Up", "Cancel"}

StylusEvent == [phase : Phase \cup {"Revise"}, pointer : Nat, update : Nat]

NewAdapter ==
    [queue       |-> << >>,
     mouseDown   |-> FALSE,
     touches     |-> [f \in Fingers |-> NoPointer],
     pens        |-> [p \in Pens |-> NoPointer],
     activePen   |-> NoPointer,
     pending     |-> {},    \* pending_estimated: update_index and pointer
     nextPointer |-> 1,
     nextUpdate  |-> 1]

(***************************************************************************)
(* Helpers.                                                                *)
(***************************************************************************)
IsTracking(a) ==
    \/ a.mouseDown
    \/ \E f \in Fingers : a.touches[f] # NoPointer
    \/ a.activePen # NoPointer

Emit(a, phase, pointer) ==
    [a EXCEPT !.queue = Append(@, [phase |-> phase, pointer |-> pointer, update |-> 0])]

\* take_pending_for_pointer, and what handle_mac_raw makes of its result: a
\* Revise for every estimate of the pointer, which macOS has one of at most.
PendingOf(a, pointer)   == {e \in a.pending : e.pointer = pointer}
TakePending(a, pointer) == [a EXCEPT !.pending = @ \ PendingOf(a, pointer)]
EmitRevisions(a, pointer) ==
    LET revisions == {[phase |-> "Revise", pointer |-> pointer, update |-> e.update] :
                      e \in PendingOf(a, pointer)}
    IN  [TakePending(a, pointer) EXCEPT !.queue = @ \o SetToSeq(revisions)]

(***************************************************************************)
(* Mouse and touch. While a pen draws, the mouse events macOS duplicates   *)
(* its events with are ignored.                                            *)
(***************************************************************************)
OnCursorMoved(a) ==
    IF a.activePen = NoPointer /\ a.mouseDown THEN Emit(a, "Move", Mouse) ELSE a

\* Mutant of OnMouseButton: not gated on the pen.
OnMouseButtonUngated(a, left, pressed) ==
    IF ~left \/ a.mouseDown = pressed
    THEN a
    ELSE Emit([a EXCEPT !.mouseDown = pressed], IF pressed THEN "Down" ELSE "Up", Mouse)

OnMouseButton(a, left, pressed) ==
    IF a.activePen # NoPointer \/ ~left \/ a.mouseDown = pressed
    THEN a
    ELSE Emit([a EXCEPT !.mouseDown = pressed], IF pressed THEN "Down" ELSE "Up", Mouse)

OnTouch(a, finger, phase) ==
    LET pointer  == a.touches[finger]
        started  == [a EXCEPT !.touches[finger] = a.nextPointer, !.nextPointer = @ + 1]
        finished == [a EXCEPT !.touches[finger] = NoPointer]
    IN  IF phase = "Down" THEN Emit(started, "Down", a.nextPointer)
        ELSE IF pointer = NoPointer THEN a
        ELSE IF phase = "Move" THEN Emit(a, "Move", pointer)
        ELSE Emit(finished, phase, pointer)

\* on_window_event. A cursor that leaves the window changes nothing.
WinitEvent ==
    [type : {"CursorMoved", "CursorLeft"}]
        \cup [type : {"MouseInput"}, left : BOOLEAN, pressed : BOOLEAN]
        \cup [type : {"Touch"}, finger : Fingers, phase : Phase]

OnWindowEvent(a, event) ==
    CASE event.type = "CursorMoved" -> OnCursorMoved(a)
      [] event.type = "MouseInput"  -> OnMouseButton(a, event.left, event.pressed)
      [] event.type = "Touch"       -> OnTouch(a, event.finger, event.phase)
      [] event.type = "CursorLeft"  -> a

(***************************************************************************)
(* The macOS pen. A Down always starts a stroke, with an estimated first   *)
(* sample; a Move or an Up revises it first. A native tablet point only    *)
(* revises.                                                                *)
(***************************************************************************)
PenDown(a, pen) ==
    [a EXCEPT !.pens[pen] = a.nextPointer,
              !.activePen = a.nextPointer,
              !.pending = @ \cup {[update |-> a.nextUpdate, pointer |-> a.nextPointer]},
              !.queue = Append(@, [phase |-> "Down", pointer |-> a.nextPointer,
                                   update |-> a.nextUpdate]),
              !.nextPointer = @ + 1,
              !.nextUpdate = @ + 1]

\* Mutant of PenReleased: the flag that silences the mouse stays up.
PenReleasedStill(a, pen) == [a EXCEPT !.pens[pen] = NoPointer]

PenReleased(a, pen) ==
    [a EXCEPT !.pens[pen] = NoPointer,
              !.activePen = IF @ = a.pens[pen] THEN NoPointer ELSE @]

\* Mutant of HandleMacRaw: the sample is queued before its revisions.
HandleMacRawLate(a, pen, phase, native) ==
    LET pointer == a.pens[pen]
    IN  IF phase = "Down" THEN PenDown(a, pen)
        ELSE IF pointer = NoPointer THEN a
        ELSE IF native THEN EmitRevisions(a, pointer)
        ELSE IF phase = "Move" THEN EmitRevisions(Emit(a, "Move", pointer), pointer)
        ELSE PenReleased(EmitRevisions(Emit(a, phase, pointer), pointer), pen)

HandleMacRaw(a, pen, phase, native) ==
    LET pointer == a.pens[pen]
        revised == EmitRevisions(a, pointer)
    IN  IF phase = "Down" THEN PenDown(a, pen)
        ELSE IF pointer = NoPointer THEN a
        ELSE IF native THEN revised
        ELSE IF phase = "Move" THEN Emit(revised, "Move", pointer)
        ELSE PenReleased(Emit(revised, phase, pointer), pen)

\* Mutant of CancelPen: the app is not told.
CancelPenSilently(a, pen) == PenReleased(TakePending(a, a.pens[pen]), pen)

\* The Cancel synthesised for a pen that still drives a stroke.
CancelPen(a, pen) ==
    PenReleased(TakePending(Emit(a, "Cancel", a.pens[pen]), a.pens[pen]), pen)

\* Entering proximity refreshes what is left out here.
HandleMacProximity(a, pen, entering) ==
    IF entering \/ a.pens[pen] = NoPointer THEN a ELSE CancelPen(a, pen)

(***************************************************************************)
(* on_focus_lost: of the pens, only the one that drew last is cancelled.   *)
(* The touches are drained in the order of a hash map; their Cancels are   *)
(* of different pointers, so one order stands for all.                     *)
(***************************************************************************)
CancelMouse(a) ==
    IF a.mouseDown THEN Emit([a EXCEPT !.mouseDown = FALSE], "Cancel", Mouse) ELSE a

CancelActivePen(a) ==
    LET drawing == {p \in Pens : a.activePen # NoPointer /\ a.pens[p] = a.activePen}
        cancelled == IF drawing = {} THEN a ELSE CancelPen(a, CHOOSE p \in drawing : TRUE)
    IN  [cancelled EXCEPT !.activePen = NoPointer]

CancelTouches(a) ==
    LET touching == SetToSeq({f \in Fingers : a.touches[f] # NoPointer})
    IN  FoldLeft(LAMBDA b, f : OnTouch(b, f, "Cancel"), a, touching)

OnFocusLost(a) ==
    [CancelTouches(CancelActivePen(CancelMouse(a))) EXCEPT !.pending = {}]

=============================================================================
