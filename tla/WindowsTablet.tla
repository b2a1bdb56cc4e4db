---------------------------- MODULE WindowsTablet ----------------------------
(***************************************************************************)
(* The Windows tablet backend (windows_tablet.rs) over the handlers of     *)
(* adapter/windows.rs. The window procedure runs on the main thread, one   *)
(* message at a time, so a message is one step. What it does not handle    *)
(* goes on to winit, which is how touches reach the adapter (adapter/mod.rs,*)
(* on_touch).                                                              *)
(*                                                                         *)
(* The range messages name no device: they are delivered for device 0,     *)
(* RangeDevice, while a pen's samples carry the hash of its digitizer.     *)
(* A pen has two ends, and names the one it shows with each sample.        *)
(***************************************************************************)
EXTENDS TabletHandlers

CONSTANTS
    RangeDevice,    \* device id 0
    MaxEvents       \* bound on the events queued

VARIABLES
    adapter,
    backend,        \* SubclassState::pen_in_range
    hand            \* the pens and fingers

Pens == Devices \ {RangeDevice}

\* `outlived` is history: another pen has left the range since this one came.
Away == [near |-> FALSE, down |-> FALSE, eraser |-> FALSE, outlived |-> FALSE]

BackendOK == backend \in BOOLEAN

Init ==
    /\ adapter = NewAdapter
    /\ backend = FALSE
    /\ hand = [pens |-> [p \in Pens |-> Away],
               fingers |-> {}]

\* handle_windows_raw: hovering makes no entry and no pointer.
HandleWindowsRaw(a, device, phase, tool, reading) ==
    IF phase = "Hover" THEN Hover(a, tool, reading) ELSE PenRaw(a, device, phase, tool, reading)

HandleWindowsProximity(a, device, entering, tool) == PenProximity(a, device, entering, tool)

End(p) == IF hand.pens[p].eraser THEN "Eraser" ELSE "Pen"

Bounded == Len(adapter'.queue) <= MaxEvents

(***************************************************************************)
(* WM_POINTERDEVICEINRANGE and OUTOFRANGE.                                 *)
(***************************************************************************)
InRange(p, eraser) ==
    /\ ~hand.pens[p].near
    /\ hand' = [hand EXCEPT !.pens[p] = [Away EXCEPT !.near = TRUE, !.eraser = eraser]]
    /\ backend' = TRUE
    /\ adapter' = HandleWindowsProximity(adapter, RangeDevice, TRUE, "Pen")

OutOfRange(p) ==
    /\ hand.pens[p].near
    /\ hand' = [hand EXCEPT !.pens = [q \in Pens |->
                   IF q = p THEN Away
                   ELSE [hand.pens[q] EXCEPT !.outlived = hand.pens[q].near]]]
    /\ backend' = FALSE
    /\ adapter' = HandleWindowsProximity(adapter, RangeDevice, FALSE, "Pen")

(***************************************************************************)
(* WM_POINTER messages of a pen. handle_pen drains the samples of one      *)
(* message in the order of time. emit_pen_info takes the phase of all of   *)
(* them from a down or up message, of other messages from their flags.     *)
(***************************************************************************)
HandlePen(p, phase, history) ==
    FoldLeft(LAMBDA a, reading : HandleWindowsRaw(a, p, phase, End(p), reading), adapter, history)

PenPhase(p) == IF hand.pens[p].down THEN "Move" ELSE "Hover"

PointerDown(p, history) ==
    /\ hand.pens[p].near /\ ~hand.pens[p].down
    /\ hand' = [hand EXCEPT !.pens[p].down = TRUE]
    /\ adapter' = HandlePen(p, "Down", history)
    /\ Bounded
    /\ UNCHANGED backend

\* Mutant of PointerUp: a pen that is lifted is taken to be out of range.
PointerUpLeaves(p, history) ==
    /\ hand.pens[p].down
    /\ hand' = [hand EXCEPT !.pens[p].down = FALSE]
    /\ adapter' = HandlePen(p, "Up", history)
    /\ Bounded
    /\ backend' = FALSE

PointerUp(p, history) ==
    /\ hand.pens[p].down
    /\ hand' = [hand EXCEPT !.pens[p].down = FALSE]
    /\ adapter' = HandlePen(p, "Up", history)
    /\ Bounded
    /\ UNCHANGED backend

PointerUpdate(p, history) ==
    /\ hand.pens[p].near
    /\ adapter' = HandlePen(p, PenPhase(p), history)
    /\ Bounded
    /\ UNCHANGED <<backend, hand>>

\* Another window has the pen now. Its device is 0 if its info is not to be had.
CaptureChanged(p, known) ==
    /\ hand.pens[p].down
    /\ hand' = [hand EXCEPT !.pens[p].down = FALSE]
    /\ adapter' = HandleWindowsRaw(adapter, IF known THEN p ELSE RangeDevice, "Cancel",
                                   IF known THEN End(p) ELSE "Pen", 0)
    /\ Bounded
    /\ UNCHANGED backend

(***************************************************************************)
(* WM_POINTER messages of a touch, swallowed while a pen is in range.      *)
(***************************************************************************)
SubclassTouch(finger, phase) ==
    adapter' = IF backend THEN adapter
               ELSE IF phase = "Down" THEN StartContact(adapter, finger, "Finger", FALSE, 1, 0)
               ELSE ContinueContact(adapter, finger, phase, "Finger", 1, 0)

Touch(finger, phase) ==
    /\ (phase = "Down") = (finger \notin hand.fingers)
    /\ SubclassTouch(finger, phase)
    /\ Bounded
    /\ hand' = [hand EXCEPT !.fingers = CASE phase = "Down" -> @ \cup {finger}
                                          [] phase \in Ends -> @ \ {finger}
                                          [] OTHER          -> @]
    /\ UNCHANGED backend

Next ==
    \/ \E p \in Pens :
           \/ \E eraser \in BOOLEAN : InRange(p, eraser)
           \/ OutOfRange(p)
           \/ \E history \in {<<1>>, <<0, 1>>} :
                  PointerDown(p, history) \/ PointerUp(p, history) \/ PointerUpdate(p, history)
           \/ \E known \in BOOLEAN : CaptureChanged(p, known)
    \/ \E f \in Contacts, phase \in {"Down", "Move", "Up", "Cancel"} : Touch(f, phase)

(***************************************************************************)
(* Properties.                                                             *)
(***************************************************************************)
\* A pen is in range, and no pen has left since it came. One that leaves clears
\* the flag for them all, as there is one flag and its message names no pen.
PenIsNear == \E p \in Pens : hand.pens[p].near /\ ~hand.pens[p].outlived

=============================================================================
