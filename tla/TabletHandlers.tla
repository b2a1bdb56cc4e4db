---------------------------- MODULE TabletHandlers ----------------------------
(***************************************************************************)
(* The stylus adapter as the tablet backends other than macOS drive it     *)
(* (adapter/wayland.rs, x11.rs, windows.rs, web.rs, ios.rs, android.rs).   *)
(* Every operator takes the StylusAdapter `a` as it is when the handler is *)
(* called and returns it as the handler leaves it.                         *)
(*                                                                         *)
(* The queue is never drained here (App.tla drains it), so it is the       *)
(* history of what the app is told. Of a sample, what is kept is its       *)
(* phase, pointer, tool, reading (whatever the backend measured: pressure, *)
(* position, buttons) and the update_index it is estimated under (0: none).*)
(* Capabilities and timestamps are left out.                               *)
(***************************************************************************)
EXTENDS Integers, Sequences, SequencesExt

CONSTANTS
    Devices,    \* ids of devices (Linux, Windows)
    Contacts    \* ids of pointers and touches (web, iOS, Android)

NoPointer == -1     \* Option::None
Mouse     == 0      \* PointerId::MOUSE, which hovering is reported under

Tool == {"Pen", "Eraser", "Finger", "Mouse", "Unknown"}

\* pens, and the three maps keyed by a contact; an absent key is NoPen.
NoPen == [pointer |-> NoPointer, tool |-> "none"]

NewAdapter ==
    [queue       |-> << >>,
     pens        |-> [d \in Devices |-> NoPen],
     contacts    |-> [c \in Contacts |-> NoPen],
     activePen   |-> NoPointer,
     pending     |-> {},    \* pending_estimated: update_index and pointer
     nextPointer |-> 1]

Emit(a, phase, pointer, tool, reading, update) ==
    [a EXCEPT !.queue = Append(@, [phase |-> phase, pointer |-> pointer, tool |-> tool,
                                   reading |-> reading, update |-> update])]

\* Mutant of Deactivate: the mouse stays silenced.
DeactivateNever(a, pointer) == a

\* What the Up, the Cancel or the loss of a pointer leaves of active_pen_pointer.
Deactivate(a, pointer) ==
    [a EXCEPT !.activePen = IF @ = pointer THEN NoPointer ELSE @]

TakePending(a, pointer) ==
    [a EXCEPT !.pending = {e \in @ : e.pointer # pointer}]

Ends == {"Up", "Cancel"}

(***************************************************************************)
(* Pens known by their device. Any event of a device makes its entry, with *)
(* the tool the event names; later events keep it. Proximity refreshes it. *)
(***************************************************************************)
Entered(a, device, tool) ==
    IF a.pens[device] # NoPen
    THEN a
    ELSE [a EXCEPT !.pens[device] = [pointer |-> NoPointer, tool |-> tool]]

\* Mutant of StartPen: the pointer is not taken.
StartPenUnminted(a, device, reading) ==
    Emit([a EXCEPT !.pens[device].pointer = a.nextPointer, !.activePen = a.nextPointer],
         "Down", a.nextPointer, a.pens[device].tool, reading, 0)

StartPen(a, device, reading) ==
    Emit([a EXCEPT !.pens[device].pointer = a.nextPointer,
                   !.activePen = a.nextPointer,
                   !.nextPointer = @ + 1],
         "Down", a.nextPointer, a.pens[device].tool, reading, 0)

\* Mutant of ContinuePen: the pen keeps a pointer whose gesture is over.
ContinuePenForever(a, device, phase, reading) ==
    LET pen == a.pens[device]
    IN  IF pen.pointer = NoPointer
        THEN a
        ELSE Emit(IF phase \in Ends THEN Deactivate(a, pen.pointer) ELSE a,
                  phase, pen.pointer, pen.tool, reading, 0)

ContinuePen(a, device, phase, reading) ==
    LET pen      == a.pens[device]
        released == Deactivate([a EXCEPT !.pens[device].pointer = NoPointer], pen.pointer)
    IN  IF pen.pointer = NoPointer
        THEN a
        ELSE Emit(IF phase \in Ends THEN released ELSE a,
                  phase, pen.pointer, pen.tool, reading, 0)

PenRaw(a, device, phase, tool, reading) ==
    LET known == Entered(a, device, tool)
    IN  IF phase = "Down" THEN StartPen(known, device, reading)
                          ELSE ContinuePen(known, device, phase, reading)

PenEnters(a, device, tool) ==
    [Entered(a, device, tool) EXCEPT !.pens[device].tool = tool]

\* Mutant of PenLeaves: a pen that draws is kept for its Up.
PenLeavesWhenLifted(a, device) ==
    IF a.pens[device].pointer = NoPointer THEN [a EXCEPT !.pens[device] = NoPen] ELSE a

\* The pen's entry goes; a stroke it still drives is cancelled.
PenLeaves(a, device) ==
    LET pen  == a.pens[device]
        gone == [a EXCEPT !.pens[device] = NoPen]
    IN  IF pen.pointer = NoPointer
        THEN gone
        ELSE Deactivate(TakePending(Emit(gone, "Cancel", pen.pointer, pen.tool, 0, 0),
                                    pen.pointer),
                        pen.pointer)

PenProximity(a, device, entering, tool) ==
    IF entering THEN PenEnters(a, device, tool) ELSE PenLeaves(a, device)

(***************************************************************************)
(* Pointers and touches known by a contact, which is gone with its Up.     *)
(***************************************************************************)
Hover(a, tool, reading) == Emit(a, "Hover", Mouse, tool, reading, 0)

\* `activates` says whether the mouse is silenced while the contact draws.
StartContact(a, contact, tool, activates, reading, update) ==
    Emit([a EXCEPT !.contacts[contact] = [pointer |-> a.nextPointer, tool |-> tool],
                   !.activePen = IF activates THEN a.nextPointer ELSE @,
                   !.nextPointer = @ + 1],
         "Down", a.nextPointer, tool, reading, update)

\* On the web the tool of the Down stays; iOS and Android name it each time,
\* and cannot name another.
ContinueContact(a, contact, phase, tool, reading, update) ==
    LET entry == a.contacts[contact]
        gone  == Deactivate([a EXCEPT !.contacts[contact] = NoPen], entry.pointer)
    IN  IF entry = NoPen
        THEN a
        ELSE Emit(IF phase \in Ends THEN gone ELSE a, phase, entry.pointer,
                  entry.tool, reading, update)

ContactLeaves(a, contact) ==
    LET entry == a.contacts[contact]
    IN  IF entry = NoPen
        THEN a
        ELSE Deactivate(TakePending(Emit([a EXCEPT !.contacts[contact] = NoPen],
                                         "Cancel", entry.pointer, entry.tool, 0, 0),
                                    entry.pointer),
                        entry.pointer)

=============================================================================
