--------------------------------- MODULE App ---------------------------------
(***************************************************************************)
(* From the user's hand to the engine (aj-app/src/main.rs, macOS build):   *)
(* the NSEvent monitor, winit's events, the chrome gate of route_input and *)
(* the strokes on_sample makes of the adapter's events.                    *)
(*                                                                         *)
(* Everything here runs on the main thread, one event at a time, so an     *)
(* event is one step. AppKit shows an event to the monitor before winit    *)
(* dispatches it, so a pen event is seen twice within its step, first as a *)
(* pen sample and then as the mouse event that duplicates it. Only winit's *)
(* events drain the adapter.                                               *)
(*                                                                         *)
(* The engine is reduced to the strokes it was asked for. Commands take    *)
(* effect in the order they are sent (Actor.tla), so a step shows the      *)
(* engine as it is once it has caught up.                                  *)
(***************************************************************************)
EXTENDS Adapter

CONSTANTS
    LeftButton,     \* the mouse's left button, among the things pressed
    MaxStrokes,     \* bound on the strokes begun
    MaxPointers     \* bound on the pointer ids minted

ASSUME BoundsAssumption == MaxStrokes \in Nat /\ MaxPointers \in Nat
ASSUME DevicesAssumption == LeftButton \notin Fingers \cup Pens /\ Fingers \cap Pens = {}

VARIABLES
    adapter,    \* the StylusAdapter (App::stylus)
    app,        \* active, suppressed (App) and the engine's strokes
    pressed     \* the devices the user holds down

vars == <<adapter, app, pressed>>

(***************************************************************************)
(* active pairs the pointer that draws with its stroke. A stroke has a     *)
(* fate, which names the phase that made the app end it, and the           *)
(* update_index values of its samples that are still estimates.            *)
(***************************************************************************)
NoActive == [pointer |-> NoPointer, stroke |-> 0]

Fate == {"drawing", "lost", "discarded", "Up", "Cancel"}

\* What egui says while the app handles an event: the pointer is over chrome
\* (pointer_over_chrome), chrome holds it for a click or a drag
\* (chrome_claimed_pointer), egui consumed the event. egui counts a claimed
\* pointer as wanted, so over follows from claimed.
Chrome == {c \in [over : BOOLEAN, claimed : BOOLEAN, consumed : BOOLEAN] : c.claimed => c.over}

Init ==
    /\ adapter = NewAdapter
    /\ app = [active |-> NoActive, suppressed |-> {}, strokes |-> << >>]
    /\ pressed = {}

(***************************************************************************)
(* The engine commands the app sends. A new stroke replaces the one in     *)
(* flight, which is never committed.                                       *)
(***************************************************************************)
Drawing(s) == {i \in DOMAIN s.strokes : s.strokes[i].fate = "drawing"}

BeginStroke(s, update) ==
    LET others == [i \in DOMAIN s.strokes |->
                      IF i \in Drawing(s) THEN [s.strokes[i] EXCEPT !.fate = "lost"]
                                          ELSE s.strokes[i]]
        stroke == [fate |-> "drawing", estimates |-> {update} \ {0}]
    IN  [s EXCEPT !.strokes = Append(others, stroke)]

ReviseSample(s, stroke, update) ==
    [s EXCEPT !.strokes[stroke].estimates = @ \ {update}]

\* EndStroke and CancelStroke of a stroke that is not in flight do nothing.
FinishStroke(s, stroke, fate) ==
    IF stroke \in Drawing(s) THEN [s EXCEPT !.strokes[stroke].fate = fate] ELSE s

(***************************************************************************)
(* on_sample and on_stylus_event.                                          *)
(***************************************************************************)
Drives(s, pointer)      == s.active.pointer = pointer
Suppress(s, pointer)    == [s EXCEPT !.suppressed = @ \cup {pointer}]
Unsuppress(s, pointer)  == [s EXCEPT !.suppressed = @ \ {pointer}]
Deactivate(s)           == [s EXCEPT !.active = NoActive]

OnDown(s, event, chrome) ==
    IF chrome.over
    THEN Suppress(s, event.pointer)
    ELSE LET begun == BeginStroke(s, event.update)
         IN  [begun EXCEPT !.active = [pointer |-> event.pointer,
                                       stroke |-> Len(begun.strokes)]]

\* Mutant of OnMove: the engine is not told that the stroke is given up.
OnMoveUntold(s, event, chrome) ==
    IF event.pointer \notin s.suppressed /\ Drives(s, event.pointer) /\ chrome.claimed
    THEN Suppress(Deactivate(s), event.pointer)
    ELSE s

\* The sample itself, added with AddSample, is not followed.
OnMove(s, event, chrome) ==
    IF event.pointer \notin s.suppressed /\ Drives(s, event.pointer) /\ chrome.claimed
    THEN Suppress(Deactivate(FinishStroke(s, s.active.stroke, "discarded")), event.pointer)
    ELSE s

\* Mutant of OnEnd: a swallowed gesture stays suppressed.
OnEndForgetful(s, event) ==
    IF event.pointer \in s.suppressed
    THEN s
    ELSE IF Drives(s, event.pointer)
    THEN Deactivate(FinishStroke(s, s.active.stroke, event.phase))
    ELSE s

OnEnd(s, event) ==
    IF event.pointer \in s.suppressed
    THEN Unsuppress(s, event.pointer)
    ELSE IF Drives(s, event.pointer)
    THEN Deactivate(FinishStroke(s, s.active.stroke, event.phase))
    ELSE s

OnRevise(s, event) ==
    IF Drives(s, event.pointer) THEN ReviseSample(s, s.active.stroke, event.update) ELSE s

OnStylusEvent(s, event, chrome) ==
    CASE event.phase = "Down"             -> OnDown(s, event, chrome)
      [] event.phase = "Move"             -> OnMove(s, event, chrome)
      [] event.phase \in {"Up", "Cancel"} -> OnEnd(s, event)
      [] event.phase = "Revise"           -> OnRevise(s, event)

(***************************************************************************)
(* route_input, for adapter `a` as the monitor left it: an event over      *)
(* chrome reaches the adapter, and the queue the app, only while a pointer *)
(* is mid-gesture.                                                         *)
(***************************************************************************)
Bounded == Len(app'.strokes) <= MaxStrokes /\ adapter'.nextPointer <= MaxPointers + 1

\* Mutant of RouteInput: what is queued when the gate closes is dropped.
RouteInputDropping(a, event, chrome) ==
    LET gated  == (chrome.consumed \/ chrome.over) /\ ~IsTracking(a)
        fed    == OnWindowEvent(a, event)
    IN  IF gated
        THEN adapter' = [a EXCEPT !.queue = << >>] /\ UNCHANGED app
        ELSE /\ adapter' = [fed EXCEPT !.queue = << >>]
             /\ app' = FoldLeft(LAMBDA s, e : OnStylusEvent(s, e, chrome), app, fed.queue)
             /\ Bounded

RouteInput(a, event, chrome) ==
    LET gated  == (chrome.consumed \/ chrome.over) /\ ~IsTracking(a)
        fed    == OnWindowEvent(a, event)
    IN  IF gated
        THEN adapter' = a /\ UNCHANGED app
        ELSE /\ adapter' = [fed EXCEPT !.queue = << >>]
             /\ app' = FoldLeft(LAMBDA s, e : OnStylusEvent(s, e, chrome), app, fed.queue)
             /\ Bounded

(***************************************************************************)
(* Mouse and touch, from winit.                                            *)
(***************************************************************************)
CursorMoves(chrome) ==
    /\ RouteInput(adapter, [type |-> "CursorMoved"], chrome)
    /\ UNCHANGED pressed

CursorLeaves(chrome) ==
    /\ RouteInput(adapter, [type |-> "CursorLeft"], chrome)
    /\ UNCHANGED pressed

MouseDown(chrome) ==
    /\ LeftButton \notin pressed
    /\ RouteInput(adapter, [type |-> "MouseInput", left |-> TRUE, pressed |-> TRUE], chrome)
    /\ pressed' = pressed \cup {LeftButton}

MouseUp(chrome) ==
    /\ LeftButton \in pressed
    /\ RouteInput(adapter, [type |-> "MouseInput", left |-> TRUE, pressed |-> FALSE], chrome)
    /\ pressed' = pressed \ {LeftButton}

Touch(finger, phase, chrome) ==
    /\ (phase = "Down") = (finger \notin pressed)
    /\ RouteInput(adapter, [type |-> "Touch", finger |-> finger, phase |-> phase], chrome)
    /\ pressed' = CASE phase = "Down" -> pressed \cup {finger}
                    [] phase = "Move" -> pressed
                    [] OTHER          -> pressed \ {finger}

(***************************************************************************)
(* The pen: each event reaches the monitor and then winit, which sees the  *)
(* left button and the cursor.                                             *)
(***************************************************************************)
PenTouches(pen, chrome) ==
    /\ pen \notin pressed
    /\ RouteInput(HandleMacRaw(adapter, pen, "Down", FALSE),
                  [type |-> "MouseInput", left |-> TRUE, pressed |-> TRUE], chrome)
    /\ pressed' = pressed \cup {pen}

PenLifts(pen, chrome) ==
    /\ pen \in pressed
    /\ RouteInput(HandleMacRaw(adapter, pen, "Up", FALSE),
                  [type |-> "MouseInput", left |-> TRUE, pressed |-> FALSE], chrome)
    /\ pressed' = pressed \ {pen}

\* Drawing or hovering.
PenMoves(pen, chrome) ==
    /\ RouteInput(HandleMacRaw(adapter, pen, "Move", FALSE), [type |-> "CursorMoved"], chrome)
    /\ UNCHANGED pressed

(***************************************************************************)
(* What only the monitor, or the focus observer, sees: the adapter changes *)
(* and the app learns of it with the next event that winit delivers.       *)
(***************************************************************************)
NativePoint(pen) ==
    /\ adapter' = HandleMacRaw(adapter, pen, "Move", TRUE)
    /\ UNCHANGED <<app, pressed>>

\* Also a pen that was taken away while it touched: its Up is lost.
PenLeaves(pen) ==
    /\ adapter' = HandleMacProximity(adapter, pen, FALSE)
    /\ pressed' = pressed \ {pen}
    /\ UNCHANGED app

\* Whatever is released while another application has the focus is not seen.
FocusLost ==
    /\ adapter' = OnFocusLost(adapter)
    /\ pressed' \in SUBSET pressed
    /\ UNCHANGED app

WinitInput ==
    \E chrome \in Chrome :
        \/ CursorMoves(chrome)
        \/ CursorLeaves(chrome)
        \/ MouseDown(chrome)
        \/ MouseUp(chrome)
        \/ \E f \in Fingers, phase \in Phase : Touch(f, phase, chrome)
        \/ \E p \in Pens : PenTouches(p, chrome) \/ PenLifts(p, chrome) \/ PenMoves(p, chrome)

MonitorInput == FocusLost \/ \E p \in Pens : NativePoint(p) \/ PenLeaves(p)

Next == WinitInput \/ MonitorInput

Spec == Init /\ [][Next]_vars

(***************************************************************************)
(* Properties.                                                             *)
(***************************************************************************)
Pointers == 0 .. adapter.nextPointer - 1

TouchPointers   == {adapter.touches[f] : f \in Fingers} \ {NoPointer}
PenPointers     == {adapter.pens[p] : p \in Pens} \ {NoPointer}
TrackedPointers ==
    TouchPointers \cup PenPointers \cup IF adapter.mouseDown THEN {Mouse} ELSE {}

\* The type invariant: every pointer and every update_index in use was minted.
TypeOK ==
    /\ adapter.queue \in Seq(StylusEvent)
    /\ adapter.mouseDown \in BOOLEAN
    /\ adapter.touches \in [Fingers -> (Pointers \ {Mouse}) \cup {NoPointer}]
    /\ adapter.pens \in [Pens -> (Pointers \ {Mouse}) \cup {NoPointer}]
    /\ adapter.activePen \in PenPointers \cup {NoPointer}
    /\ adapter.pending \subseteq [update : 1 .. adapter.nextUpdate - 1, pointer : Pointers]
    /\ app.active \in [pointer : Pointers, stroke : DOMAIN app.strokes] \cup {NoActive}
    /\ app.suppressed \subseteq Pointers
    /\ app.strokes \in Seq([fate : Fate, estimates : SUBSET (1 .. adapter.nextUpdate - 1)])
    /\ pressed \subseteq Fingers \cup Pens \cup {LeftButton}

\* The app's active stroke is the one the engine has in flight: every way the
\* app lets go of a stroke (main.rs, on_sample) tells the engine as well.
EngineDrawsActive ==
    Drawing(app) = IF app.active = NoActive THEN {} ELSE {app.active.stroke}

\* A pointer that draws is never also swallowed (suppressed_pointers): its
\* Move and Up would be dropped and its stroke never ended. The mouse's
\* pointer is the same in every gesture, so it must not stay suppressed.
ActiveNotSuppressed == app.active.pointer \notin app.suppressed

\* The end of a gesture may come late, when it is queued by the monitor or
\* behind the chrome gate, but is not lost: a pointer the app draws with or
\* swallows is mid-gesture in the adapter or its Up or Cancel is in the queue.
EndsAreDelivered ==
    \A pointer \in {app.active.pointer} \cup app.suppressed :
        \/ pointer \in TrackedPointers \cup {NoPointer}
        \/ \E i \in DOMAIN adapter.queue :
               adapter.queue[i].pointer = pointer /\ adapter.queue[i].phase \in {"Up", "Cancel"}

\* macOS delivers a pen's events as mouse events too; active_pen_pointer keeps
\* the adapter from drawing with both (architecture/dataflow.md, "Pen/mouse
\* deduplication"): the mouse goes down when the user presses its button.
PenIsNotMouse ==
    [][~adapter.mouseDown /\ adapter'.mouseDown => LeftButton \in pressed' \ pressed]_vars

\* A stroke that ended with the pen lifted holds final values: its revisions
\* are queued, and reach the engine, before the Up (adapter/mac.rs).
LiftedStrokesAreFinal ==
    \A i \in DOMAIN app.strokes : app.strokes[i].fate = "Up" => app.strokes[i].estimates = {}

(***************************************************************************)
(* What the documents say and the code does not do.                        *)
(***************************************************************************)
\* main.rs, route_input: an in-progress stroke always runs to completion. No
\* stroke is begun while another is in flight, which would throw it away.
NoStrokeLost == \A i \in DOMAIN app.strokes : app.strokes[i].fate # "lost"

\* main.rs, route_input: a stroke is not stranded when its gesture ends over
\* chrome. Once winit's event was handled, a pointer that draws is mid-gesture.
NoStrokeStranded ==
    [][WinitInput => app'.active.pointer \in TrackedPointers' \cup {NoPointer}]_vars

\* architecture/dataflow.md: by the time EndStroke lands, history stores the
\* final values. A committed stroke has no estimates left.
CommittedIsFinal ==
    \A i \in DOMAIN app.strokes :
        app.strokes[i].fate \in {"Up", "Cancel"} => app.strokes[i].estimates = {}

=============================================================================
