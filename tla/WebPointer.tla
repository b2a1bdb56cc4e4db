------------------------------ MODULE WebPointer ------------------------------
(***************************************************************************)
(* The Pointer Events backend (web_pointer.rs) over the handlers of        *)
(* adapter/web.rs. Listeners run on the page's one thread, so an event is  *)
(* one step.                                                               *)
(*                                                                         *)
(* The browser is the environment. A pen that touches is captured, so it   *)
(* neither leaves the canvas nor moves off it until it is lifted or        *)
(* cancelled; that is followed by lostpointercapture, which the backend    *)
(* takes for a cancel. A finger that is lifted is gone.                    *)
(***************************************************************************)
EXTENDS TabletHandlers

CONSTANTS
    PenContacts,    \* the contacts that are pens; the others are fingers
    MaxEvents       \* bound on the events queued

VARIABLES
    adapter,
    backend,        \* WebStylusBridge::_live_pens
    hand            \* the contacts over the canvas, and those that touch it

BackendOK == backend \subseteq Contacts

Init ==
    /\ adapter = NewAdapter
    /\ backend = {}
    /\ hand = [over |-> {}, down |-> {}, captured |-> {}]

\* classify_web_tool: the eraser is a bit of the buttons. The mouse and types
\* of pointer it does not know are left out: no gate is for or against them.
WebTool(c, flipped) ==
    IF c \notin PenContacts THEN "Finger" ELSE IF flipped THEN "Eraser" ELSE "Pen"

HandleWebRaw(a, c, phase, tool, reading) ==
    CASE phase = "Hover" -> IF c \in PenContacts THEN Hover(a, tool, reading) ELSE a
      [] phase = "Down"  -> StartContact(a, c, tool, c \in PenContacts, reading, 0)
      [] OTHER           -> ContinueContact(a, c, phase, tool, reading, 0)

\* Entering refreshes what is left out here.
HandleWebProximity(a, c, entering) == IF entering THEN a ELSE ContactLeaves(a, c)

Bounded == Len(adapter'.queue) <= MaxEvents

(***************************************************************************)
(* dispatch. The gate: a touch is dropped while any pen is live.           *)
(***************************************************************************)
\* Mutant of Gated: a touch is dropped only when it goes down.
GatedDowns(c, action) == c \notin PenContacts /\ backend # {} /\ action = "Down"

Gated(c, action) == c \notin PenContacts /\ backend # {}

\* Mutant of Live: a pen is live until its Up, whatever else befalls it.
LiveUntilUp(c, action) ==
    CASE action = "Down" -> backend \cup ({c} \cap PenContacts)
      [] action = "Up"   -> backend \ {c}
      [] OTHER           -> backend

Live(c, action) ==
    CASE action = "Down"                    -> backend \cup ({c} \cap PenContacts)
      [] action \in Ends                    -> backend \ {c}
      [] action = "Leave" /\ c \in PenContacts -> backend \ {c}
      [] OTHER                              -> backend

Deliver(a, c, action, flipped) ==
    LET tool == WebTool(c, flipped)
    IN  CASE action = "Down" -> HandleWebRaw(a, c, "Down", tool, 1)
          [] action \in Ends -> HandleWebRaw(a, c, action, tool, 0)
          [] action = "Over" -> HandleWebRaw(HandleWebProximity(a, c, TRUE), c, "Hover", tool, 0)
          [] OTHER           -> IF c \in PenContacts THEN HandleWebProximity(a, c, FALSE) ELSE a

Dispatch(c, action, flipped) ==
    IF Gated(c, action)
    THEN UNCHANGED <<adapter, backend>>
    ELSE /\ adapter' = Deliver(adapter, c, action, flipped)
         /\ backend' = Live(c, action)

\* drain_coalesced and drain_predicted: all samples of one pointermove.
Drain(c, samples, flipped) ==
    IF Gated(c, "Move")
    THEN adapter
    ELSE FoldLeft(LAMBDA a, reading : HandleWebRaw(a, c, "Move", WebTool(c, flipped), reading),
                  adapter, samples)

(***************************************************************************)
(* The browser.                                                            *)
(***************************************************************************)
Over(c) ==
    /\ c \notin hand.over
    /\ Dispatch(c, "Over", FALSE) /\ Bounded
    /\ hand' = [hand EXCEPT !.over = @ \cup {c}]

Down(c, flipped) ==
    /\ c \in hand.over \ hand.down
    /\ Dispatch(c, "Down", flipped) /\ Bounded
    /\ hand' = [hand EXCEPT !.down = @ \cup {c}, !.captured = @ \cup {c}]

Move(c, samples, flipped) ==
    /\ c \in hand.over
    /\ adapter' = Drain(c, samples, flipped)
    /\ Bounded
    /\ UNCHANGED <<backend, hand>>

\* pointerup and pointercancel; the capture is lost next.
Lift(c, phase) ==
    /\ c \in hand.down
    /\ Dispatch(c, phase, FALSE) /\ Bounded
    /\ hand' = [hand EXCEPT !.down = @ \ {c}]

LostCapture(c) ==
    /\ c \in hand.captured \ hand.down
    /\ Dispatch(c, "Cancel", FALSE) /\ Bounded
    /\ hand' = [hand EXCEPT !.captured = @ \ {c}]

\* pointerout, then pointerleave.
Out(c) ==
    /\ c \in hand.over \ hand.captured
    /\ Dispatch(c, "Out", FALSE) /\ Bounded
    /\ hand' = [hand EXCEPT !.over = @ \ {c}]

Leave(c) ==
    /\ c \notin hand.over
    /\ Dispatch(c, "Leave", FALSE) /\ Bounded
    /\ UNCHANGED hand

Event(c) ==
    \/ Over(c) \/ LostCapture(c) \/ Out(c) \/ Leave(c)
    \/ \E flipped \in BOOLEAN :
           \/ Down(c, flipped)
           \/ \E samples \in {<<1>>, <<1, 0>>} : Move(c, samples, flipped)
    \/ \E phase \in Ends : Lift(c, phase)

Next == \E c \in Contacts : Event(c)

(***************************************************************************)
(* Properties.                                                             *)
(***************************************************************************)
\* A live pen, which silences the fingers, is one that draws: its entry is
\* gone from both sets once it is lifted, cancelled or lost.
LivePensDraw == \A c \in backend : adapter.contacts[c] # NoPen

\* A pen draws on the canvas.
PenDraws == \E c \in PenContacts : adapter.contacts[c] # NoPen

\* The gate drops pointermove and pointerdown of a touch (web_pointer.rs,
\* design decisions): a finger that is lifted stops drawing.
LiftedFingersStop ==
    \A c \in Contacts \ PenContacts :
        c \notin hand.down => adapter.contacts[c] = NoPen

=============================================================================
