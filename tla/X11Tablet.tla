------------------------------ MODULE X11Tablet ------------------------------
(***************************************************************************)
(* The X11 tablet backend (linux_x11_tablet.rs) over the handlers of       *)
(* adapter/x11.rs. The pump thread takes the events of its connection in   *)
(* order and handles one at a time. To ask the server for its devices      *)
(* (reenumerate) and to select their events (select_events) are two round  *)
(* trips, each answered with the server's state of that moment, which may  *)
(* be ahead of the events still on the wire; between the two the server    *)
(* goes on. Both may fail, which is logged and leaves things as they were. *)
(*                                                                         *)
(* A device has two axes, which the server names by their index. Its       *)
(* layout, which axis has which index, can change. A motion carries one    *)
(* axis that changed.                                                      *)
(*                                                                         *)
(* The backend has branches for real proximity events, but select_events   *)
(* asks for none: no server sends them, has_real_proximity stays false,    *)
(* and proximity is always synthesized. They are left out, and so are the  *)
(* devices named cursor, which differ from a pen in the tool they report.  *)
(***************************************************************************)
EXTENDS TabletHandlers

CONSTANTS
    Tools,          \* the devices that are styluses
    Erasers,        \* the tools that are erasers, by their name
    MaxEvents,      \* bound on the events queued
    MaxWire         \* bound on the events on the wire

VARIABLES
    adapter,
    backend,        \* DeviceCache::by_id, one StylusDevice or NoDevice per tool
    hand            \* the X server: its devices, its wire and our selection,
                    \* and whether the pump thread has this still to make

Kind(d) == IF d \in Erasers THEN "Eraser" ELSE "Pen"

Axes    == {"position", "pressure"}
Layouts == {l \in [Axes -> 0 .. 1] : l["position"] # l["pressure"]}
AtRest  == [x \in Axes |-> 0]
Usual   == [x \in Axes |-> IF x = "position" THEN 0 ELSE 1]

NoDevice == [cached |-> FALSE]

StylusDevice == [cached : {TRUE}, layout : Layouts, last : [Axes -> 0 .. 1],
                 inProximity : BOOLEAN]

BackendOK == backend \in [Tools -> StylusDevice \cup {NoDevice}]

Enumerated(d, server) == server.devices[d].present

\* Mutant of Reenumerate: a device that was known is kept as it is.
ReenumerateNew(known, server) ==
    [d \in Tools |->
        IF ~Enumerated(d, server) THEN NoDevice
        ELSE IF known[d].cached THEN known[d]
        ELSE [cached |-> TRUE, layout |-> server.devices[d].layout, last |-> AtRest,
              inProximity |-> FALSE]]

\* reenumerate: a device that was known keeps its axis values and proximity.
Reenumerate(known, server) ==
    [d \in Tools |->
        IF ~Enumerated(d, server) THEN NoDevice
        ELSE [cached      |-> TRUE,
              layout      |-> server.devices[d].layout,
              last        |-> IF known[d].cached THEN known[d].last ELSE AtRest,
              inProximity |-> known[d].cached /\ known[d].inProximity]]

\* install has asked for the devices, and not selected their events yet. Of
\* `missed` see LayoutIsCurrent.
Init ==
    /\ adapter = NewAdapter
    /\ hand = [devices   |-> [d \in Tools |-> [present |-> TRUE, layout |-> Usual,
                                                 axes |-> AtRest, buttons |-> 0]],
               wire      |-> << >>,
               selected  |-> {},
               listening |-> FALSE,     \* for hierarchy events
               selecting |-> TRUE,
               missed    |-> {}]
    /\ backend = Reenumerate([d \in Tools |-> NoDevice], hand)

HandleX11Raw(a, device, phase, tool, reading) == PenRaw(a, device, phase, tool, reading)

HandleX11Proximity(a, device, entering, tool) == PenProximity(a, device, entering, tool)

(***************************************************************************)
(* handle_event. A motion or a button of any kind is a sample, before      *)
(* which proximity is synthesized if the pen was not in it.                *)
(***************************************************************************)
\* The sample is what the device last told of each axis.
BuildSample(device) == device.last

MergeAxisValues(device, e) ==
    [device EXCEPT !.last = [x \in Axes |-> IF device.layout[x] = e.index THEN e.value
                                                                          ELSE @[x]]]

OnAxisEvent(a, known, e, phase) ==
    LET device == known[e.device]
        merged == MergeAxisValues(device, e)
        near   == IF device.inProximity
                  THEN a
                  ELSE HandleX11Proximity(a, e.device, TRUE, Kind(e.device))
    IN  IF ~device.cached
        THEN [adapter |-> a, cache |-> known]
        ELSE [adapter |-> HandleX11Raw(near, e.device, phase, Kind(e.device), BuildSample(merged)),
              cache   |-> [known EXCEPT ![e.device] = [merged EXCEPT !.inProximity = TRUE]]]

\* Mutant of SynthesizeProximity: an Enter is left for the first sample to tell.
SynthesizeLeave(a, known, e, entering) ==
    [adapter |-> IF entering \/ ~known[e.device].cached
                 THEN a
                 ELSE HandleX11Proximity(a, e.device, FALSE, Kind(e.device)),
     cache   |-> IF known[e.device].cached
                 THEN [known EXCEPT ![e.device].inProximity = entering]
                 ELSE known]

\* Enter and Leave.
SynthesizeProximity(a, known, e, entering) ==
    LET device == known[e.device]
    IN  IF ~device.cached \/ device.inProximity = entering
        THEN [adapter |-> a, cache |-> known]
        ELSE [adapter |-> HandleX11Proximity(a, e.device, entering, Kind(e.device)),
              cache   |-> [known EXCEPT ![e.device].inProximity = entering]]

HandleEvent(a, known, server, e) ==
    CASE e.type = "Motion"       -> OnAxisEvent(a, known, e, "Move")
      [] e.type = "Press"        -> OnAxisEvent(a, known, e, "Down")
      [] e.type = "Release"      -> OnAxisEvent(a, known, e, "Up")
      [] e.type = "Enter"        -> SynthesizeProximity(a, known, e, TRUE)
      [] e.type = "Leave"        -> SynthesizeProximity(a, known, e, FALSE)
      [] OTHER                   -> [adapter |-> a, cache |-> Reenumerate(known, server)]

Changes == {"DeviceChanged", "Hierarchy"}

\* What is left of the wire; after a hierarchy change the events are selected
\* next, whether or not the devices were had.
Taken(missed) ==
    /\ ~hand.selecting /\ hand.wire # << >>
    /\ hand' = [hand EXCEPT !.wire = Tail(@),
                            !.selecting = (Head(hand.wire).type = "Hierarchy"),
                            !.missed = missed]

PumpLoop ==
    /\ LET e       == Head(hand.wire)
           handled == HandleEvent(adapter, backend, hand, e)
       IN  /\ Taken(IF e.type \in Changes THEN {} ELSE hand.missed)
           /\ adapter' = handled.adapter
           /\ backend' = handled.cache
    /\ Len(adapter'.queue) <= MaxEvents

ReenumerateFails ==
    /\ Taken(hand.missed \cup {Head(hand.wire).device})
    /\ Head(hand.wire).type \in Changes
    /\ UNCHANGED <<adapter, backend>>

\* The server refuses a selection that names a device which is gone. If the
\* first one fails, there is no backend.
SelectEvents ==
    /\ hand.selecting
    /\ \A d \in Tools : backend[d].cached => hand.devices[d].present
    /\ hand' = [hand EXCEPT !.selected = @ \cup {d \in Tools : backend[d].cached},
                            !.listening = TRUE, !.selecting = FALSE]
    /\ UNCHANGED <<adapter, backend>>

SelectEventsFails ==
    /\ hand.selecting /\ hand.listening
    /\ hand' = [hand EXCEPT !.selecting = FALSE]
    /\ UNCHANGED <<adapter, backend>>

(***************************************************************************)
(* The server. It sends the events of the devices that were selected.      *)
(***************************************************************************)
Send(server, type, d, index, value) ==
    /\ Len(hand.wire) < MaxWire
    /\ hand' = [server EXCEPT !.wire =
                   Append(@, [type |-> type, device |-> d, index |-> index, value |-> value])]
    /\ UNCHANGED <<adapter, backend>>

Selected(d) == d \in hand.selected /\ hand.devices[d].present

Moves(d, axis) ==
    LET value == 1 - hand.devices[d].axes[axis]
    IN  /\ Selected(d)
        /\ Send([hand EXCEPT !.devices[d].axes[axis] = value],
                "Motion", d, hand.devices[d].layout[axis], value)

\* The tip or a barrel button: the backend does not tell them apart.
Presses(d) ==
    /\ Selected(d) /\ hand.devices[d].buttons < 2
    /\ Send([hand EXCEPT !.devices[d].buttons = @ + 1], "Press", d, -1, 0)

Releases(d) ==
    /\ Selected(d) /\ hand.devices[d].buttons > 0
    /\ Send([hand EXCEPT !.devices[d].buttons = @ - 1], "Release", d, -1, 0)

Crosses(d, type) == Selected(d) /\ Send(hand, type, d, -1, 0)

\* A change of a device, of which nobody is told who did not select it.
Change(server, type, d, told) ==
    \/ told /\ Send(server, type, d, -1, 0)
    \/ /\ ~told
       /\ hand' = [server EXCEPT !.missed = @ \cup {d}]
       /\ UNCHANGED <<adapter, backend>>

Remaps(d) ==
    /\ hand.devices[d].present
    /\ \E l \in Layouts \ {hand.devices[d].layout} :
           Change([hand EXCEPT !.devices[d].layout = l], "DeviceChanged", d, Selected(d))

\* A device that is unplugged loses its selection.
Plugs(d) ==
    Change([hand EXCEPT !.devices[d] = [present |-> ~@.present, layout |-> Usual,
                                        axes |-> AtRest, buttons |-> 0],
                        !.selected = @ \ {d}],
           "Hierarchy", d, hand.listening)

Server(d) ==
    \/ \E x \in Axes : Moves(d, x)
    \/ Presses(d) \/ Releases(d)
    \/ \E type \in {"Enter", "Leave"} : Crosses(d, type)
    \/ Remaps(d) \/ Plugs(d)

Next ==
    \/ PumpLoop \/ ReenumerateFails
    \/ SelectEvents \/ SelectEventsFails
    \/ \E d \in Tools : Server(d)

(***************************************************************************)
(* Properties.                                                             *)
(***************************************************************************)
\* A device the backend takes to be in proximity was announced to the adapter,
\* which has its entry: its samples carry its own tool and capabilities.
ProximityIsKnown ==
    \A d \in Tools :
        backend[d].cached /\ backend[d].inProximity => adapter.pens[d] # NoPen

\* "Axis indices stay accurate" (handle_event, XinputDeviceChanged), as far as
\* they do. `missed` has the devices that changed while nothing of it was
\* selected, before the first selection or between a query and its selection,
\* and those of which the query failed, until a query succeeds. Of any other
\* device, once its changes were handled, the cache has the axes where the
\* server has them.
LayoutIsCurrent ==
    \A d \in Tools \ hand.missed :
        \/ \E i \in DOMAIN hand.wire :
               hand.wire[i].device = d /\ hand.wire[i].type \in Changes
        \/ backend[d].cached = hand.devices[d].present
               /\ (backend[d].cached => backend[d].layout = hand.devices[d].layout)

=============================================================================
