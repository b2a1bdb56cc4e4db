---------------------------- MODULE WaylandTablet ----------------------------
(***************************************************************************)
(* The Wayland tablet backend (linux_wayland_tablet.rs) over the handlers  *)
(* of adapter/wayland.rs. The dispatch thread takes the events of the      *)
(* tablet-v2 protocol one at a time; those of a tool accumulate in its     *)
(* pending axes and reach the adapter, which the thread locks, with the    *)
(* tool's `frame`. So an event is one step.                                *)
(*                                                                         *)
(* The compositor is the environment: it knows where each tool is          *)
(* (`hand`), lifts a tool before it says that the tool left, and announces *)
(* a tool's type once. A tool and its device id are the same thing here.   *)
(***************************************************************************)
EXTENDS TabletHandlers

CONSTANTS
    Tools,          \* the devices that are tools
    Erasers,        \* the tools that are erasers
    MaxEvents       \* bound on the events queued

VARIABLES
    adapter,
    backend,        \* TabletDispatchState::tools, one entry or NoTool per tool
    hand            \* what the compositor knows of the tools

Kind(d) == IF d \in Erasers THEN "Eraser" ELSE "Pen"

NoTool == [tracked |-> FALSE]

\* ToolEntry and its PendingAxes.
NoAxes == [phase |-> "none", placed |-> FALSE, reading |-> 0, enter |-> FALSE, leave |-> FALSE]

NewTool == [tracked |-> TRUE, done |-> FALSE, kind |-> "Unknown", pending |-> NoAxes]

Entry == [tracked : {TRUE}, done : BOOLEAN, kind : Tool,
          pending : [phase : {"none", "Down", "Move", "Up"}, placed : BOOLEAN,
                     reading : 0 .. 1, enter : BOOLEAN, leave : BOOLEAN]]

BackendOK == backend \in [Tools -> Entry \cup {NoTool}]

Init ==
    /\ adapter = NewAdapter
    /\ backend = [d \in Tools |-> NoTool]
    /\ hand = [d \in Tools |-> [where |-> "away", down |-> FALSE, described |-> FALSE]]

\* HandleWaylandRaw and HandleWaylandProximity are the adapter's handlers.
HandleWaylandRaw(a, device, phase, tool, reading) == PenRaw(a, device, phase, tool, reading)

HandleWaylandProximity(a, device, entering, tool) == PenProximity(a, device, entering, tool)

(***************************************************************************)
(* Dispatch: the first event of a tool makes its entry.                    *)
(***************************************************************************)
Tracked(d) == IF backend[d] = NoTool THEN NewTool ELSE backend[d]

Note(d, entry) ==
    /\ backend' = [backend EXCEPT ![d] = entry]
    /\ UNCHANGED adapter

Pend(d, pending) == Note(d, [Tracked(d) EXCEPT !.pending = pending])

(***************************************************************************)
(* flush and flush_frame: nothing before `done`; a leave wins over an      *)
(* enter; a phase without a position is skipped. (The comment in flush     *)
(* says that the motion of the proximity_in is enough for a Down; it is    *)
(* forgotten with its frame.)                                              *)
(***************************************************************************)
Flush(a, d, entry) ==
    LET p     == entry.pending
        near  == IF p.enter \/ p.leave
                 THEN HandleWaylandProximity(a, d, ~p.leave, entry.kind)
                 ELSE a
    IN  IF ~entry.done
        THEN a
        ELSE IF p.phase # "none" /\ p.placed
        THEN HandleWaylandRaw(near, d, p.phase, entry.kind, p.reading)
        ELSE near

Frame(d) ==
    /\ hand[d].where # "removed"
    /\ Tracked(d).pending # NoAxes
    /\ adapter' = Flush(adapter, d, Tracked(d))
    /\ Len(adapter'.queue) <= MaxEvents
    /\ backend' = [backend EXCEPT ![d] = [Tracked(d) EXCEPT !.pending = NoAxes]]
    /\ UNCHANGED hand

\* A removed tool takes a last frame in which it leaves.
Removed(d) ==
    /\ hand[d].where = "away"
    /\ adapter' = Flush(adapter, d, [Tracked(d) EXCEPT !.pending.leave = TRUE])
    /\ Len(adapter'.queue) <= MaxEvents
    /\ backend' = [backend EXCEPT ![d] = NoTool]
    /\ hand' = [hand EXCEPT ![d].where = "removed"]

(***************************************************************************)
(* The description of a tool, which its `done` ends.                       *)
(***************************************************************************)
Type(d) ==
    /\ ~hand[d].described /\ hand[d].where # "removed"
    /\ Note(d, [Tracked(d) EXCEPT !.kind = Kind(d)])
    /\ hand' = [hand EXCEPT ![d].described = TRUE]

Done(d) ==
    /\ hand[d].described /\ ~Tracked(d).done /\ hand[d].where # "removed"
    /\ Note(d, [Tracked(d) EXCEPT !.done = TRUE])
    /\ UNCHANGED hand

(***************************************************************************)
(* What a tool does, until its frame.                                      *)
(***************************************************************************)
ProximityIn(d) ==
    /\ hand[d].where = "away"
    /\ Pend(d, [Tracked(d).pending EXCEPT !.enter = TRUE])
    /\ hand' = [hand EXCEPT ![d].where = "near"]

ProximityOut(d) ==
    /\ hand[d].where = "near" /\ ~hand[d].down
    /\ Pend(d, [Tracked(d).pending EXCEPT !.leave = TRUE])
    /\ hand' = [hand EXCEPT ![d].where = "away"]

Down(d) ==
    /\ hand[d].where = "near" /\ ~hand[d].down
    /\ Pend(d, [Tracked(d).pending EXCEPT !.phase = "Down"])
    /\ hand' = [hand EXCEPT ![d].down = TRUE]

Up(d) ==
    /\ hand[d].down
    /\ Pend(d, [Tracked(d).pending EXCEPT !.phase = "Up"])
    /\ hand' = [hand EXCEPT ![d].down = FALSE]

Motion(d) ==
    /\ hand[d].where = "near"
    /\ Pend(d, [Tracked(d).pending EXCEPT !.placed = TRUE,
                                          !.phase = IF @ = "none" THEN "Move" ELSE @])
    /\ UNCHANGED hand

\* Pressure, tilt, rotation, slider, button: what is not sent again in a
\* frame is not in its sample.
Axis(d) ==
    /\ hand[d].where = "near"
    /\ Pend(d, [Tracked(d).pending EXCEPT !.reading = 1])
    /\ UNCHANGED hand

ToolEvent(d) ==
    \/ Type(d) \/ Done(d) \/ ProximityIn(d) \/ ProximityOut(d)
    \/ Down(d) \/ Up(d) \/ Motion(d) \/ Axis(d) \/ Frame(d) \/ Removed(d)

Next == \E d \in Tools : ToolEvent(d)

(***************************************************************************)
(* Properties.                                                             *)
(***************************************************************************)
\* A tool that is away, or removed, and whose last frame was flushed draws
\* nothing: its stroke was ended or cancelled, however its Up was treated
\* (adapter/wayland.rs, handle_wayland_proximity).
AwayIsEnded ==
    \A d \in Tools :
        hand[d].where # "near" /\ Tracked(d).pending = NoAxes
            => adapter.pens[d].pointer = NoPointer

=============================================================================
