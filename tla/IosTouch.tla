------------------------------- MODULE IosTouch -------------------------------
(***************************************************************************)
(* The iOS handlers (adapter/ios.rs), driven as ios_touch.rs says its      *)
(* overlay view will drive them: each sub-touch is a sample, a sample may  *)
(* be an estimate that iOS promises to update, and the updates come in any *)
(* order, also after the touch is over. What it is to do when the view     *)
(* loses the focus (on_focus_lost) is left out: there is no iOS backend to *)
(* call it yet.                                                            *)
(***************************************************************************)
EXTENDS TabletHandlers

CONSTANTS
    MaxEvents,      \* bound on the events queued
    MaxUpdates      \* bound on the estimation update indexes iOS gives out

VARIABLES
    adapter,
    backend,        \* not used: the handlers are all there is
    hand            \* the touches that are down, and the updates promised

BackendOK == backend = "none"

Init ==
    /\ adapter = NewAdapter
    /\ backend = "none"
    /\ hand = [down |-> {}, promised |-> {}, nextUpdate |-> 1]

\* A sample that is to be updated is remembered under its index. A pencil that
\* is not known has no sample to remember.
Remember(a, pointer, update) ==
    IF update = 0 \/ pointer = NoPointer
    THEN a
    ELSE [a EXCEPT !.pending = {e \in @ : e.update # update}
                                  \cup {[update |-> update, pointer |-> pointer]}]

HandleIosRaw(a, touch, phase, update) ==
    CASE phase = "Hover" -> Hover(a, "Pen", 0)
      [] phase = "Down"  -> StartContact(Remember(a, a.nextPointer, update),
                                         touch, "Pen", TRUE, 1, update)
      [] OTHER           -> ContinueContact(Remember(a, a.contacts[touch].pointer, update),
                                            touch, phase, "Pen", 1, update)

Revise(a, pointer, update) == Emit(a, "Revise", pointer, "none", 0, update)

\* Mutant of HandleIosEstimatedUpdate: the estimate of any pointer will do.
HandleIosEstimatedUpdateAny(a, update) ==
    IF a.pending = {}
    THEN a
    ELSE LET e == CHOOSE e \in a.pending : TRUE
         IN  Revise([a EXCEPT !.pending = @ \ {e}], e.pointer, update)

HandleIosEstimatedUpdate(a, update) ==
    LET found == {e \in a.pending : e.update = update}
    IN  IF found = {}
        THEN a
        ELSE Revise([a EXCEPT !.pending = @ \ found],
                    (CHOOSE e \in found : TRUE).pointer, update)

HandleIosProximity(a, touch, entering) == IF entering THEN a ELSE ContactLeaves(a, touch)

Bounded == Len(adapter'.queue) <= MaxEvents

\* A sample of a touch, with an index if iOS will update it.
Touch(touch, phase, estimated) ==
    /\ (phase \in {"Down", "Hover"}) = (touch \notin hand.down)
    /\ estimated => hand.nextUpdate <= MaxUpdates /\ phase # "Hover"
    /\ LET update == IF estimated THEN hand.nextUpdate ELSE 0
       IN  /\ adapter' = HandleIosRaw(adapter, touch, phase, update)
           /\ hand' = [down       |-> CASE phase = "Down"  -> hand.down \cup {touch}
                                        [] phase \in Ends  -> hand.down \ {touch}
                                        [] OTHER           -> hand.down,
                       promised   |-> hand.promised \cup ({update} \ {0}),
                       nextUpdate |-> IF estimated THEN update + 1 ELSE hand.nextUpdate]
    /\ Bounded
    /\ UNCHANGED backend

EstimatedUpdate(update) ==
    /\ update \in hand.promised
    /\ adapter' = HandleIosEstimatedUpdate(adapter, update)
    /\ hand' = [hand EXCEPT !.promised = @ \ {update}]
    /\ Bounded
    /\ UNCHANGED backend

\* The pencil leaves: whatever touch it was is over.
PencilLeaves(touch) ==
    /\ adapter' = HandleIosProximity(adapter, touch, FALSE)
    /\ hand' = [hand EXCEPT !.down = @ \ {touch}]
    /\ Bounded
    /\ UNCHANGED backend

\* A tap or a squeeze is told to the app as it is.
PencilInteraction ==
    /\ adapter' = Emit(adapter, "PencilInteraction", NoPointer, "none", 0, 0)
    /\ Bounded
    /\ UNCHANGED <<backend, hand>>

Next ==
    \/ \E t \in Contacts :
           \/ \E phase \in {"Down", "Move", "Up", "Cancel", "Hover"}, estimated \in BOOLEAN :
                  Touch(t, phase, estimated)
           \/ PencilLeaves(t)
    \/ \E u \in 1 .. MaxUpdates : EstimatedUpdate(u)
    \/ PencilInteraction

(***************************************************************************)
(* Properties.                                                             *)
(***************************************************************************)
\* However late and in whatever order iOS updates its estimates, a revision
\* names the pointer of the sample that was estimated under its index, comes
\* after that sample, and is the only one of it.
RevisionsFindTheirSample ==
    \A i \in DOMAIN adapter.queue :
        LET revision == adapter.queue[i]
        IN  revision.phase = "Revise" =>
                /\ \E j \in 1 .. i - 1 :
                       /\ adapter.queue[j].phase # "Revise"
                       /\ adapter.queue[j].pointer = revision.pointer
                       /\ adapter.queue[j].update = revision.update
                /\ \A j \in 1 .. i - 1 :
                       adapter.queue[j].phase = "Revise"
                           => adapter.queue[j].update # revision.update

=============================================================================
