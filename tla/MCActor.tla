------------------------------ MODULE MCActor -------------------------------
(***************************************************************************)
(* An instance of Actor in which the engine state is the log of the        *)
(* commands applied: whatever apply does, its result is a function of it.  *)
(* A history variable remembers where the last batch ended.                *)
(***************************************************************************)
EXTENDS Actor

VARIABLE
    settled     \* the EngineState when the thread was last between two batches

MCInitialState    == << >>
MCDefaultSnapshot == <<"default">>
MCApply(cmd, log) == Append(log, cmd)
MCSnapshot(log)   == log

\* The commands in a channel, of which Shutdown can only be the last
\* (ActorProofs).
CommandsIn(queue) ==
    IF queue # << >> /\ Last(queue) = Shutdown THEN Front(queue) ELSE queue

(***************************************************************************)
(* The history. The thread is between two batches while it waits in recv,  *)
(* and once it has left the loop.                                          *)
(***************************************************************************)
BatchInit == Init /\ settled = InitialState

BatchNext ==
    /\ Next
    /\ settled' = IF pc' \in {"recv", "exited"} THEN state' ELSE settled

BatchSpec == BatchInit /\ [][BatchNext]_<<vars, settled>> /\ Fairness

\* One publication per batch, not one per command ("drains + publishes in
\* batches"). At any moment, in the middle of a batch too, a reader holds the
\* document as the last whole batch left it, not an earlier one, nor one with
\* some of the commands of a batch and not the others.
PublishedBetweenBatches ==
    \/ snapshot = Snapshot(settled)
    \/ snapshot = DefaultSnapshot /\ settled = InitialState

(***************************************************************************)
(* The refinement.                                                         *)
(***************************************************************************)
Seen == IF snapshot = DefaultSnapshot THEN << >> ELSE snapshot

Log == INSTANCE CommandLog WITH
           MaxLog <- MaxSends,
           log    <- state \o CommandsIn(channel),
           seen   <- Seen,
           closed <- handle = "dropped"

\* Commands take effect in the order they were sent, none lost and none
\* twice; a reader's view only moves forward, each snapshot being the document
\* after a prefix of the commands; it catches up with every command sent; and
\* when Engine::drop returns everything sent before it was applied and
\* published, however the batches fell.
ImplementsLog == Log!Spec

=============================================================================
