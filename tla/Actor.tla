------------------------------- MODULE Actor --------------------------------
(***************************************************************************)
(* The engine handle and its actor thread (aj-engine: Engine, run_actor).  *)
(* The owner of the handle sends commands over an unbounded channel and    *)
(* reads the snapshot published last; the actor thread waits for a         *)
(* command, drains the channel, and publishes once for the whole batch.    *)
(* Dropping the handle sends Shutdown and joins the thread.                *)
(*                                                                         *)
(* What a command does is a parameter: Apply stands for apply(cmd, state)  *)
(* and Snapshot for EngineState::snapshot.                                 *)
(***************************************************************************)
EXTENDS Integers, Sequences, SequencesExt

CONSTANTS
    Commands,           \* the commands senders use, Shutdown not among them
    Shutdown,
    InitialState,       \* EngineState::new()
    DefaultSnapshot,    \* AppSnapshot::default()
    Apply(_, _),
    Snapshot(_),
    MaxSends            \* bound on the commands sent

ASSUME ShutdownAssumption == Shutdown \notin Commands
ASSUME MaxSendsAssumption == MaxSends \in Nat

VARIABLES
    channel,    \* commands in flight, oldest first
    sends,      \* how many commands were sent
    handle,     \* the Engine value: "open", "dropping" (in join) or "dropped"
    pc,         \* the actor thread: "recv", "drain", "publish" or "exited"
    stop,       \* a Shutdown was taken from the channel in this batch
    state,      \* the EngineState the thread owns
    snapshot    \* what the ArcSwap holds

actorVars  == <<pc, stop, state, snapshot>>
handleVars == <<sends, handle>>
vars       == <<channel, sends, handle, pc, stop, state, snapshot>>

Init ==
    /\ channel = << >>
    /\ sends = 0
    /\ handle = "open"
    /\ pc = "recv"
    /\ stop = FALSE
    /\ state = InitialState
    /\ snapshot = DefaultSnapshot

(***************************************************************************)
(* The handle.                                                             *)
(***************************************************************************)
Send(cmd) ==
    /\ handle = "open"
    /\ sends < MaxSends
    /\ channel' = Append(channel, cmd)
    /\ sends' = sends + 1
    /\ UNCHANGED <<handle, actorVars>>

Drop ==
    /\ handle = "open"
    /\ channel' = Append(channel, Shutdown)
    /\ handle' = "dropping"
    /\ UNCHANGED <<sends, actorVars>>

Join ==
    /\ handle = "dropping"
    /\ pc = "exited"
    /\ handle' = "dropped"
    /\ UNCHANGED <<channel, sends, actorVars>>

(***************************************************************************)
(* The actor thread. Shutdown only sets the flag: the rest of the batch is *)
(* still applied, and published before the thread exits.                   *)
(***************************************************************************)
\* Mutant of Take: the newest command first.
TakeNewest ==
    /\ channel # << >>
    /\ channel' = Front(channel)
    /\ IF Last(channel) = Shutdown
       THEN stop' = TRUE /\ UNCHANGED state
       ELSE state' = Apply(Last(channel), state) /\ UNCHANGED stop
    /\ UNCHANGED <<snapshot, handleVars>>

\* Mutant of Take: every command is published, not every batch.
TakeAndPublish ==
    /\ channel # << >>
    /\ channel' = Tail(channel)
    /\ IF Head(channel) = Shutdown
       THEN stop' = TRUE /\ UNCHANGED state
       ELSE state' = Apply(Head(channel), state) /\ UNCHANGED stop
    /\ snapshot' = Snapshot(state')
    /\ UNCHANGED handleVars

Take ==
    /\ channel # << >>
    /\ channel' = Tail(channel)
    /\ IF Head(channel) = Shutdown
       THEN stop' = TRUE /\ UNCHANGED state
       ELSE state' = Apply(Head(channel), state) /\ UNCHANGED stop
    /\ UNCHANGED <<snapshot, handleVars>>

\* Mutant of Recv: a batch of one command is not published.
RecvUnpublished == pc = "recv" /\ Take /\ pc' = IF Len(channel) = 1 THEN "recv" ELSE "drain"

Recv  == pc = "recv" /\ Take /\ pc' = "drain"
Drain == pc = "drain" /\ Take /\ UNCHANGED pc

\* Mutant of Drained: a stopping thread breaks out before it publishes.
DrainedAndGone ==
    /\ pc = "drain"
    /\ channel = << >>
    /\ pc' = IF stop THEN "exited" ELSE "publish"
    /\ UNCHANGED <<channel, stop, state, snapshot, handleVars>>

\* try_recv found the channel empty.
Drained ==
    /\ pc = "drain"
    /\ channel = << >>
    /\ pc' = "publish"
    /\ UNCHANGED <<channel, stop, state, snapshot, handleVars>>

\* Mutant of Publish: the outcome of apply is dropped.
PublishForever ==
    /\ pc = "publish"
    /\ snapshot' = Snapshot(state)
    /\ pc' = "recv"
    /\ UNCHANGED <<channel, stop, state, handleVars>>

Publish ==
    /\ pc = "publish"
    /\ snapshot' = Snapshot(state)
    /\ pc' = IF stop THEN "exited" ELSE "recv"
    /\ UNCHANGED <<channel, stop, state, handleVars>>

ActorStep == Recv \/ Drain \/ Drained \/ Publish

Done == handle = "dropped" /\ UNCHANGED vars

Next == (\E cmd \in Commands : Send(cmd)) \/ Drop \/ Join \/ ActorStep \/ Done

\* The operating system runs the actor thread, and wakes the joiner when it
\* exits. Nobody has to send or to drop.
Fairness == WF_vars(ActorStep) /\ WF_vars(Join)

Spec == Init /\ [][Next]_vars /\ Fairness

(***************************************************************************)
(* Properties.                                                             *)
(***************************************************************************)

\* When the thread exits it leaves nothing behind: every command sent before
\* the handle was dropped has been applied and published, wherever in a batch
\* Shutdown was.
NothingLeftBehind == pc = "exited" => channel = << >> /\ snapshot = Snapshot(state)

\* Engine::drop returns: it "sends Shutdown through the same channel and joins
\* the thread, so no orphan thread on app exit".
DropReturns == (handle = "dropping") ~> (handle = "dropped" /\ pc = "exited")

=============================================================================
