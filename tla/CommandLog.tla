----------------------------- MODULE CommandLog -----------------------------
(***************************************************************************)
(* What the engine handle promises to the thread that owns it: commands    *)
(* form a log in the order they were sent, a reader sees the effect of a   *)
(* prefix of it that only grows and catches up, and once the handle is     *)
(* closed the reader has seen all of it.                                   *)
(***************************************************************************)
EXTENDS Integers, Sequences

CONSTANTS Commands, MaxLog

VARIABLES
    log,    \* the commands sent
    seen,   \* the commands whose effect a reader sees
    closed  \* the handle has been dropped

Init == log = << >> /\ seen = << >> /\ closed = FALSE

Submit ==
    /\ ~closed
    /\ \E cmd \in Commands : log' = Append(log, cmd)
    /\ UNCHANGED <<seen, closed>>

Show ==
    /\ \E n \in Len(seen)..Len(log) : seen' = SubSeq(log, 1, n)
    /\ UNCHANGED <<log, closed>>

Close ==
    /\ seen = log
    /\ closed' = TRUE
    /\ UNCHANGED <<log, seen>>

Next == Submit \/ Show \/ Close

CatchesUp == \A n \in 1..MaxLog : (Len(log) >= n) ~> (Len(seen) >= n)

Safety == Init /\ [][Next]_<<log, seen, closed>>

Spec == Safety /\ CatchesUp

=============================================================================
