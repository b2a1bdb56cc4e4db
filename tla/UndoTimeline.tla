---------------------------- MODULE UndoTimeline ----------------------------
(***************************************************************************)
(* What the undo history promises: the document's versions form one line,  *)
(* a cursor points at the version shown, a new version replaces everything *)
(* after the cursor, and undo and redo move the cursor by one.             *)
(***************************************************************************)
EXTENDS Integers, Sequences

VARIABLES
    current,    \* the version the document shows
    versions,   \* every version that can be reached again, oldest first
    cursor      \* the position of the current one

Init ==
    /\ versions = <<current>>
    /\ cursor = 1

Commit ==
    /\ versions' = Append(SubSeq(versions, 1, cursor), current')
    /\ cursor' = cursor + 1

Undo ==
    /\ cursor > 1
    /\ cursor' = cursor - 1
    /\ current' = versions[cursor - 1]
    /\ UNCHANGED versions

Redo ==
    /\ cursor < Len(versions)
    /\ cursor' = cursor + 1
    /\ current' = versions[cursor + 1]
    /\ UNCHANGED versions

Next == Commit \/ Undo \/ Redo

Spec == Init /\ [][Next]_<<current, versions, cursor>>

=============================================================================
