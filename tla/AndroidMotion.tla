---------------------------- MODULE AndroidMotion ----------------------------
(***************************************************************************)
(* The Android handlers (adapter/android.rs), driven as android_motion.rs  *)
(* says its MotionEvent pump will drive them: the samples of a pointer in  *)
(* the order of time, no finger while a stylus draws, hover exits as       *)
(* proximity. Pointer ids are stable within a gesture only.                *)
(***************************************************************************)
EXTENDS TabletHandlers

CONSTANTS
    PenContacts,    \* the pointers that are styluses; the others are fingers
    MaxEvents       \* bound on the events queued

VARIABLES
    adapter,
    backend,        \* not used: the handlers are all there is
    hand            \* the pointers that are down

BackendOK == backend = "none"

Init ==
    /\ adapter = NewAdapter
    /\ backend = "none"
    /\ hand = {}

\* A finger does not silence the mouse.
HandleAndroidRaw(a, pointer, phase, tool) ==
    CASE phase = "Hover" -> Hover(a, tool, 0)
      [] phase = "Down"  -> StartContact(a, pointer, tool, tool \in {"Pen", "Eraser"}, 1, 0)
      [] OTHER           -> ContinueContact(a, pointer, phase, tool, 1, 0)

HandleAndroidProximity(a, pointer, entering) == IF entering THEN a ELSE ContactLeaves(a, pointer)

Bounded == Len(adapter'.queue) <= MaxEvents

AndroidTool(c) == IF c \in PenContacts THEN "Pen" ELSE "Finger"

Motion(c, phase) ==
    /\ (phase \in {"Down", "Hover"}) = (c \notin hand)
    /\ adapter' = HandleAndroidRaw(adapter, c, phase, AndroidTool(c))
    /\ hand' = CASE phase = "Down" -> hand \cup {c}
                 [] phase \in Ends -> hand \ {c}
                 [] OTHER          -> hand
    /\ Bounded
    /\ UNCHANGED backend

\* A stylus may leave without an Up.
HoverExit(c) ==
    /\ c \in PenContacts
    /\ adapter' = HandleAndroidProximity(adapter, c, FALSE)
    /\ hand' = hand \ {c}
    /\ Bounded
    /\ UNCHANGED backend

Next ==
    \E c \in Contacts :
        \/ \E phase \in {"Down", "Move", "Up", "Cancel", "Hover"} : Motion(c, phase)
        \/ HoverExit(c)

=============================================================================
