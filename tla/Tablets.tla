------------------------------- MODULE Tablets -------------------------------
(***************************************************************************)
(* The stylus adapter on every platform but macOS (App.tla): one platform  *)
(* is chosen and stays. Each has a module with its backend, its handlers   *)
(* and its environment; they share the adapter, and what they owe the app  *)
(* is stated here, over the events the adapter queued.                     *)
(***************************************************************************)
EXTENDS TabletHandlers

CONSTANTS
    RangeDevice,        \* the device Windows names its range events after
    Tools,              \* the devices that are tools on Wayland and X11
    Erasers,            \* the tools that are erasers
    PenContacts,        \* the contacts that are pens
    MaxWire, MaxUpdates,    \* bounds of X11Tablet and IosTouch
    MaxEvents           \* bound on the events queued, for each platform

Platforms == {"wayland", "x11", "windows", "web", "ios", "android"}

ASSUME TabletAssumption ==
    /\ RangeDevice \in Devices /\ Tools \subseteq Devices
    /\ Erasers \subseteq Tools
    /\ PenContacts \subseteq Contacts
    /\ MaxEvents \in [Platforms -> Nat] /\ MaxUpdates \in Nat

VARIABLES
    platform,   \* the build
    adapter,    \* the StylusAdapter
    backend,    \* the state of the platform's backend
    hand        \* its environment: the user, the compositor, server or browser

vars == <<platform, adapter, backend, hand>>

Wayland == INSTANCE WaylandTablet WITH MaxEvents <- MaxEvents["wayland"]
X11     == INSTANCE X11Tablet WITH MaxEvents <- MaxEvents["x11"]
Windows == INSTANCE WindowsTablet WITH MaxEvents <- MaxEvents["windows"]
Web     == INSTANCE WebPointer WITH MaxEvents <- MaxEvents["web"]
Ios     == INSTANCE IosTouch WITH MaxEvents <- MaxEvents["ios"]
Android == INSTANCE AndroidMotion WITH MaxEvents <- MaxEvents["android"]

Init ==
    \/ platform = "wayland" /\ Wayland!Init
    \/ platform = "x11"     /\ X11!Init
    \/ platform = "windows" /\ Windows!Init
    \/ platform = "web"     /\ Web!Init
    \/ platform = "ios"     /\ Ios!Init
    \/ platform = "android" /\ Android!Init

Next ==
    /\ \/ platform = "wayland" /\ Wayland!Next
       \/ platform = "x11"     /\ X11!Next
       \/ platform = "windows" /\ Windows!Next
       \/ platform = "web"     /\ Web!Next
       \/ platform = "ios"     /\ Ios!Next
       \/ platform = "android" /\ Android!Next
    /\ UNCHANGED platform

Spec == Init /\ [][Next]_vars

(***************************************************************************)
(* Properties of every platform.                                           *)
(***************************************************************************)
Pointers == 1 .. adapter.nextPointer - 1

Entry(pointers) == [pointer : pointers \cup {NoPointer}, tool : Tool] \cup {NoPen}

\* The type invariant: every pointer in use was minted.
TypeOK ==
    /\ adapter.pens \in [DOMAIN adapter.pens -> Entry(Pointers)]
    /\ adapter.contacts \in [Contacts -> Entry(Pointers)]
    /\ adapter.activePen \in Pointers \cup {NoPointer}
    /\ adapter.pending \subseteq [update : 1 .. MaxUpdates, pointer : Pointers]
    /\ platform \in Platforms
    /\ platform = "wayland" => Wayland!BackendOK
    /\ platform = "x11"     => X11!BackendOK
    /\ platform = "windows" => Windows!BackendOK
    /\ platform = "web"     => Web!BackendOK
    /\ platform = "ios"     => Ios!BackendOK
    /\ platform = "android" => Android!BackendOK

\* The samples of a pointer, by their place in the queue.
SamplesOf(pointer) ==
    {i \in DOMAIN adapter.queue :
        adapter.queue[i].pointer = pointer /\ adapter.queue[i].phase # "Revise"}

\* A gesture is a Down, then Moves, then at most one Up or Cancel, and a
\* pointer is used for one gesture (input.rs, PointerId). App::on_sample
\* relies on it: a Move or an Up without its Down is dropped. The tool is that
\* of the Down, though the platform may name another in the middle of the
\* gesture (adapter/web.rs, WebPointerState).
GesturesAreWhole ==
    \A p \in Pointers : \A i \in SamplesOf(p) :
        /\ \A j \in SamplesOf(p) : adapter.queue[i].tool = adapter.queue[j].tool
        /\ (adapter.queue[i].phase = "Down") = (\A j \in SamplesOf(p) : i <= j)
        /\ adapter.queue[i].phase \in Ends => \A j \in SamplesOf(p) : j <= i

\* The pen that silences the mouse (active_pen_pointer) is one that draws: the
\* flag is cleared by whatever ends its stroke, or the mouse is dead for good.
Held ==
    {adapter.pens[d].pointer : d \in DOMAIN adapter.pens}
        \cup {adapter.contacts[c].pointer : c \in Contacts}

ActivePenDraws == adapter.activePen \in Held \cup {NoPointer}

\* Nothing that holds a pointer has had its gesture ended: the next Down of the
\* device is not taken for the old stroke.
HeldIsOpen ==
    \A p \in Held \cap Pointers : \A i \in SamplesOf(p) : adapter.queue[i].phase \notin Ends

(***************************************************************************)
(* Properties of one platform, stated in its module.                       *)
(***************************************************************************)
AwayIsEnded              == platform = "wayland" => Wayland!AwayIsEnded
ProximityIsKnown         == platform = "x11" => X11!ProximityIsKnown
LayoutIsCurrent          == platform = "x11" => X11!LayoutIsCurrent
LivePensDraw             == platform = "web" => Web!LivePensDraw
LiftedFingersStop        == platform = "web" => Web!LiftedFingersStop
RevisionsFindTheirSample == platform = "ios" => Ios!RevisionsFindTheirSample

\* Palm rejection (web_pointer.rs, windows_tablet.rs): no step tells the app of
\* a finger, down before the pen came or not, while a pen draws on the web, or
\* is in range on Windows and no other has left since it came. The gates know
\* of pens by what they were last told: live_pens and pen_in_range.
PenIsThere ==
    \/ platform = "web" /\ Web!PenDraws
    \/ platform = "windows" /\ Windows!PenIsNear

PalmsAreRejected ==
    [][PenIsThere =>
          ~\E i \in DOMAIN adapter'.queue :
               i > Len(adapter.queue) /\ adapter'.queue[i].tool = "Finger"]_vars

=============================================================================
