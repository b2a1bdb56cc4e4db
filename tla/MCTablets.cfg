CONSTANTS
    Devices = {"d0", "d1", "d2"}
    RangeDevice = "d0"
    Tools = {"d1"}
    Erasers = {"d1"}
    Contacts = {"c0", "c1"}
    PenContacts = {"c0"}
    MaxWire = 2
    MaxUpdates = 2
    MaxEvents <- MCMaxEvents
SPECIFICATION Spec
CHECK_DEADLOCK FALSE
INVARIANTS
    TypeOK
    GesturesAreWhole
    ActivePenDraws
    HeldIsOpen
    AwayIsEnded
    ProximityIsKnown
    LayoutIsCurrent
    LivePensDraw
    RevisionsFindTheirSample
PROPERTY
    PalmsAreRejected
