SPECIFICATION Spec
CONSTANTS
    SEL_INDEX_MAX = 4
    SEL_RSVID_MAX = 3
    MaxUnderflow = 3
    MaxRestarts = 1
    Events = {a, b}
    LogFull = LogFull
    LogCleared = LogCleared
    NoEvent = NoEvent
SYMMETRY EventSymmetry
INVARIANTS
    TypeOK
    EndInArray
    RoomForAnnouncement
    FileMirrorsMemory
    IdsMatchPositions
    ListingCoversLog
