SPECIFICATION Spec
CONSTANTS
    SEL_INDEX_MAX = 4
    SEL_RSVID_MAX = 3
    MaxUnderflow = 1
    MaxRestarts = 2
    Events = {a, b}
    LogFull = LogFull
    LogCleared = LogCleared
    NoEvent = NoEvent
SYMMETRY EventSymmetry
PROPERTY
    ImplementsContents
