SPECIFICATION Spec
CONSTANTS
    SEL_INDEX_MAX = 4
    SEL_RSVID_MAX = 3
    MaxUnderflow = 3
    MaxRestarts = 0
    Events = {a, b}
    LogFull = LogFull
    LogCleared = LogCleared
    NoEvent = NoEvent
SYMMETRY EventSymmetry
INVARIANT
    EntriesAreEndMinusBegin
