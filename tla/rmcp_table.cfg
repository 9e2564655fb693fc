CONSTANTS
    c1 = c1
    c2 = c2
    c3 = c3
    k = k
    l = l
    Clients = {c1, c2, c3}
    NSlots = 2
    Sids = {s1, s2}
    Nonces = {n1}
    ConsoleId <- MCConsoleId
    Suite <- MCSuite
    Priv <- MCPriv
    UserIndex <- MCUserIndex
    Privs = {3}
    FreshIds = FALSE
    None = None
SPECIFICATION Spec
SYMMETRY ConsoleAndIdSymmetry
CHECK_DEADLOCK FALSE
INVARIANTS
    TypeOK
    OneEntryPerSession
PROPERTIES
    ActiveEntryKeepsOwner
