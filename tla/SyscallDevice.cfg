CONSTANTS
    c1 = c1
    Cores <- MC_OneCore
    NSlots = 2
    MaxOpens = 4
    GuestRetInit <- MC_RetErr
    GuestMisuse = FALSE
    NoDir = NoDir
    NoSlot = NoSlot
    NFds = 8
    Ports <- MC_PipePorts
    Closed = Closed

SPECIFICATION Spec

\* An ASSERT abort really ends athrill: nothing follows it.
CHECK_DEADLOCK FALSE

INVARIANT TypeOK
INVARIANT DirTableSound
INVARIANT HeldAreOpen
INVARIANT NoStaleDirUse
INVARIANT WritesReachTarget
INVARIANT NoFdLeak
INVARIANT EndOfDataByKind
