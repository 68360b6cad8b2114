CONSTANTS
    NFds = 8
    Ports <- MC_AllPorts
    Closed = Closed
    GuestRetInit <- MC_RetErr

SPECIFICATION Spec

CHECK_DEADLOCK FALSE

INVARIANT WritesReachTarget
