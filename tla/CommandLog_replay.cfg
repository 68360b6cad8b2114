CONSTANTS
    a1 = a1
    a2 = a2
    d1 = d1
    NoBreak = NoBreak
    NoWatch = NoWatch
    WatchSlots <- MC_WatchSlots
    WatchAddrs <- MC_WatchAddrs
    Addrs <- MC_Addrs
    BreakSlots <- MC_BreakSlots
    OnceAddrs = {a1}
    MaxLog = 4
    MaxBoots = 2

SPECIFICATION Spec

PROPERTY ReplayRestoresBreakpoints
