CONSTANTS
    c1 = c1
    c2 = c2
    Cores <- MC_TwoCores
    NSlots = 2
    MaxOpens = 4
    GuestRetInit <- MC_RetErr
    GuestMisuse = FALSE
    NoDir = NoDir
    NoSlot = NoSlot

SPECIFICATION Spec

INVARIANT DirTableSound
