CONSTANTS
    NUnits = 4
    UnitSize = 2
    Width = 4
    MallocSizes = {0, 2, 4}
    ReallocSizes = {3, 4}
    CallocArgs <- MC_CallocWraps
    NoTag = NoTag

SPECIFICATION Spec

INVARIANT BlocksIntact
