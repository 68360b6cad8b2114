CONSTANTS
    MemMaps <- MC_MemMaps
    Elfs <- MC_Elfs
    UnitKB = 2
SPECIFICATION Spec
INVARIANT LoadComplete
INVARIANT MallocUnitsInPool
\* elf_load returns and the process goes on elsewhere: the loader's final
\* state has no successor.
CHECK_DEADLOCK FALSE
