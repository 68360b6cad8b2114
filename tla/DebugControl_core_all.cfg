CONSTANTS
    c1 = c1
    c2 = c2
    a1 = a1
    a2 = a2
    NoBreak = NoBreak
    NoCore = NoCore
    Cores <- MC_Cores
    Addrs <- MC_Addrs
    BreakSlots <- MC_BreakSlots
    ContBudgets <- MC_ContBudgets
    MaxClocks <- MC_MaxClocks

SPECIFICATION Spec

INVARIANT SomeCoreDebuggable
