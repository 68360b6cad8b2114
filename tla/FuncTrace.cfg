CONSTANTS
    f1 = f1
    f2 = f2
    NCores = 2
    TraceSize = 2
    Funcs <- MC_Funcs
    BtNumbers = {1, 2}
    None = None

SPECIFICATION Spec

PROPERTY FuncTraceShowsNewest
