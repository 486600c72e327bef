SPECIFICATION FairSpec
CONSTANTS
    a = a
    b = b
    Zero = x0
    Regs = {x0, a, b}
    Bits = {1}
    Insts <- AllInsts
    Adjacent <- Careful
    None = None
INVARIANTS
    OperandsArchitectural
    InOrder
    BusyExact
    HaltSeesResults
    TrapTargetArchitectural
PROPERTIES
    OperandsArrive
