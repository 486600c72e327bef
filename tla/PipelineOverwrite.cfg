SPECIFICATION Spec
CONSTANTS
    a = a
    b = b
    Zero = x0
    Regs = {x0, a, b}
    Bits = {1}
    Insts <- OpInsts
    Adjacent <- Overwriting
    None = None
INVARIANTS
    OperandsArchitectural
