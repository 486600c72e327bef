CONSTANTS
    ImgCells = {"img"}
    HeapCells = {}
    Val = {0, 1}
    Exprs = {"img", "dev", "bad"}
    NR_WP = 3
    MaxSteps = 1
    Numbers = {1, 2}
    BinaryOps = {"+", "-", "*", "/"}
    UnaryOps = {"-"}
    MaxTokens = 6
    vaddr_read <- ReadWord
SPECIFICATION Spec
INVARIANTS PoolSplit ReferenceAgrees NoFalseAlarm PrintsValue
PROPERTIES IsWatchList EndIsFinal
\* The q command, a failed assertion or a fault ends NEMU.
CHECK_DEADLOCK FALSE
