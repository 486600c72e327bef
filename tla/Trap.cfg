CONSTANTS
    Val = {0, 1}
    Results = {0, 1}
    UserPcs = {0}
    MaxFrames = 2
    MemSize = 15
    Words = {3}
    Programs = {"menu", "game"}
    Headers <- TwoPrograms
    Menu = "menu"
    HeapStart = 1
    PhdrWords = 1
SPECIFICATION TrapFairSpec
INVARIANTS ContextRestored
PROPERTIES ProgramLoaded CallsEnd
\* The kernel panics, and MaxFrames bounds the contexts left behind.
CHECK_DEADLOCK FALSE
