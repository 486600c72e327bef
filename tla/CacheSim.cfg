SPECIFICATION Spec
CONSTANTS
    WordBytes = 2
    BlockWords = 1
    NGroups = 1
    NWays = 2
    NTags = 3
    Bytes = {0, 1}
    Lens = {1, 2}
INVARIANTS SameAnswers Overlay
CHECK_DEADLOCK FALSE
