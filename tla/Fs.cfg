CONSTANTS
    Files <- TwoFiles
    Size <- TwoSizes
    DiskOffset <- TwoOffsets
    SeekOffsets <- SomeSeeks
    RamdiskSize = 3
    Byte = {0, 1}
    MaxLen = 3
    Lens = {0, 1, 2, 3}
    Used = {0, 1, 3, 6, 7}
    M = 8
    Width = 1
    Height = 1
SPECIFICATION Spec
INVARIANTS RamdiskInBounds
 
\* A panic stops the machine.
CHECK_DEADLOCK FALSE
