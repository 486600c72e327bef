CONSTANTS
    Files = {}
    Size <- NoFiles
    DiskOffset <- NoFiles
    RamdiskSize = 0
    Byte = {0, 1}
    MaxLen = 12
    Used = {5}
    Lens = {}
    SeekOffsets = {}
    M = 64
    Width = 3
    Height = 2
    Modes <- SomeModes
    Rects <- SomeRects
    Sprites <- SomeSprites
    Garbage <- SomeGarbage
SPECIFICATION VideoSpec
INVARIANTS SurfaceShown OnlyCanvasAsserts
PROPERTY DrawsInRectangle
\* A failed assertion ends the program.
CHECK_DEADLOCK FALSE
