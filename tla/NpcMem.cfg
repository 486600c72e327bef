SPECIFICATION Spec
CONSTANTS
    Tags = {0, 1, 2}
    Groups = {0}
    NWays = 2
    BeatBytes = 2
    InstBytes = 1
    Val = {0, 1}
    CodeTags = {2}
    DataTags = {0, 1}
    StartTag = 2
    PcOffsets = {0}
    Offsets = {1}
    Sizes = {1, 2}
    Values = {1}
    None = None
    Image <- MCImage
    Pcs <- MCPcs
    ResetPc <- MCResetPc
    Pc_4 <- MCPc_4
    NextLine <- MCNextLine
    Accesses <- InLineAccesses
INVARIANTS
    TypeOK
    UniqueWays
PROPERTIES
    IsFlatMemory
