SPECIFICATION FairSpec
CONSTANTS
    Tags = {0, 1, 2, 3}
    Groups = {0}
    NWays = 1
    BeatBytes = 1
    InstBytes = 1
    Val = {0, 1}
    CodeTags = {2, 3}
    DataTags = {0, 1}
    StartTag = 2
    PcOffsets = {0}
    Offsets = {1}
    Sizes = {1}
    Values = {0, 1}
    None = None
    Image <- MCImage
    Pcs <- MCPcs
    ResetPc <- MCResetPc
    Pc_4 <- MCPc_4
    NextLine <- MCNextLine
    Accesses <- InLineAccesses
INVARIANTS
    FetchReturnsImage
    FetchInOrder
    BusInStep
PROPERTIES
    RequestStable
    AccessCompletes
    FetchCompletes
