SPECIFICATION FairSpec
CONSTANTS
    W = 8
    Operands <- SomeWords
INVARIANTS
    ResultRight
    UnitsInStep
PROPERTIES
    OperationEnds
