SPECIFICATION Spec
CONSTANTS
    MaxPath = 5
    MaxPieces = 8
    Char <- Chars
    Path <- Paths
INVARIANTS
    PatternIsPath
    CastsFitGroups
PROPERTY ConstructorReturns
CHECK_DEADLOCK FALSE
