SPECIFICATION Spec
CONSTANTS
    n1 = n1
    n2 = n2
    n3 = n3
    k1 = k1
    k2 = k2
    p1 = p1
    p2 = p2
    Names <- MCNames
    Keys <- MCKeys
    Pins <- MCPins
    Factors <- MCFactors
    NumSlots = 2
    MaxTries = 3
    Empty = Empty
    None = None
    MaxMade = 4
    MaxFactor = 3
SYMMETRY MCSymmetry
INVARIANTS
    NamesUnique
    HotpMovesOn
    CodeClosesSessions
    TriesArePaid
