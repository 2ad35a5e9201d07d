SPECIFICATION Spec
CONSTANTS
    r1 = r1
    r2 = r2
    Rps <- MCRps
    Kinds <- MCKinds
    NumSlots = 3
    MaxList = 2
    MaxMade = 3
    Empty = Empty
INVARIANTS
    ProtectedNeedsUv
    NextAssertionsExact
