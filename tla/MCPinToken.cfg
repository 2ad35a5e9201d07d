SPECIFICATION BlobSpec
CONSTANTS
    r1 = r1
    r2 = r2
    empty = empty
    some = some
    more = more
    Rps <- MCRps
    NoRp = NoRp
    PermRequests <- MCPermRequests
    Empty = Empty
    Arrays <- MCArrays
    ArrayLen <- MCArrayLen
    MinLength = 2
    MaxFragment = 2
SYMMETRY MCSymmetry
INVARIANTS
    GrantedLbwLasts
    AckedIsStored
PROPERTIES
    UvIsFresh
    ServedAsGranted
    RegistrationBindsToken
