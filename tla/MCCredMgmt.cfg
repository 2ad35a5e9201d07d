SPECIFICATION Spec
CONSTANTS
    NumSlots = 3
    ByteMod = 3
    Rps = {r1, r2}
    DeviceKeys = {k1, k2}
    NoKey = NoKey
    Empty = Empty
    NoHash = NoHash
    a = a
    ab = ab
    z = z
    Users <- MCUsers
    Similar <- MCSimilar
SYMMETRY MCSymmetry
INVARIANTS
    RpCountsMatch
    OnePerIsolatedUser
    RpEnumerationExact
    CredEnumerationExact
    HashOutlivesEnumeration
