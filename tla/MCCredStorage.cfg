SPECIFICATION StorageSpec
CONSTANTS
    NumSlots = 2
    ByteMod = 8
    Rps = {r1, r2, r3}
    Users = {u}
    Similar <- MCSimilar
    Empty = Empty
    DeviceKeys = {k1, k2}
    NoKey = NoKey
    MaxBacklog = 1
    MaxSigned = 5
    MaxLost = 3
SYMMETRY MCSymmetry
INVARIANTS
    CountersGrow
    DriftOnlyByCuts
PROPERTY
    RefusedStoresNothing
