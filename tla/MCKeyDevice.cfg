SPECIFICATION Spec
CONSTANTS
    l1 = l1
    l2 = l2
    LockKeys <- MCLockKeys
    NoLock = NoLock
    None = None
    MaxKeys = 3
SYMMETRY MCSymmetry
INVARIANTS
    SealedAlone
PROPERTIES
    LockOpensOnlyByKey
    KeyLostOnlyWhenStale
    UsedKeyStaysOrGoes
