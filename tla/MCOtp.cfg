SPECIFICATION StorageSpec
CONSTANTS
    a1 = a1
    a2 = a2
    AccCodes <- MCAccCodes
    Seeds <- MCSeeds
    CtrMax = 2
    CtrMod = 4
    SessMod = 2
    Empty = Empty
    Lost = Lost
    None = None
    MaxConfigs = 2
    MaxBacklog = 0
    MaxLost = 1
SYMMETRY MCSymmetry
VIEW MCView
INVARIANT RepeatsAreLostWrites
PROPERTIES
    CodesGrow
    LostOnlyWithCode
