SPECIFICATION StorageSpec
CONSTANTS
    NoPin = NoPin
    short = short
    long = long
    Pins <- MCPins
    PinLen <- MCPinLen
    Permissions <- MCPermissions
    PermRequests <- MCPermRequests
    MinLenRequests <- MCMinLenRequests
    MaxRetries = 3
    MismatchLimit = 2
    DefaultMinPin = 4
    MaxPinLen = 5
    ByteMod = 8
    MaxBacklog = 1
    MaxLost = 3
INVARIANTS
    MkekSurvivesCuts
    PaidAcrossCuts
    OldTokenStaysDead
    ShortPinForcedAcrossCuts
