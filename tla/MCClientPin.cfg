SPECIFICATION Spec
CONSTANTS
    NoPin = NoPin
    short = short
    other = other
    long = long
    huge = huge
    Pins <- MCPins
    PinLen <- MCPinLen
    Permissions <- MCPermissions
    PermRequests <- MCPermRequests
    MinLenRequests <- MCMinLenRequests
    MaxRetries = 5
    MismatchLimit = 3
    DefaultMinPin = 4
    MaxPinLen = 6
    ByteMod = 8
INVARIANTS
    MkekFollowsPin
    TokenHolderCanLoadKey
    TokenFollowsPin
    ShortPinIsForced
PROPERTY
    GateSpec
