CONSTANTS
    short = short
    long = long
    \* Low limits where writes fail, so that they are reached often.
    FaultyMaxRetries = 3
    FaultyThreshold = 2
    Pins <- MCPins
    PinLength <- MCPinLength
    NoPin = NoPin
    NoToken = NoToken
    PinMinLength = 4
    PinMaxLength = 63
    PinMaxRetries = 8
    PinBlockThreshold = 3
    UvMaxRetries = 2
    MinLengths <- MCMinLengths
    BuiltinUv = FALSE
    StoreFaults = FALSE
    SortedKeys = TRUE
    DirectApi = FALSE
SPECIFICATION MCSpec
INVARIANTS TypeOK BoundedGuessing SessionLockout FaultyTokenOfCurrentPin
 
