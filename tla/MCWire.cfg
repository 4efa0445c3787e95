CONSTANTS
    Absent = Absent
    Nothing = Nothing
    Params = {p, q}
    MaxChanges = 2
    Pins <- MCPins
    BlockLen = 2
    PadLen = 4
    PIN_MIN_LENGTH = 2
    PIN_MAX_LENGTH = 3
    PIN_MAX_RETRIES = 3
    PIN_BLOCK_THRESHOLD = 2
    MaxKeys = 2
    MaxAsks = 2
    MaxFaults = 1
    Offers <- MCOffers
    MaxUpdates = 2
    Products <- MCProducts
    Configs = {"UsbHid", "UsbCcid"}
    MaxCalls = 2
    Kinds <- MCKinds
    MaxLen = 3
    MaxMsgs = 2
    LinkFaults = 2
SPECIFICATION MCSpec
\* Each part ends with the last message read.
CHECK_DEADLOCK FALSE
INVARIANTS  DoneAsAuthorized PinAsTyped AssertionVerifies CommandAsSent
            
