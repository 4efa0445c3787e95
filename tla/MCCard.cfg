CONSTANTS
    Applets <- MCApplets
    NoLe = NoLe
    Empty = Empty
    LeMax = 4
    ResponseWindow = 3
    PacketSize = 3
    HeaderLen = 1
    MaxMsgLen = 8
    AtrLen = 3
    ParamLen = 1
    SwLen = 2
    DefaultParams = p0
    OtherParams = {p1}
    Les = {NoLe, 4}
    Aids <- MCAids
    SelectLen = 1
    BodyLens = {0, 9}
    ApduLens = {1, 5}
    Ways = {"control", "send_remaining"}
    SendsZlp = TRUE
    MaxProbes = 1
    MaxSeq = 7
    MaxTag = 7
    MaxHidPackets = 1
    MaxTries = 2
SPECIFICATION Spec
INVARIANTS ApduAnswered 
 
