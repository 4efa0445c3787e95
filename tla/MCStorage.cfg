CONSTANTS
    Absent = Absent
    Blank = Blank
    TornFile = TornFile
    None = None
    NoValue = NoValue
    Erased = Erased
    Torn = Torn
    Nothing = Nothing
    \* Three kinds of record, in a sector with room for two of them.
    Keys = {pin, cred, blob}
    Values = {old, new}
    SlotCapacity = 2
    MaxGeneration = 4
    \* Two sectors of two pages each; chips unknown, too small, and large enough.
    SectorSize = 4
    PageSize = 2
    RegionLen = 8
    Sizes = {0, 8, 16}
    Images = {3, 8}
    MaxLen = 2
    FileKeys = {pin, cred}
    \* Room for two of three credentials; one of two over the file.
    FlashCreds = {c1, c2, c3}
    FlashLimit = 2
    FlashCounts = 3
    FileCreds = {c1, c2}
    FileLimit = 1
    FileCounts = 2
    \* The size offered is above the one supported, so that both checks matter.
    Platforms = {p1, p2}
    Zero = Zero
    MaxSize = 3
    MaxOffered = 4
    MaxFragment = 2
    AppletStates = {v0, v1}
    Factory = v0
    SimCreds = {c1, c2}
    MaxCount = 2
SPECIFICATION MCSpec
\* A file with a torn journal does not open again.
CHECK_DEADLOCK FALSE
INVARIANTS TypeOK Recoverable NoGenerationTie WritesExact  BlobsKept
           SharedFileSafe
PROPERTIES   FileStoreSafe
