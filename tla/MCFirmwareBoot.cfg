CONSTANTS
    None = None
    \* Management has no rollback.
    Applets <- MCApplets
    IdWords <- MCIdWords
    RollsBack = {}
    Width = 5
    Gamma = 21
    MaxBoots = 2
    MaxChanges = 2
    \* Two programs that make three requests each; a message of a single packet, the
    \* longest one, and one packet more.
    Clients = {c1, c2}
    CidCount = 8
    FirstCid = 5
    MaxPackets = 3
    MaxPolls = 2
    Lengths = {1, 3, 4}
    MaxReply = 2
    MaxRequests = 3
    Window = 4
SPECIFICATION FirmwareSpec
CHECK_DEADLOCK FALSE
INVARIANTS SurvivesPowerCycle
