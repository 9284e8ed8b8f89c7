SPECIFICATION Spec
CONSTANTS
    Ip = {"h"}
    Port = {2, 3}
    GameName = {"ut", "unknown", ""}
    Cipher <- MCCipher
    OverrideBeacon = {}
    OverrideClient = {}
    Listed <- MCListedOther
    Runs <- MCRuns
    ReplyFrom <- MCReplyFrom
    Extended = TRUE
    Parts = 1
    CycleTicks = 2
    Ttl = 4
    Reorder = TRUE
    Duplicate = TRUE
    Lossy = TRUE
    LateReplies = TRUE
    LoseSignal = TRUE
    SqlMayFail = TRUE
    MaxTime = 3
    MaxRows = 2
    MaxPending = 1
INVARIANTS
    OneInfoPerServer
    UniqueAddress
    ReadAfterTwoQueries
PROPERTIES
    AuthEarned
