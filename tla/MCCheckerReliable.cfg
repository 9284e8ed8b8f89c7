SPECIFICATION Spec
CONSTANTS
    Ip = {"h"}
    Port = {1, 2, 3}
    GameName = {"ut", "unknown", ""}
    Cipher <- MCCipher
    OverrideBeacon = {}
    OverrideClient = {}
    Listed <- MCListed3
    Runs <- MCRuns
    ReplyFrom <- MCSamePort
    Extended = TRUE
    Parts = 2
    CycleTicks = 4
    Ttl = 4
    Reorder = FALSE
    Duplicate = FALSE
    Lossy = FALSE
    LateReplies = FALSE
    LoseSignal = FALSE
    SqlMayFail = FALSE
    MaxTime = 9
    MaxRows = 2
    MaxPending = 2
INVARIANTS
    TypeOK
    GamenameTrue
    InfoFromOneReply
    AskedOnce
PROPERTIES
    CycleCoversAll
