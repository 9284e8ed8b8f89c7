SPECIFICATION Spec
CONSTANTS
    Ip = {"h"}
    Port = {1, 2}
    GameName = {"ut", "deusex", "unknown"}
    Cipher <- MCCipher
    OverrideBeacon = {"deusex"}
    OverrideClient = {"deusex"}
    DefaultPort <- MCDefaultPort
    Announcement <- MCAnnouncement
    Timeout = 1
    MaxQueryId = 0
    InitQueryId = {1}
    SqlMayFail = FALSE
    LoseSignal = TRUE
    NoBeacon = NoBeacon
    MaxTime = 3
    MaxPending = 1
    MaxRows = 2
INVARIANTS
    TypeOK
    UniqueAddress
    PendingUnauthenticated
    BoundedWait
    ReadInTime
PROPERTIES
    AuthEarned
    RowsKept
