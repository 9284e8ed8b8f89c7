SPECIFICATION Spec
CONSTANTS
    Ip = {"h"}
    Port = {1}
    GameName = {"ut", "deusex", "unknown"}
    Cipher <- MCCipher
    OverrideBeacon = {"deusex"}
    OverrideClient = {"deusex"}
    DefaultPort <- MCDefaultPort
    Announcement <- MCOneServer
    Timeout = 1
    MaxQueryId = 0
    InitQueryId = {1}
    SqlMayFail = FALSE
    LoseSignal = FALSE
    NoBeacon = NoBeacon
    MaxTime = 3
    MaxPending = 1
    MaxRows = 2
PROPERTIES
    UnauthenticatedChallenged
