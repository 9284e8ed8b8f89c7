SPECIFICATION Spec
CONSTANTS
    Ip = {h1, h2}
    Port = {1}
    GameName = {"ut", "unknown"}
    GameInfo = {"ut"}
    Interval = 1
    Ttl = 2
    BeaconAge = 1
    PlayerAge = 1
    SqlMayFail = FALSE
    MaxTime = 4
INVARIANTS
    DetailsRecent
