SPECIFICATION Spec
CONSTANTS
    Ip = {h1, h2}
    Port = {1}
    GameName = {"ut", "unknown"}
    GameInfo = {"ut"}
    Interval = 1
    Ttl = 2
    BeaconAge = 1
    PlayerAge = 1
    SqlMayFail = TRUE
    MaxTime = 3
SYMMETRY Symmetry
INVARIANTS
    TypeOK
    DirectIsRecent
    PlayersRecent
    KeepsCurrentData
