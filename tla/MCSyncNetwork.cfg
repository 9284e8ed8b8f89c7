SPECIFICATION Spec
CONSTANTS
    Ip = {"h"}
    Port = {1}
    GameName = {"ut"}
    Masters = {"A", "B"}
    Peers <- MCPeers
    GameOf <- MCGameOf
    Uplinks <- MCUplinks
    Interval = 3
    MaxDelay = 1
    Ttl = 2
    MaxTime = 8
    MaxRestarts = 1
INVARIANTS
    TypeOK
    StaleForgotten
    EveryPeerContacted
