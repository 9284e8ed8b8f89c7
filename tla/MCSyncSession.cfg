SPECIFICATION Spec
CONSTANTS
    Ip = {"h"}
    Port = {1, 2, 3}
    GameName = {"ut", "rune", "333networks", ""}
    Cipher <- MCCipher
    OverrideBeacon = {}
    OverrideClient = {}
    LowerCase <- MCNone
    ValidKeys <- MCNone
    ValidGamenames <- MCNone
    Index = {"_0"}
    SupportedGames = {"ut", "rune", "333networks"}
    AddressText <- MCAddressText
    Identity = "me"
    Ttl = 1
    Now = 2
    MayCut = {"whole", "cut"}
    SelfGame = "333networks"
    SyncGames <- MCSome
    Msid = "other"
    RemoteTables <- MCRemote
    LocalTables <- MCLocal
INVARIANTS
    TypeOK
    WholeExchangeSucceeds
PROPERTIES
    SyncComplete
    ExchangeIsAtomic
    SessionEnds
