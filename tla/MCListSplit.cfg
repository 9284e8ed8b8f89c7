SPECIFICATION Spec
CONSTANTS
    Ip = {"h"}
    Port = {1, 2, 3}
    GameName = {"ut", "unreal", "deusex", "doom", ""}
    Cipher <- MCCipher
    OverrideBeacon = {"deusex"}
    OverrideClient = {"deusex"}
    LowerCase <- MCLowerCase
    ValidKeys <- MCValidKeys
    ValidGamenames <- MCValidGamenames
    Index = {"_0"}
    SupportedGames = {"ut", "unreal", "deusex"}
    AddressText <- MCAddressText
    Identity = "me"
    Ttl = 1
    Now = 2
    Scripts <- MCSplitScripts
    Rows <- MCRows
    MayCut = {"cut"}
INVARIANTS
    RequestAnswered
