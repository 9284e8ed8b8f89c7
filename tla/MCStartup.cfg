SPECIFICATION Spec
CONSTANTS
    LastDay = 2
    Year <- MCYear
    Month <- MCMonth
    Week <- MCWeek
    Files <- MCFiles
    Games <- MCGames
    Answers = {"y", "n"}
    MayFail = {"create", "insertVersion", "selectVersion", "count", "insertGame"}
    MaxFaults = 2
    BUILD_VERSION = 28
    DATABASE_VERSION = 27
INVARIANTS
    TypeOK
    RunsOnWholeDatabase
    GamesComplete
    StaysUsable
    SettingsSound
PROPERTIES
    LoggedUnderItsDate
