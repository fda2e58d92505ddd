CONSTANTS
    Launches <- MCLaunches
    Documents <- MCDocuments
    QuickPlays = {"none", "singleplayer", "multiplayer"}
    ThisSystem = "linux"
    Items <- MCItems
    Keys = {0, 1}
    Leaves <- MCLeaves
    ListTypes <- MCListTypes
    Files <- MCFiles
    MaxDepth = 1
    Capacity = 120
    Width = 2
    MaxNodes = 4
    MaxReads = 1
    Instances = {"one", "two"}
    Options = {"volume", "resourcePacks"}
    LocalOptions = {"resourcePacks"}
    MaxClock = 6
SPECIFICATION MCSpec
CONSTRAINT OneThingShared
INVARIANTS
    GameIsStartedAsAsked
    LogIsShown
    DocumentIsWellFormed
    WrittenIsReadBack
PROPERTIES
    ReaderEnds
    ImplementsValue
    GamesStartInSync
CHECK_DEADLOCK FALSE
