CONSTANTS
    Accounts = {a, b}
    OldAccounts = {a}
    None = None
    TornAt = {2}
    MaxExpiries = 1
    Instances = {i}
    MaxRequests = 2
SPECIFICATION FairSpec
INVARIANTS
    KeychainIsOwners
    LoginGoesForward
    StatusMatchesChild
    NoStrayProcess
PROPERTIES
    DialogTellsTheTruth
    MainLoopReturns
CHECK_DEADLOCK FALSE
