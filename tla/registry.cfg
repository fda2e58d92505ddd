CONSTANTS
    Names = {a, b}
    None = None
    Invalid = Invalid
    MaxEdits = 3
    MaxRequests = 1
SPECIFICATION FairSpec
INVARIANTS
    FrontendMirrorsTable
    SettledRegistryMatchesDisk
PROPERTIES
    DeletesOnlyWhatWasShown
    EventuallyRegistered
CHECK_DEADLOCK FALSE
