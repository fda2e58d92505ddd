CONSTANTS
    Mods = {sodium, lithium}
    Loaders = {l1, l2}
    None = None
    MaxEdits = 2
    AllowTwins = FALSE
    AllowCancel = FALSE
SPECIFICATION FairSpec
INVARIANTS
    SettledListMatchesFolder
PROPERTIES
    LoadsEnd
    EventuallyFresh
