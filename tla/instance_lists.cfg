CONSTANTS
    Worlds = {w1, w2}
    Loaders = {l1, l2}
    None = None
    MaxEdits = 3
SPECIFICATION ListsSpec
SYMMETRY Symmetry
CONSTRAINT OneListInUse
INVARIANTS
    BothLoadingMeansOneLoader
    ListsAreCurrent
