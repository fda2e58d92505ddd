CONSTANTS
    Mods = {sodium}
    Loaders = {l1, l2}
    None = None
    MaxEdits = 3
    AllowTwins = TRUE
    AllowCancel = TRUE
SPECIFICATION Spec
SYMMETRY LoaderSymmetry
INVARIANTS
    SingleFlight
    DirtyStateMatchesMarks
    NoLostWakeup
