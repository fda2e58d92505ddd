CONSTANTS
    Worlds = {w1}
    Loaders = {l1, l2}
    None = None
    MaxEdits = 4
SPECIFICATION Spec
INVARIANT SettledWorldsMatchDisk
