CONSTANTS
    Launchers = {one, other}
    Slots <- MCSlots
    File <- MCFile
    LoadOf <- MCLoadOf
    Hashed = {"java", "installer", "tool"}
    Unskippable = {"mappings"}
    Loaders = {"fabric", "modern", "legacy", "bare"}
    MaxLaunches = 2
    MaxMishaps = 1
SPECIFICATION Spec
INVARIANTS
    StartedWithItsFiles
    FailuresAreNotInherited
    ProgressAddsUp
SYMMETRY LauncherSymmetry
CHECK_DEADLOCK FALSE
CONSTRAINT FewMixtures
