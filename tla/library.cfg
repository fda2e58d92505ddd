CONSTANTS
    one = one
    other = other
    t1 = t1
    t2 = t2
    t3 = t3
    Launchers = {one, other}
    Tasks = {t1, t2, t3}
    Owner <- MCOwner
    Hashes = {h}
    NoHash = NoHash
    Files = {1, 2, 3, 4, 5}
    Size = 2
    Permits = 1
    Kinds = {"download", "copy", "launch"}
    MaxRequests = 2
    MaxMishaps = 1
    MaxCrashes = 1
SPECIFICATION Spec
INVARIANTS
    InstancesPlayWholeFiles
    UpdateKeepsAVersion
    NobodyIsStuck
PROPERTIES
    WholeFilesStay
CHECK_DEADLOCK FALSE
