CONSTANTS
    Tasks = {t, u}
    None = None
    MaxEditions = 2
    MaxFailures = 1
    MaxExpiries = 1
    MaxFetches = 1
    MaxForced = 1
SPECIFICATION FairSpec
INVARIANTS
    ResultsAreGenuine
    ResultsAreFresh
PROPERTIES
    ExpiredIsReplaced
CHECK_DEADLOCK FALSE
