CONSTANTS
    Texts <- MCTexts
    Widths = {"wide", "narrow"}
    Queries = {"", "q"}
    Height = 2
    LookBack = 1
    MaxItems = 3
    MaxMoves = 2
    Zipped = {"old"}
    ZippedTexts <- MCZippedTexts
    Plain = {"latest"}
    Pieces = {"q", "p", "x"}
    Ends = {"q", "x"}
    Bad = {"x"}
    LineRows <- MCLineRows
    FirstBuffer = 1
    ChannelSize = 1
    MaxPieces = 2
    MaxAsks = 3
    PageMoves = 1
    Uses = {"game", "page"}
SPECIFICATION MCSpec
CONSTRAINT LittleOfTheField
CHECK_DEADLOCK FALSE
INVARIANTS
    RowsAreConsistent
    PageShowsItsFile
PROPERTIES
    ImplementsView
    LeftReadersEnd
    LongLogsAreShown
