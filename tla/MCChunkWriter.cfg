CONSTANTS
    a = a
    b = b
    Measurements = {"column"}
    Points <- MCPoints
    NullCell <- MCNullCell
    MaxBatch = 3
    MaxGiven = 5
    MaxGhosts = 2
    TimeBytes = 1
    ValueBytes = 1
    MaxPageSize = 5
    I64Min = 0
    I64Max = 3
    MiniBlocksPerPage = 2
    MinPointsPerMiniBlock = 1
SPECIFICATION Spec
CHECK_DEADLOCK FALSE
INVARIANTS
    TypeOK
    PagesHoldGiven
    OpenPageHoldsRest
    StatsCoverPage
    PageSizeBound
    PanicNeedsMismatch
PROPERTIES
    ImplementsSeriesLog
