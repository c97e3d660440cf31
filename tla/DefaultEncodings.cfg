SPECIFICATION Spec
CONSTANTS
    d1 = d1
    d2 = d2
    d3 = d3
    NoDevice = NoDevice
    NullTime = NullTime
    Default = 0
    I32Min <- MCI32Min
    I32Max = 7
    I64Min <- MCI64Min
    I64Max = 127
    F32Max = 50
    F64Max = 60
    Inf = 200
    NaN = 300
    TimeBytes = 8
    ValueBytes = 4
    MaxPageSize = 36
    MiniBlocksPerPage = 2
    MinPointsPerMiniBlock = 2
    BlockDataBytes = 3
    PARALLEL_THRESHOLD = 2
    TypeOf <- MCTypeOf
    EncodingOf <- MCEncodingOf
    TYPES <- MCTypes
    TIMES = {1, 2}
    VALUES <- MCValues
    PREDICATES <- MCPredicates
    TABLETS <- MCTablets
    ROWS <- MCRows
    BULKS <- MCBulks
    BATCHES <- MCBatches
    MaxPoints = 3
    MaxNesting = 5
    MaxCalls = 4
INVARIANT ImportsComeBack
CHECK_DEADLOCK FALSE
