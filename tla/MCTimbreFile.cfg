CONSTANTS
    Devices <- MCDevices
    Measurements <- MCMeasurements
    Points <- MCPoints
    NoDevice = NoDevice
    TypeOf <- MCTypeOf
    Encodes <- MCEncodes
    SchemaLists <- MCSchemaLists
    RecordShapes <- MCRecordShapes
    TabletColumns <- MCTabletColumns
    TabletRows <- MCTabletRows
    AlignedTablets = TRUE
    LateSchemas = FALSE
    MaxSchemas = 2
    MaxCalls = 3
    Colon = ":"
    BlockDataBytes = 3
    TimeBytes = 1
    ValueBytes = 1
    MaxPageSize = 4
    I64Min = 0
    I64Max = 9
    MiniBlocksPerPage = 2
    MinPointsPerMiniBlock = 1
SPECIFICATION Spec
CHECK_DEADLOCK FALSE
INVARIANTS
    TypeOK
    MetadataAddressesChunks
    OpenedIsComplete
    NothingInvented
    FooterFindsMetadata
    PanicNeedsRefusal
    CacheIsCoherent
    ReadIsPrefix
