SPECIFICATION Spec
CONSTANTS
    IntBits = 3
    LongBits = 4
    PayloadBits = 3
    CountBits = 8
    GroupBits = 2
    SELECTORS <- MCSelectors
    PackAt = 3
    ForceAt = 8
    MaxDictionary = 2
    BufferBits = 16
    HalfBits = 8
    ByteBits = 4
    WideField = 4
    HalfField = 3
    Word32 = 4
    Word64 = 5
    BLOCK_SIZE = 3
    GROUP_MAX = 2
    LearnShift = 1
    FireBits <- MCFireBits
    ByteGroup = 2
    COLUMNS <- RecommendedColumns
    SampleOf <- MCSample
    MaxLen <- MCMaxLen
    MaxBlocks = 2
INVARIANT
    RecommendedReadsBack
CHECK_DEADLOCK FALSE
