SPECIFICATION Spec
CONSTANTS
    MAX_KEY_LEN = 2
    Capacity <- MCCapacity
    HashOf <- MCHash
    Chosen <- MCChosen
    Default <- MCDefault
    KEYS <- MCKeys
    OFFSETS = {10, 20}
    DEVICES = {d1, d2, d3}
    TAGLISTS <- MCTagLists
    PAGES = {1, 2}
    CHUNKS = {1, 2}
    ITEMS = {0, 1, 4}
    MaxCalls <- MCMaxCalls
INVARIANTS
    TypeOK
    TreeIsLinked
    KeysReadBack
    TagsAnswered
    FiltersNeverMiss
PROPERTY
    ImplementsPrefixMap
CHECK_DEADLOCK FALSE
