CONSTANTS
    NUM_OF_I_NODES = 3
    DIRECT_PTR_NUM = 1
    BLOCK_SIZE = 2
    POINTERS = 2
    data_blocks_start_point = 18
    free_bitmap_start_point = 24
    SavedEntries = 2
    Overlay = "padding"
    Names = {a, b, c, long}
    NoName = NoName
    LongNames = {long}
    IntLimit = 8
    Lengths = {3}
    Seeks = {1}
    Habits = {}
SPECIFICATION Spec
INVARIANTS
    TypeOK
    NoCrossLinks
    EveryByteMapped
    FreeINodesClean
    DiskMirrors
    DescriptorsValid
    LookupAgrees
    CarefulInv
PROPERTIES
    BlocksStay
    LeaksAreKnown
    ImplementsFiles
SYMMETRY NameSymmetry
VIEW Memory
