CONSTANTS
    NUM_OF_I_NODES = 3
    DIRECT_PTR_NUM = 1
    BLOCK_SIZE = 2
    POINTERS = 2
    data_blocks_start_point = 18
    free_bitmap_start_point = 22
    SavedEntries = 2
    Overlay = "padding"
    Names = {a, b}
    NoName = NoName
    LongNames = {}
    IntLimit = 8
    Lengths = {3}
    Seeks = {0, 1, 3}
    Habits = {}
SPECIFICATION CrashSpec
INVARIANTS
    NoCrossLinksAfterCrash
    TablesAgreeAfterCrash
    EveryByteHasBlock
PROPERTY CrashIsLocal
SYMMETRY NameSymmetry
VIEW Memory
