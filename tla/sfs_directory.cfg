CONSTANTS
    NUM_OF_I_NODES = 3
    DIRECT_PTR_NUM = 1
    BLOCK_SIZE = 2
    POINTERS = 2
    data_blocks_start_point = 18
    free_bitmap_start_point = 20
    SavedEntries = 1
    Overlay = "padding"
    Names = {a, b}
    NoName = NoName
    LongNames = {}
    IntLimit = 8
    Lengths = {3}
    Seeks = {}
    Habits = {}
SPECIFICATION Spec
INVARIANT EveryFileSaved
