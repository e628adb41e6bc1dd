CONSTANTS
    NUM_OF_I_NODES = 3
    DIRECT_PTR_NUM = 1
    BLOCK_SIZE = 2
    POINTERS = 2
    data_blocks_start_point = 18
    free_bitmap_start_point = 22
    SavedEntries = 2
    Overlay = "padding"
    Names = {a, b, c}
    NoName = NoName
    LongNames = {}
    IntLimit = 8
    Lengths = {3}
    Seeks <- Positions
    Offsets = {0, 3, 6, 14, 15, 18}
    Habits = {"SeekOutside"}
SPECIFICATION FuseSpec
INVARIANTS
    NoDescriptorLeft
    ListingComplete
    SfsInv
    FuseInv
PROPERTIES
    HandlersReturn
    ImplementsVolume
