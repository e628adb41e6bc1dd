-------------------------------- MODULE Sfs --------------------------------
(***************************************************************************)
(* The simple file system, Project 3/Codes/sfs_api.c over disk_emu.c: a    *)
(* directory, an i-node table, a bitmap of free blocks and a descriptor    *)
(* table in memory, saved to a disk of blocks.  Each call of the API is    *)
(* one action: there is no concurrent access, and the process ends between *)
(* calls; SfsCrash lets it end inside them.                                *)
(*                                                                         *)
(* Of a file's bytes the model keeps which block holds which of them; of   *)
(* the blocks, only those used as indirect blocks have contents.  Arrays   *)
(* are functions from 0.  An access outside an array, or a jump through a  *)
(* block number that was never read from the disk, ends the behaviour with *)
(* its kind in undefined, and so does an int that gets too large.          *)
(***************************************************************************)
EXTENDS Integers, FiniteSets, FiniteSetsExt, Functions

CONSTANTS
    NUM_OF_I_NODES, DIRECT_PTR_NUM, BLOCK_SIZE,
    POINTERS,                  \* BLOCK_SIZE / sizeof(int)
    data_blocks_start_point,
    free_bitmap_start_point,
    SavedEntries,              \* directory entries that blocks 13 to 17 hold
    Overlay,                   \* what lies in memory just before fdt
    Names, NoName,             \* file names, and the empty one
    LongNames,                 \* the names that sfs_fopen does not take
    IntLimit,                  \* INT_MAX + 1
    Lengths,                   \* bound: lengths of reads and writes
    Seeks,                     \* bound: positions of seeks
    Habits                     \* careless things the client does

NUM_OF_FILES == NUM_OF_I_NODES - 1
Entries      == 0 .. NUM_OF_FILES - 1
INodes       == 0 .. NUM_OF_I_NODES - 1
DirectSlots  == 0 .. DIRECT_PTR_NUM - 1
IndexSlots   == 0 .. POINTERS - 1
Blocks       == data_blocks_start_point .. free_bitmap_start_point - 1

ASSUME SfsAssumption ==
    /\ NUM_OF_I_NODES \in Nat /\ NUM_OF_I_NODES > 1
    /\ DIRECT_PTR_NUM \in Nat \ {0} /\ BLOCK_SIZE \in Nat \ {0, 1}
    /\ POINTERS \in Nat \ {0}
    /\ data_blocks_start_point \in Nat \ {0}
    /\ free_bitmap_start_point \in Nat
    /\ SavedEntries \in 1 .. NUM_OF_FILES
    /\ Overlay \in {"padding", "MAX_BLOCK"}
    /\ NoName \notin Names /\ LongNames \subseteq Names
    /\ IntLimit \in Nat /\ (DIRECT_PTR_NUM + POINTERS) * BLOCK_SIZE < IntLimit
    /\ Lengths \subseteq 1 .. IntLimit - 1 /\ Seeks \subseteq -IntLimit .. IntLimit - 1
    /\ Habits \subseteq {"RemoveOpen", "SeekOutside", "FormatFull"}

VARIABLES
    fdt, i_node_table, root_dir_table,
    free_bitmap,        \* the set of blocks whose byte is 1
    curr_file_index,
    disk,               \* the tables as last saved, and in its field indirect
                        \* the contents of the indirect blocks
    disk_ready,         \* MAX_BLOCK of disk_emu.c is the disk's size
    ret,                \* the last call and its result
    undefined

tables  == <<i_node_table, root_dir_table, free_bitmap>>
others  == <<tables, curr_file_index, disk, disk_ready, undefined>>
vars    == <<fdt, others, ret>>

indirect == disk.indirect

None    == -1
Garbage == -2           \* an uninitialized or out-of-bounds block number
First(S) == IF S = {} THEN None ELSE Min(S)
Smaller(a, b) == IF a < b THEN a ELSE b
Larger(a, b)  == IF a > b THEN a ELSE b

Descriptor == [i_node_ptr : Int, read_write_ptr : Int, occupied : BOOLEAN]
INode == [size : Int, direct_ptr : [DirectSlots -> Blocks \cup {None}],
          indirect_ptr : Blocks \cup {None}, occupied : BOOLEAN]
RootEntry == [file_name : Names \cup {NoName}, i_node_ptr : INodes \cup {None},
              occupied : BOOLEAN]
Pointers == [IndexSlots -> Blocks \cup {None}]

Closed    == [i_node_ptr |-> None, read_write_ptr |-> None, occupied |-> FALSE]
FreeINode == [size |-> -1, direct_ptr |-> [k \in DirectSlots |-> None],
              indirect_ptr |-> None, occupied |-> FALSE]
(* The loop over root_directory_length, which is negative, does nothing;    *)
(* the size is counted in entries.                                          *)
RootINode == [FreeINode EXCEPT !.size = NUM_OF_FILES, !.occupied = TRUE]
ZeroEntry == [file_name |-> NoName, i_node_ptr |-> 0, occupied |-> FALSE]

TypeOK ==
    /\ fdt \in [Entries -> Descriptor]
    /\ i_node_table \in [INodes -> INode]
    /\ root_dir_table \in [Entries -> RootEntry]
    /\ free_bitmap \subseteq Blocks
    /\ curr_file_index \in Entries \cup {NUM_OF_FILES}
    /\ disk.i_nodes \in [INodes -> INode]
    /\ disk.root \in [0 .. SavedEntries - 1 -> RootEntry]
    /\ disk.bitmap \subseteq Blocks
    /\ DOMAIN indirect \subseteq Blocks /\ Range(indirect) \subseteq Pointers
    /\ disk_ready \in BOOLEAN
    /\ ret.value \in Int \cup Names
    /\ undefined \in {"no", "fdt_end", "entry_-1", "bad_block"}

-----------------------------------------------------------------------------
(* initialize_root_directory_table stops one entry early and keeps names.   *)
initialize_root_directory_table(root) ==
    [i \in Entries |-> IF i < NUM_OF_FILES - 1
                       THEN [root[i] EXCEPT !.i_node_ptr = None, !.occupied = FALSE]
                       ELSE root[i]]

initialize_i_node_table == [i \in INodes |-> IF i = 0 THEN RootINode ELSE FreeINode]
initialize_FDT          == [i \in Entries |-> Closed]

(* save_i_node_table, save_root_directory_table and save_free_bitmap.  The  *)
(* directory does not fit in its five blocks: its last entries stay out.    *)
(* (Of the first entry left out a piece of the name is saved; ignored.  The *)
(* blocks of the i-node table have more room than it takes: they also save  *)
(* what follows it in memory, the first entries of root_dir_table.)         *)
Image(nodes, root, bitmap, ind) ==
    [i_nodes |-> nodes, root |-> Restrict(root, 0 .. SavedEntries - 1),
     bitmap |-> bitmap, indirect |-> ind]

SaveAllButINodes(ind) ==                                          \* mutant
    disk' = IF disk_ready' THEN Image(disk.i_nodes, root_dir_table', free_bitmap', ind)
            ELSE disk
Save(ind) ==
    disk' = IF disk_ready' THEN Image(i_node_table', root_dir_table', free_bitmap', ind)
            ELSE disk

Result(call, value) == [call |-> call, value |-> value]
NoPointers == [b \in {} |-> [k \in IndexSlots |-> None]]

(* mksfs(1) in a new process, whose memory is zero.                         *)
Init ==
    /\ i_node_table = initialize_i_node_table
    /\ root_dir_table = initialize_root_directory_table([i \in Entries |-> ZeroEntry])
    /\ free_bitmap = Blocks
    /\ disk = Image(i_node_table, root_dir_table, free_bitmap, NoPointers)
    /\ disk_ready = TRUE
    /\ fdt = initialize_FDT
    /\ curr_file_index = 0
    /\ ret = Result("mksfs", 1)
    /\ undefined = "no"

-----------------------------------------------------------------------------
LastFreeEntry ==                                                  \* mutant
    IF \E i \in Entries : ~root_dir_table[i].occupied
    THEN Max({i \in Entries : ~root_dir_table[i].occupied}) ELSE None
get_the_first_free_root_directory ==
    First({i \in Entries : ~root_dir_table[i].occupied})
get_the_first_free_i_node == First({i \in INodes : ~i_node_table[i].occupied})
fdt_get_the_first_free_block == First({i \in Entries : ~fdt[i].occupied})
get_num_of_files == Cardinality({i \in Entries : root_dir_table[i].occupied})

(* get_file compares names only; does_file_exist wants the entry occupied.  *)
get_file(name) == First({i \in Entries : root_dir_table[i].file_name = name})
does_file_exist(name) ==
    \E i \in Entries : root_dir_table[i].occupied /\ root_dir_table[i].file_name = name

get_fd(i_node_ptr) ==
    First({i \in Entries : fdt[i].i_node_ptr = i_node_ptr /\ fdt[i].occupied})

INodeOf(name)     == root_dir_table[get_file(name)].i_node_ptr
end_of_file(name) == i_node_table[INodeOf(name)].size

-----------------------------------------------------------------------------
(* mksfs(1) again in the same process; with a full directory it keeps the   *)
(* file in the last entry.                                                  *)
Format ==
    /\ "FormatFull" \in Habits \/ ~root_dir_table[NUM_OF_FILES - 1].occupied
    /\ i_node_table' = initialize_i_node_table
    /\ root_dir_table' = initialize_root_directory_table(root_dir_table)
    /\ free_bitmap' = Blocks
    /\ disk_ready' = TRUE
    /\ Save(NoPointers)
    /\ fdt' = initialize_FDT
    /\ ret' = Result("mksfs", 1)
    /\ UNCHANGED <<curr_file_index, undefined>>

(* mksfs(0): the tables come from the disk; the directory entries that have *)
(* no room there keep what memory holds.  (Reading the i-node table         *)
(* overwrites the first entries of root_dir_table, too; they are read from  *)
(* their own blocks right after.)                                           *)
LoadTables(memory) ==
    /\ i_node_table' = disk'.i_nodes
    /\ root_dir_table' = [i \in Entries |-> IF i < SavedEntries THEN disk'.root[i]
                                            ELSE memory[i]]
    /\ free_bitmap' = disk'.bitmap
    /\ disk_ready' = TRUE
    /\ fdt' = initialize_FDT
    /\ ret' = Result("mksfs", 0)
    /\ UNCHANGED undefined

Remount == UNCHANGED <<disk, curr_file_index>> /\ LoadTables(root_dir_table)

(* A new process opens the file system.                                     *)
NewProcess == LoadTables([i \in Entries |-> ZeroEntry]) /\ curr_file_index' = 0
Restart    == UNCHANGED disk /\ NewProcess

-----------------------------------------------------------------------------
(* The next index at or after curr_file_index whose name exists.            *)
NextFile == First({i \in Entries : /\ i >= curr_file_index
                                   /\ does_file_exist(root_dir_table[i].file_name)})

NoWrap == NUM_OF_FILES + 1                                        \* mutant
AfterLast == 0

sfs_getnextfilename ==
    /\ ret' = Result("sfs_getnextfilename",
                     IF NextFile = None THEN 0 ELSE root_dir_table[NextFile].file_name)
    /\ curr_file_index' = IF get_num_of_files = 0 THEN curr_file_index
                          ELSE IF NextFile = None THEN AfterLast
                          ELSE NextFile + 1
    /\ UNCHANGED <<fdt, tables, disk, disk_ready, undefined>>

sfs_getfilesize(name) ==
    /\ ret' = Result("sfs_getfilesize",
                     IF does_file_exist(name) THEN end_of_file(name) ELSE -1)
    /\ UNCHANGED <<fdt, others>>

-----------------------------------------------------------------------------
(* sfs_fopen: the open descriptor of the file, or the first free one, for   *)
(* an existing file (at its end) or a new one.                              *)
FopenTooLong(name) ==
    /\ name \in LongNames
    /\ ret' = Result("sfs_fopen", -1)
    /\ UNCHANGED <<fdt, others>>

NeverOpen(name) == None                                           \* mutant
OpenFd(name) == IF get_file(name) = None THEN None ELSE get_fd(INodeOf(name))

FopenAgain(name) ==
    /\ OpenFd(name) # None
    /\ ret' = Result("sfs_fopen", OpenFd(name))
    /\ UNCHANGED <<fdt, others>>

AtStart(name) == 0                                                \* mutant
OpenPosition(name) == end_of_file(name)
Opened(i_node_ptr, position) ==
    [fdt EXCEPT ![fdt_get_the_first_free_block] =
        [i_node_ptr |-> i_node_ptr, read_write_ptr |-> position, occupied |-> TRUE]]

CanOpen(name) == /\ name \notin LongNames
                 /\ OpenFd(name) = None /\ fdt_get_the_first_free_block # None

FopenExisting(name) ==
    /\ CanOpen(name) /\ does_file_exist(name)
    /\ fdt' = Opened(INodeOf(name), OpenPosition(name))
    /\ ret' = Result("sfs_fopen", fdt_get_the_first_free_block)
    /\ UNCHANGED others

CreatedEntry(name) ==
    [root_dir_table EXCEPT ![get_the_first_free_root_directory] =
        [file_name |-> name, i_node_ptr |-> get_the_first_free_i_node, occupied |-> TRUE]]

(* memset clears DIRECT_PTR_NUM bytes of direct_ptr, not pointers, and the  *)
(* indirect_ptr reset is i-node 0's.                                        *)
CreatedINode ==
    LET node == get_the_first_free_i_node IN
    [i_node_table EXCEPT
        ![node].size = 0, ![node].occupied = TRUE,
        ![node].direct_ptr = [k \in DirectSlots |->
                              IF k < DIRECT_PTR_NUM \div 4 THEN None ELSE @[k]],
        ![0].indirect_ptr = None]

CanCreate(name) ==
    /\ CanOpen(name) /\ ~does_file_exist(name)
    /\ None \notin {get_the_first_free_root_directory, get_the_first_free_i_node}

FopenCreate(name) ==
    /\ CanCreate(name)
    /\ root_dir_table' = CreatedEntry(name)
    /\ i_node_table' = CreatedINode
    /\ fdt' = Opened(get_the_first_free_i_node, 0)
    /\ ret' = Result("sfs_fopen", fdt_get_the_first_free_block)
    /\ UNCHANGED <<free_bitmap, curr_file_index, disk_ready, undefined>>
    /\ Save(indirect)

(* fdt_get_the_first_free_block runs on to sizeof(fdt), far beyond the      *)
(* array; without a free entry or i-node, index -1 of the tables is written.*)
FopenOutOfBounds(name) ==
    /\ OpenFd(name) = None
    /\ \/ /\ fdt_get_the_first_free_block = None
          /\ undefined' = "fdt_end"
       \/ /\ CanOpen(name) /\ ~does_file_exist(name) /\ ~CanCreate(name)
          /\ undefined' = "entry_-1"
    /\ UNCHANGED <<fdt, tables, curr_file_index, disk, disk_ready, ret>>

FopenShort(name) == \/ FopenAgain(name) \/ FopenExisting(name)
                    \/ FopenCreate(name) \/ FopenOutOfBounds(name)

sfs_fopen(name) == FopenTooLong(name) \/ (name \notin LongNames /\ FopenShort(name))

sfs_fclose(f) ==
    /\ fdt' = IF fdt[f].occupied THEN [fdt EXCEPT ![f] = Closed] ELSE fdt
    /\ ret' = Result("sfs_fclose", IF fdt[f].occupied THEN 0 ELSE -1)
    /\ UNCHANGED others

-----------------------------------------------------------------------------
(* A transfer in progress: the descriptor's position, the file's i-node,    *)
(* the free blocks, the indirect blocks, the bytes left to do, and the      *)
(* block of the last chunk (None or Garbage: the transfer is over).         *)
Start(f, length) ==
    [ptr |-> fdt[f].read_write_ptr, node |-> i_node_table[fdt[f].i_node_ptr],
     free |-> free_bitmap, ind |-> indirect, left |-> length, block |-> 0]

Over(s) == s.left <= 0 \/ s.block \in {None, Garbage}

(* read_blocks gives the pointers of the indirect block p.                  *)
CanRead(ready, ind, p) == ready /\ p \in DOMAIN ind

(* The block that holds byte ptr of a file.  The quotient of a ptr between  *)
(* -BLOCK_SIZE and 0 is 0, but the bytes before the buffer are touched;     *)
(* below, direct_ptr has a negative index.                                  *)
BlockAt(node, ind, ptr) ==
    LET slot == (ptr - DIRECT_PTR_NUM * BLOCK_SIZE) \div BLOCK_SIZE IN
    IF ptr < 0 THEN IF ptr > -BLOCK_SIZE /\ node.direct_ptr[0] = None THEN None
                    ELSE Garbage
    ELSE IF ptr < DIRECT_PTR_NUM * BLOCK_SIZE THEN node.direct_ptr[ptr \div BLOCK_SIZE]
    ELSE IF CanRead(disk_ready, ind, node.indirect_ptr) /\ slot \in IndexSlots
         THEN ind[node.indirect_ptr][slot]
    ELSE Garbage

(* allocate_disk_block_to_i_node: b, just taken from the bitmap, goes into  *)
(* the first free direct pointer, or else into the indirect block, which is *)
(* itself allocated at first.  If that fails, b is given to nobody.         *)
FirstSlotAlways(ptrs) == 0                                        \* mutant
VacantSlot(ptrs) == First({k \in DOMAIN ptrs : ptrs[k] = None})

AddDirect(s, b) ==
    [s EXCEPT !.node.direct_ptr[VacantSlot(s.node.direct_ptr)] = b, !.block = b]

SetPointers(ind, p, ptrs) ==
    [x \in DOMAIN ind \cup {p} |-> IF x = p THEN ptrs ELSE ind[x]]

AddIndirect(s, b) ==
    LET fresh == s.node.indirect_ptr = None
        p     == IF fresh THEN First(s.free) ELSE s.node.indirect_ptr
        ptrs  == IF fresh THEN [k \in IndexSlots |-> None] ELSE s.ind[p]
        slot  == VacantSlot(ptrs) IN
    IF p = None THEN [s EXCEPT !.block = None]
    ELSE IF ~fresh /\ ~CanRead(disk_ready, s.ind, p) THEN [s EXCEPT !.block = Garbage]
    ELSE IF slot = None THEN [s EXCEPT !.block = None]
    ELSE [s EXCEPT !.free = @ \ {p},
                   !.node.indirect_ptr = p,
                   !.ind = IF disk_ready THEN SetPointers(@, p, [ptrs EXCEPT ![slot] = b])
                           ELSE @,
                   !.block = b]

StillFree(free, b) == free                                        \* mutant
Taken(free, b) == free \ {b}

allocate_disk_block_to_i_node(s) ==
    LET b == First(s.free)
        t == [s EXCEPT !.free = Taken(@, b)] IN
    IF b = None THEN [s EXCEPT !.block = None]
    ELSE IF VacantSlot(s.node.direct_ptr) # None THEN AddDirect(t, b)
    ELSE AddIndirect(t, b)

(* One level of sfs_fwrite_recursive; data overwrites what the block held,  *)
(* and a position that is no int any more is undefined.                     *)
AddAtEveryBoundary(s) == s.ptr % BLOCK_SIZE = 0                   \* mutant
should_add_new(s) == s.ptr % BLOCK_SIZE = 0 /\ s.ptr >= s.node.size

WriteChunk(s) ==
    LET t == IF should_add_new(s) THEN allocate_disk_block_to_i_node(s)
             ELSE [s EXCEPT !.block = BlockAt(s.node, s.ind, s.ptr)]
        n == Smaller(s.left, BLOCK_SIZE - (s.ptr % BLOCK_SIZE)) IN
    IF Over(s) THEN s
    ELSE IF Over(t) THEN t
    ELSE IF s.ptr + n >= IntLimit THEN [t EXCEPT !.block = Garbage]
    ELSE [t EXCEPT !.ptr = @ + n, !.left = @ - n,
                   !.node.size = Larger(@, s.ptr + n),
                   !.ind = Restrict(@, DOMAIN @ \ {t.block})]

(* A level moves at least one byte: length levels are enough.               *)
WriteLevels(f, length) ==
    LET level[n \in 0 .. length] ==
            IF n = 0 THEN Start(f, length) ELSE WriteChunk(level[n - 1])
    IN  level
sfs_fwrite_recursive(f, length) == WriteLevels(f, length)[length]

(* One level of sfs_fread_recursive.                                        *)
ReadChunk(s) ==
    LET b == IF s.ptr >= s.node.size THEN None ELSE BlockAt(s.node, s.ind, s.ptr)
        n == Smaller(Smaller(s.left, BLOCK_SIZE - (s.ptr % BLOCK_SIZE)), s.node.size - s.ptr) IN
    IF Over(s) \/ s.ptr = s.node.size THEN s
    ELSE IF b \in {None, Garbage} THEN [s EXCEPT !.block = b]
    ELSE [s EXCEPT !.ptr = @ + n, !.left = @ - n, !.block = b]

sfs_fread_recursive(f, length) ==
    LET level[n \in 0 .. length] ==
            IF n = 0 THEN Start(f, length) ELSE ReadChunk(level[n - 1])
    IN  level[length]

(* What both do around the recursion: the tables are saved each time.       *)
Transfer(call, f, length, s) ==
    IF ~fdt[f].occupied
      THEN /\ ret' = Result(call, -1)
           /\ UNCHANGED <<fdt, others>>
    ELSE IF s.block = Garbage
      THEN /\ undefined' = "bad_block"
           /\ UNCHANGED <<fdt, tables, curr_file_index, disk, disk_ready, ret>>
    ELSE /\ fdt' = [fdt EXCEPT ![f].read_write_ptr = s.ptr]
         /\ i_node_table' = [i_node_table EXCEPT ![fdt[f].i_node_ptr] = s.node]
         /\ free_bitmap' = s.free
         /\ ret' = Result(call, length - s.left)
         /\ UNCHANGED <<root_dir_table, curr_file_index, disk_ready, undefined>>
         /\ Save(s.ind)

sfs_fwrite(f, length) == Transfer("sfs_fwrite", f, length, sfs_fwrite_recursive(f, length))
sfs_fread(f, length)  == Transfer("sfs_fread", f, length, sfs_fread_recursive(f, length))

(* Any int is accepted; a careful client stays inside the file.             *)
sfs_fseek(f, loc) ==
    /\ fdt[f].occupied /\ "SeekOutside" \notin Habits =>
           loc \in 0 .. i_node_table[fdt[f].i_node_ptr].size
    /\ fdt' = IF fdt[f].occupied THEN [fdt EXCEPT ![f].read_write_ptr = loc] ELSE fdt
    /\ ret' = Result("sfs_fseek", IF fdt[f].occupied THEN 0 ELSE -1)
    /\ UNCHANGED others

-----------------------------------------------------------------------------
(* sfs_remove.  The descriptor is looked up after the entry's i_node_ptr    *)
(* was cleared: no occupied descriptor has -1, so the one written is        *)
(* fdt[-1], which is padding or, with the globals laid out in the order of  *)
(* their definitions, disk_emu.c's MAX_BLOCK: it becomes -1, and every      *)
(* later write_blocks and read_blocks fails.                                *)
RemoveMissing(name) ==
    /\ ~does_file_exist(name)
    /\ ret' = Result("sfs_remove", -1)
    /\ UNCHANGED <<fdt, others>>

KeepsIndirect(node) ==                                            \* mutant
    [FreeINode EXCEPT !.indirect_ptr = node.indirect_ptr]
Cleared(node) == FreeINode

(* The loop over the indirect block stops at its first -1; the pointers     *)
(* before it are all there are, because they are set from the front.        *)
DirectFreed(node) == Range(node.direct_ptr)                       \* mutant
PointersFreed(node) ==
    Range(node.direct_ptr)
    \cup (IF node.indirect_ptr = None THEN {} ELSE Range(indirect[node.indirect_ptr]))

RemovedEntry(name) ==
    [root_dir_table EXCEPT ![get_file(name)] =
        [file_name |-> NoName, i_node_ptr |-> None, occupied |-> FALSE]]
RemovedINode(name) == [i_node_table EXCEPT ![INodeOf(name)] = Cleared(@)]

CanRemove(name) ==
    does_file_exist(name) /\ ("RemoveOpen" \in Habits \/ OpenFd(name) = None)

RemoveExisting(name) ==
    LET node == i_node_table[INodeOf(name)]
        f    == get_fd(None) IN
    /\ CanRemove(name)
    /\ root_dir_table' = RemovedEntry(name)
    /\ IF f # None THEN fdt' = [fdt EXCEPT ![f] = Closed] /\ UNCHANGED disk_ready
       ELSE /\ disk_ready' = (disk_ready /\ Overlay = "padding")
            /\ UNCHANGED fdt
    /\ IF node.indirect_ptr # None /\ ~CanRead(disk_ready', indirect, node.indirect_ptr)
         THEN /\ undefined' = "bad_block"
              /\ UNCHANGED <<i_node_table, free_bitmap>>
         ELSE /\ i_node_table' = RemovedINode(name)
              /\ free_bitmap' = free_bitmap \cup (PointersFreed(node) \ {None})
              /\ UNCHANGED undefined
    /\ ret' = Result("sfs_remove", 1)
    /\ UNCHANGED curr_file_index
    /\ Save(indirect)

sfs_remove(name) == RemoveMissing(name) \/ RemoveExisting(name)

-----------------------------------------------------------------------------
(* The calls that change files, open or close them; and the others.         *)
Change == \/ Format \/ Restart
          \/ \E name \in Names : sfs_fopen(name) \/ sfs_remove(name)
          \/ \E f \in Entries :
                \/ sfs_fclose(f)
                \/ \E length \in Lengths : sfs_fwrite(f, length)
                \/ \E loc \in Seeks : sfs_fseek(f, loc)
Query == \/ Remount \/ sfs_getnextfilename
         \/ \E name \in Names : sfs_getfilesize(name)
         \/ \E f \in Entries, length \in Lengths : sfs_fread(f, length)
Call == Change \/ Query

Next == \/ undefined = "no" /\ Call
        \/ undefined # "no" /\ UNCHANGED vars

Spec == Init /\ [][Next]_vars

-----------------------------------------------------------------------------
Files == {n \in Names : does_file_exist(n)}
NodeOf(n) == i_node_table[INodeOf(n)]

(* The blocks that hold data of an i-node, and its indirect block.          *)
IndexOf(node) == IF node.indirect_ptr \in DOMAIN indirect
                 THEN indirect[node.indirect_ptr] ELSE [k \in IndexSlots |-> None]
PointerAt(node, k) == IF k < DIRECT_PTR_NUM THEN node.direct_ptr[k]
                      ELSE IndexOf(node)[k - DIRECT_PTR_NUM]
Slots == 0 .. DIRECT_PTR_NUM + POINTERS - 1
BlocksOf(node) == ({PointerAt(node, k) : k \in Slots} \cup {node.indirect_ptr}) \ {None}

(* The two ways the code looks a name up agree: get_file, which skips the   *)
(* occupied flag, never lands on a stale entry when the file exists; every  *)
(* file has an i-node of its own, in use.                                   *)
LookupAgrees ==
    /\ \A n \in Files : root_dir_table[get_file(n)].occupied
    /\ \A i, j \in Entries : root_dir_table[i].occupied /\ root_dir_table[j].occupied =>
          /\ i_node_table[root_dir_table[i].i_node_ptr].occupied
          /\ root_dir_table[i].file_name = root_dir_table[j].file_name => i = j
          /\ root_dir_table[i].i_node_ptr = root_dir_table[j].i_node_ptr => i = j

(* No block belongs to two files, or twice to one, or to a file while the   *)
(* bitmap offers it to the next one: data is never overwritten by another   *)
(* file's.                                                                  *)
NoCrossLinks ==
    /\ \A n \in Files : BlocksOf(NodeOf(n)) \cap free_bitmap = {}
    /\ \A m, n \in Files : m # n => BlocksOf(NodeOf(m)) \cap BlocksOf(NodeOf(n)) = {}
    /\ \A n \in Files : \A j, k \in Slots :
          LET p == PointerAt(NodeOf(n), j) IN
          /\ p # None => p # NodeOf(n).indirect_ptr
          /\ p # None /\ p = PointerAt(NodeOf(n), k) => j = k

(* The pointers of a file that are set are those of the blocks its size     *)
(* needs, the indirect ones included, also after a write the full disk cut  *)
(* short: every byte counted in size has its place.                         *)
EveryByteMapped ==
    \A n \in Files : \A k \in Slots :
        PointerAt(NodeOf(n), k) # None <=> k * BLOCK_SIZE < NodeOf(n).size

(* An i-node that is not in use has no pointers left; sfs_fopen relies on   *)
(* it, its own reset of direct_ptr and indirect_ptr being too small.        *)
FreeINodesClean ==
    \A i \in INodes : ~i_node_table[i].occupied => i_node_table[i] = FreeINode

(* After each call the disk holds the tables: reopening the file system     *)
(* loses nothing.                                                           *)
DiskMirrors == disk = Image(i_node_table, root_dir_table, free_bitmap, indirect)

(* Open descriptors stand for files that exist, at a position inside them,  *)
(* at most one for each.                                                    *)
DescriptorsValid ==
    \A f, g \in Entries : fdt[f].occupied =>
        /\ \E n \in Files : fdt[f].i_node_ptr = INodeOf(n)
        /\ fdt[f].read_write_ptr \in 0 .. i_node_table[fdt[f].i_node_ptr].size
        /\ fdt[g].occupied /\ fdt[f].i_node_ptr = fdt[g].i_node_ptr => f = g

(* A block a file got stays its block at that place of the file: only       *)
(* sfs_remove of that file, or formatting, takes it away.                   *)
BlocksStay ==
    [][\A n \in Files : \A k \in Slots :
          PointerAt(NodeOf(n), k) # None /\ n \in Files' =>
              PointerAt(NodeOf(n), k)' = PointerAt(NodeOf(n), k)]_vars

(* A block can be lost, neither free nor in a file, in three ways only: it  *)
(* was the indirect block of a file that is removed, or a write took it and *)
(* then found the disk full, or the file: then a file is full.  Only        *)
(* formatting brings it back.                                               *)
Lost == Blocks \ (free_bitmap \cup UNION {BlocksOf(NodeOf(n)) : n \in Files})
IsFull(n) == \A k \in Slots : PointerAt(NodeOf(n), k) # None

LeaksAreKnown ==
    [][LET lost == Lost' \ Lost IN
       \/ UNCHANGED <<tables, disk>>
       \/ ret'.call = "mksfs" /\ lost = {}
       \/ /\ Lost \subseteq Lost'
          /\ \/ lost = {}
             \/ \E n \in Files \ Files' : lost = {NodeOf(n).indirect_ptr}
             \/ /\ ret'.call = "sfs_fwrite" /\ Cardinality(lost) = 1
                /\ free_bitmap' = {} \/ \E n \in Files : IsFull(n)']_vars

(* The entry of every file is on the disk for the next mksfs(0): saving the *)
(* directory table saves all of it.                                         *)
EveryFileSaved ==
    \A i \in Entries : root_dir_table[i].occupied =>
        i \in DOMAIN disk.root /\ disk.root[i] = root_dir_table[i]
=============================================================================
