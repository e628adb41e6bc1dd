------------------------------ MODULE SfsCrash ------------------------------
(***************************************************************************)
(* The process ends inside a call of sfs_api.c.  A call that changes the   *)
(* file system is a sequence of write_blocks, each flushed before the      *)
(* next; a crash leaves the disk with a prefix of them, and a new process  *)
(* opens it with mksfs(0).  A table is written at once: a crash between    *)
(* two blocks of one table, and one inside mksfs(1), are not modelled.     *)
(*                                                                         *)
(* The client knows which call was cut short.  If it was sfs_remove, the   *)
(* file may be there with blocks the bitmap offers to others, or with a    *)
(* free i-node: the client then calls sfs_remove again before it uses any  *)
(* other file.                                                             *)
(***************************************************************************)
EXTENDS Sfs, Sequences, SequencesExt

VARIABLES
    interrupted,     \* the file whose removal was cut short, or NoName
    torn             \* the files a write to which was cut short

crashVars == <<vars, interrupted, torn>>

WriteINodes(nodes)  == [to |-> "i_nodes", what |-> nodes]
WriteRoot(root)     == [to |-> "root", what |-> Restrict(root, DOMAIN disk.root)]
WriteBitmap(free)   == [to |-> "bitmap", what |-> free]
WriteIndirect(ind)  == [to |-> "indirect", what |-> ind]

(* What the disk d holds after the first n of these writes: in each table   *)
(* the last that was written to it.                                         *)
write_blocks(d, writes, n) ==
    [t \in DOMAIN d |-> LET those == {i \in 1 .. n : writes[i].to = t} IN
                        IF those = {} THEN d[t] ELSE writes[Max(those)].what]

(* The process ends after some, not all, of these writes.                   *)
CutShort(writes) ==
    /\ disk_ready
    /\ \E n \in 1 .. Len(writes) - 1 : disk' = write_blocks(disk, writes, n)
    /\ NewProcess

-----------------------------------------------------------------------------
EntryFirst(name) == <<WriteRoot(CreatedEntry(name)), WriteINodes(CreatedINode)>>  \* mutant
FopenWrites(name) == <<WriteINodes(CreatedINode), WriteRoot(CreatedEntry(name))>>

CrashInFopen(name) ==
    /\ CanCreate(name)
    /\ CutShort(FopenWrites(name))
    /\ UNCHANGED <<interrupted, torn>>

(* The i-node table with this i-node for the file of descriptor f.          *)
WriteINode(f, node) == WriteINodes([i_node_table EXCEPT ![fdt[f].i_node_ptr] = node])

(* The bitmap is saved each time a block is taken, the fresh indirect block *)
(* is filled with -1 and then gets the pointer, the i-node is last.         *)
INodeFirst(f, s) ==                                               \* mutant
    LET t == allocate_disk_block_to_i_node(s) IN
    IF t.block = None THEN <<>>
    ELSE <<WriteINode(f, t.node), WriteIndirect(t.ind), WriteBitmap(t.free)>>
AllocationWrites(f, s) ==
    LET b == First(s.free)
        t == allocate_disk_block_to_i_node(s)
        p == t.node.indirect_ptr
        fresh == p # s.node.indirect_ptr IN
    IF b = None THEN <<>>
    ELSE <<WriteBitmap(s.free \ {b})>>
         \o (IF fresh THEN <<WriteBitmap(t.free),
                             WriteIndirect(SetPointers(s.ind, p, [k \in IndexSlots |-> None]))>>
             ELSE <<>>)
         \o (IF t.block = None THEN <<>>
             ELSE <<WriteIndirect(t.ind), WriteINode(f, t.node)>>)

(* The writes of one level of the recursion; the last is that of the data.  *)
ChunkWrites(f, s) ==
    IF Over(s) THEN <<>>
    ELSE (IF should_add_new(s) THEN AllocationWrites(f, s) ELSE <<>>)
         \o <<WriteIndirect(WriteChunk(s).ind)>>

SizeFirst(f, length) ==                                           \* mutant
    LET level == WriteLevels(f, length) IN
    <<WriteINode(f, level[length].node)>>
    \o FlattenSeq([n \in 1 .. length |-> ChunkWrites(f, level[n - 1])])
FwriteWrites(f, length) ==
    LET level == WriteLevels(f, length) IN
    FlattenSeq([n \in 1 .. length |-> ChunkWrites(f, level[n - 1])])
    \o <<WriteRoot(root_dir_table), WriteINode(f, level[length].node),
         WriteBitmap(level[length].free)>>

CrashInFwrite(name, length) ==
    /\ OpenFd(name) # None
    /\ sfs_fwrite_recursive(OpenFd(name), length).block # Garbage
    /\ CutShort(FwriteWrites(OpenFd(name), length))
    /\ torn' = torn \cup {name}
    /\ UNCHANGED interrupted

(* One block after the other is freed, then the tables are saved.  Where a  *)
(* pointer is -1 nothing is freed, and the same bitmap saved once more.     *)
EntryRemovedFirst(name) ==                                        \* mutant
    <<WriteRoot(RemovedEntry(name)), WriteINodes(RemovedINode(name))>>
Freed(name, n) ==
    free_bitmap \cup ({PointerAt(NodeOf(name), k) : k \in 0 .. n - 1} \ {None})
RemoveWrites(name) ==
    LET all == DIRECT_PTR_NUM + POINTERS IN
    [n \in 1 .. all |-> WriteBitmap(Freed(name, n))]
    \o <<WriteINodes(RemovedINode(name)), WriteBitmap(Freed(name, all)),
         WriteRoot(RemovedEntry(name))>>

CrashInRemove(name) ==
    /\ CanRemove(name)
    /\ CutShort(RemoveWrites(name))
    /\ interrupted' = name
    /\ UNCHANGED torn

Crash(name) ==
    \/ CrashInFopen(name) \/ CrashInRemove(name)
    \/ \E length \in Lengths : CrashInFwrite(name, length)

-----------------------------------------------------------------------------
CrashInit == Init /\ interrupted = NoName /\ torn = {}

Undisturbed ==
    /\ interrupted = NoName
    /\ \/ Change /\ torn' = torn \cap Files' /\ UNCHANGED interrupted
       \/ \E name \in Names : Crash(name)

TryAgain ==
    /\ interrupted # NoName
    /\ \/ sfs_remove(interrupted) /\ interrupted' = NoName /\ torn' = torn \ {interrupted}
       \/ CrashInRemove(interrupted)

CrashNext == \/ undefined = "no" /\ (Undisturbed \/ TryAgain)
             \/ undefined # "no" /\ UNCHANGED crashVars

CrashSpec == CrashInit /\ [][CrashNext]_crashVars

-----------------------------------------------------------------------------
Repaired == interrupted = NoName

(* A crash never makes two files share a block, or offers a file's block to *)
(* the next one: allocate_a_block saves the bitmap before any pointer is    *)
(* saved, and sfs_remove tried again completes the removal.                 *)
NoCrossLinksAfterCrash == Repaired => NoCrossLinks

(* After a crash every file has an i-node of its own that is in use, and    *)
(* the i-nodes that are not in use are clean: sfs_fopen saves the i-node    *)
(* before the entry that refers to it.                                      *)
TablesAgreeAfterCrash == Repaired => LookupAgrees /\ FreeINodesClean

(* Of a file a write to which was cut short, every byte that its size       *)
(* counts has a block, but it may have one block more; of every other file  *)
(* each block is needed.                                                    *)
EveryByteHasBlock ==
    \A n \in Files \ {interrupted} : \A k \in Slots :
        /\ k * BLOCK_SIZE < NodeOf(n).size => PointerAt(NodeOf(n), k) # None
        /\ n \notin torn => (PointerAt(NodeOf(n), k) # None => k * BLOCK_SIZE < NodeOf(n).size)

(* A crash touches only the file the call was about.  No file is gone; a    *)
(* new one is empty; one that was written to keeps all it had.              *)
CrashIsLocal ==
    [][ret'.call = "mksfs" /\ ret'.value = 0 =>
         \E m \in Names :
            /\ Files \subseteq Files' /\ Files' \ Files \subseteq {m}
            /\ m \in Files' \ Files => NodeOf(m)'.size = 0
            /\ \A n \in Files \ {interrupted', m} : NodeOf(n)' = NodeOf(n)
            /\ \A n \in Files \ {interrupted', interrupted} :
                  /\ NodeOf(n)'.size >= NodeOf(n).size
                  /\ \A k \in Slots : PointerAt(NodeOf(n), k) # None =>
                        PointerAt(NodeOf(n), k)' = PointerAt(NodeOf(n), k)]_crashVars
=============================================================================
