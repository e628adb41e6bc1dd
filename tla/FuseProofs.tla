----------------------------- MODULE FuseProofs -----------------------------
(***************************************************************************)
(* The FUSE server keeps SfsInv and FuseInv, and so its properties,        *)
(* whatever requests come and wherever its process ends; and it implements *)
(* Volume as long as the directory entry of every file is saved.           *)
(***************************************************************************)
EXTENDS FuseInvariants, SfsFilesProofs, SequenceTheorems, FiniteSetTheorems

ServerInv == SfsInv /\ FuseInv

AllClosed == \A f \in Entries : ~fdt[f].occupied
NoNameLeft == \A i \in Entries \ Occupied : root_dir_table[i].file_name = NoName

-----------------------------------------------------------------------------
(* What the calls of sfs_api.h do to what the handlers rely on.             *)
Crashes == undefined' # "no" /\ UNCHANGED <<fdt, tables, curr_file_index, ret>>

LEMMA NothingOpen ==
    ASSUME AllClosed, NEW name
    PROVE  OpenFd(name) = None
  <1>1. \A x : \A f \in Entries : ~ Opens(f, x)
    BY DEF AllClosed, Opens
  <1>2. \A x : get_fd(x) = None
    BY <1>1, GetFd
  <1> QED BY <1>2 DEF OpenFd

OpenDone ==
    /\ undefined' = undefined /\ curr_file_index' = curr_file_index
    /\ ret'.call = "sfs_fopen" /\ ret'.value \in Entries
    /\ \A f \in Entries : fdt'[f].occupied <=> f = ret'.value
    /\ \A i \in Entries \ Occupied' : i \notin Occupied /\ root_dir_table'[i] = root_dir_table[i]

LEMMA OpenEffect ==
    ASSUME SfsInv, AllClosed, NEW name \in Names, sfs_fopen(name)
    PROVE  Crashes \/ OpenDone
  <1>1. PICK h : h = fdt_get_the_first_free_block
    OBVIOUS
  <1>2. OpenFd(name) = None /\ fdt \in [Entries -> Descriptor]
        /\ root_dir_table \in [Entries -> RootEntry]
    BY NothingOpen, InvParts DEF OthersOK, TablesOK
  <1>3. ASSUME NEW x, NEW position, fdt' = Opened(x, position), h # None
        PROVE  h \in Entries /\ \A f \in Entries : fdt'[f].occupied <=> f = h
    BY <1>1, <1>2, <1>3, FreeFound DEF Opened, AllClosed
  <1>4. CASE FopenExisting(name)
    <2>1. /\ fdt' = Opened(INodeOf(name), OpenPosition(name)) /\ h # None
          /\ ret' = Result("sfs_fopen", h) /\ UNCHANGED <<tables, curr_file_index, undefined>>
      BY <1>1, <1>4 DEF FopenExisting, CanOpen, others
    <2>2. Occupied' = Occupied /\ root_dir_table' = root_dir_table
      BY <2>1 DEF Occupied, tables
    <2> QED BY <1>3, <2>1, <2>2 DEF OpenDone, Result
  <1>5. CASE FopenCreate(name)
    <2>1. PICK r : r = get_the_first_free_root_directory
      OBVIOUS
    <2> DEFINE e == [file_name |-> name, i_node_ptr |-> get_the_first_free_i_node,
                     occupied |-> TRUE]
    <2>2. /\ root_dir_table' = [root_dir_table EXCEPT ![r] = e] /\ h # None
          /\ fdt' = Opened(get_the_first_free_i_node, 0)
          /\ ret' = Result("sfs_fopen", h) /\ UNCHANGED <<curr_file_index, undefined>>
      BY <1>1, <1>5, <2>1 DEF FopenCreate, CreatedEntry, CanCreate, CanOpen
    <2>3. ASSUME NEW i \in Entries \ Occupied'
          PROVE  i \notin Occupied /\ root_dir_table'[i] = root_dir_table[i]
      BY <1>2, <2>2 DEF Occupied
    <2> QED BY <1>3, <2>2, <2>3 DEF OpenDone, Result
  <1>6. CASE FopenOutOfBounds(name)
    BY <1>6 DEF FopenOutOfBounds, Crashes
  <1>7. ~FopenTooLong(name)
    BY FuseAssumption DEF FopenTooLong
  <1> QED BY <1>2, <1>4, <1>5, <1>6, <1>7 DEF sfs_fopen, FopenShort, FopenAgain

RemoveSucceeds(name) ==
    /\ UNCHANGED <<fdt, undefined, curr_file_index>> /\ ret'.call = "sfs_remove"
    /\ SizeOf(name)' = -1
    /\ NoNameLeft => NoNameLeft'

LEMMA RemoveEffect ==
    ASSUME Overlay = "padding", "RemoveOpen" \notin Habits, SfsInv,
           NEW name \in Names, does_file_exist(name), sfs_remove(name)
    PROVE  RemoveSucceeds(name) /\ F!Remove(name)
  <1>1. RemoveExisting(name)
    BY DEF sfs_remove, RemoveMissing
  <1>2. PICK h : h = get_file(name)
    OBVIOUS
  <1> DEFINE e == [file_name |-> NoName, i_node_ptr |-> None, occupied |-> FALSE]
  <1>3. /\ root_dir_table' = [root_dir_table EXCEPT ![h] = e]
        /\ ret' = Result("sfs_remove", 1) /\ curr_file_index' = curr_file_index
    BY <1>1, <1>2 DEF RemoveExisting, RemovedEntry
  <1>4. UNCHANGED <<fdt, undefined>> /\ SfsInv'
    BY <1>1, RemoveExistingInv DEF RemoveDone
  <1>5. F!Remove(name)
    BY <1>1, RemoveRefines
  <1>6. SizeOf(name)' = -1
    <2>1. [m \in Names |-> SizeOf(m)]' = [[m \in Names |-> SizeOf(m)] EXCEPT ![name] = -1]
      BY <1>5 DEF F!Remove
    <2> QED BY <2>1
  <1>7. NoNameLeft => NoNameLeft'
    <2>1. root_dir_table \in [Entries -> RootEntry]
      BY InvParts DEF TablesOK
    <2> QED BY <1>3, <2>1 DEF NoNameLeft, Occupied
  <1> QED BY <1>3, <1>4, <1>5, <1>6, <1>7 DEF RemoveSucceeds, Result

MoveDone(call) ==
    /\ UNCHANGED <<undefined, curr_file_index, root_dir_table>>
    /\ ret'.call = call /\ ret'.value \in Nat
    /\ \A g \in Entries : fdt'[g].occupied = fdt[g].occupied

LEMMA TransferEffect ==
    ASSUME SfsInv, NEW f \in Entries, fdt[f].occupied, NEW length \in Nat, NEW call, NEW s,
           s.left \in 0 .. length, Transfer(call, f, length, s)
    PROVE  Crashes \/ MoveDone(call)
  <1>1. fdt \in [Entries -> Descriptor]
    BY InvParts DEF OthersOK
  <1>2. CASE s.block = Garbage
    BY <1>2 DEF Transfer, Crashes
  <1>3. CASE s.block # Garbage
    <2>1. /\ fdt' = [fdt EXCEPT ![f].read_write_ptr = s.ptr] /\ ret' = Result(call, length - s.left)
          /\ UNCHANGED <<undefined, curr_file_index, root_dir_table>>
      BY <1>3 DEF Transfer
    <2>2. \A g \in Entries : fdt'[g].occupied = fdt[g].occupied
      BY <1>1, <2>1 DEF Descriptor
    <2> QED BY <2>1, <2>2 DEF MoveDone, Result
  <1> QED BY <1>2, <1>3

LEMMA WriteEnds ==
    ASSUME SfsInv, NEW f \in Entries, fdt[f].occupied, NEW length \in Lengths
    PROVE  LET a == Start(f, length)
               s == sfs_fwrite_recursive(f, length)
           IN  /\ length \in Nat \ {0} /\ s \in Transfers /\ s.node.size \in Nat
               /\ Counts(a, s) /\ s.left \in 0 .. length
               /\ a.ptr = fdt[f].read_write_ptr /\ a.left = length /\ a.ptr \in Int
               /\ a.node = i_node_table[fdt[f].i_node_ptr]
  <1> DEFINE a == Start(f, length)
             s == sfs_fwrite_recursive(f, length)
             x == fdt[f].i_node_ptr
  <1>1. length \in Nat \ {0} /\ disk_ready
    BY InvParts, SfsAssumption DEF DiskOK
  <1>2. Keeps(a, OtherBlocks(x), a) /\ free_bitmap \cap OtherBlocks(x) = {} /\ a \in Transfers
    BY <1>1, StartKeeps
  <1>3. Counts(a, s) /\ Keeps(a, OtherBlocks(x), s)
    BY <1>1, <1>2, WriteCounts, WriteKeeps
  <1>4. /\ a.ptr = fdt[f].read_write_ptr /\ a.left = length
        /\ a.node = i_node_table[x]
    BY DEF Start
  <1> HIDE DEF a, s, x
  <1>5. s \in Transfers /\ s.node.size \in Nat
    BY <1>3 DEF Keeps, Ready
  <1>6. s.left \in Nat /\ s.ptr \in Int /\ a.ptr \in Int
    BY <1>2, <1>5 DEF Transfers
  <1>7. s.left \in 0 .. length
    BY <1>1, <1>3, <1>4, <1>6 DEF Counts
  <1> QED BY <1>1, <1>3, <1>4, <1>5, <1>6, <1>7 DEF a, s, x

LEMMA ReadEnds ==
    ASSUME SfsInv, NEW f \in Entries, fdt[f].occupied, NEW length \in Lengths
    PROVE  LET s == sfs_fread_recursive(f, length)
           IN  /\ length \in Nat /\ s.node = i_node_table[fdt[f].i_node_ptr]
               /\ s.left \in 0 .. length
  <1> DEFINE a == Start(f, length)
             s == sfs_fread_recursive(f, length)
             x == fdt[f].i_node_ptr
  <1>1. length \in Nat /\ disk_ready
    BY InvParts, SfsAssumption DEF DiskOK
  <1>2. Keeps(a, OtherBlocks(x), a) /\ a \in Transfers
    BY <1>1, StartKeeps
  <1>3. ReadsOnly(a, s)
    <2>1. a.node.size \in Nat
      BY <1>2 DEF Keeps
    <2> QED BY <1>1, <1>2, <2>1, ReadKeeps
  <1>4. a.left = length /\ a.node = i_node_table[x]
    BY DEF Start
  <1> HIDE DEF a, s, x
  <1>5. s.left \in Nat
    BY <1>3 DEF ReadsOnly, Transfers
  <1> QED BY <1>1, <1>3, <1>4, <1>5 DEF ReadsOnly, s, x

LEMMA TransfersEffect ==
    ASSUME SfsInv, NEW f \in Entries, fdt[f].occupied, NEW length \in Lengths
    PROVE  /\ sfs_fread(f, length) => Crashes \/ MoveDone("sfs_fread")
           /\ sfs_fwrite(f, length) => Crashes \/ MoveDone("sfs_fwrite")
  <1>1. sfs_fread_recursive(f, length).left \in 0 .. length /\ length \in Nat
    BY ReadEnds
  <1>2. sfs_fwrite_recursive(f, length).left \in 0 .. length
    BY WriteEnds
  <1> QED BY <1>1, <1>2, TransferEffect DEF sfs_fread, sfs_fwrite

-----------------------------------------------------------------------------
(* What ServerInv says while the behaviour is defined.                        *)
LEMMA Situation ==
    ASSUME ServerInv, undefined = "no"
    PROVE  /\ SfsInv /\ HandlerOK /\ Listings /\ NoNameLeft
           /\ handler.at \in {"done", "reopen"} => AllClosed /\ ~Listing /\ curr_file_index = 0
           /\ Idle => handler.at = "done" /\ handler = NoHandler
           /\ Holding => /\ handler.fd \in Entries /\ fdt[handler.fd].occupied /\ ~Listing
                         /\ \A f \in Entries : fdt[f].occupied <=> f = handler.fd
                         /\ handler.op \in {"create", "open", "truncate", "read", "write"}
           /\ Listing => AllClosed /\ ListedSoFar
           /\ Prepared
  BY DEF ServerInv, FuseInv, HandlerOK, Listings, ListedSoFar, OneDescriptor, AllClosed, NoNameLeft,
         Holding, Listing, Idle, NoHandler

LEMMA ListsStay ==
    ASSUME Listings, ~Listing, undefined = "no", UNCHANGED <<curr_file_index, listed>>,
           ~Listing', NoNameLeft', Idle' => ret'.call # "sfs_getnextfilename"
    PROVE  Listings' /\ ListingComplete'
  BY DEF Listings, ListedSoFar, ListingComplete, NoNameLeft

LEMMA SameNames ==
    ASSUME NoNameLeft, UNCHANGED root_dir_table
    PROVE  NoNameLeft'
  BY DEF NoNameLeft, Occupied

LEMMA CrashKeeps ==
    ASSUME ServerInv, undefined = "no", SfsInv', Crashes, UNCHANGED listed, ~Listing,
           ~Listing', HandlerOK', Idle' => Idle
    PROVE  ServerInv'
  <1>1. NoNameLeft' /\ curr_file_index' = curr_file_index /\ undefined' # "no"
        /\ UNCHANGED <<root_dir_table, ret>>
    BY Situation, SameNames DEF Crashes, tables
  <1>2. Listings' /\ ListingComplete'
    <2>1. CASE ~Idle'
      BY <1>1, <2>1, Situation, ListsStay
    <2>2. CASE Idle
      <3>1. Listings /\ ListingComplete /\ Files' = Files
        BY <1>1 DEF ServerInv, FuseInv, Files, does_file_exist
      <3> QED BY <1>1, <2>2, <3>1 DEF Listings, ListingComplete, NoNameLeft
    <2> QED BY <2>1, <2>2
  <1> QED BY <1>1, <1>2 DEF ServerInv, FuseInv

LEMMA CallKeeps ==
    ASSUME Overlay = "padding", Habits \subseteq {"SeekOutside"}, SfsInv, Call
    PROVE  SfsInv'
  BY CallStep DEF StepOK

LEMMA OpenKeeps ==
    ASSUME Overlay = "padding", Habits \subseteq {"SeekOutside"}, ServerInv, undefined = "no",
           NEW name \in Names, handler.at \in {"done", "reopen"}, NEW op, NEW at,
           \/ op \in {"create", "open"} /\ at = "close" /\ handler.at = "done"
           \/ op = "truncate" /\ at = "close"
           \/ op \in {"read", "write"} /\ at = "seek" /\ handler.at = "done",
           OpenFor(op, name, at)
    PROVE  ServerInv'
  <1>1. SfsInv /\ NoNameLeft /\ AllClosed /\ Listings /\ ~Listing
    BY Situation
  <1>2. /\ sfs_fopen(name) /\ listed' = listed
        /\ \/ handler' = [op |-> op, file |-> name, at |-> at, fd |-> ret'.value]
           \/ handler' = NoHandler /\ ret'.value = -1 /\ op # "truncate"
    BY DEF OpenFor, Continue
  <1>3. SfsInv'
    BY <1>1, <1>2, CallKeeps DEF Call, Change
  <1>4. HandlerOK' /\ ~Listing' /\ handler'.at \notin {"transfer", "reopen"}
        /\ (handler' # NoHandler => Holding' /\ ~Idle')
    BY <1>2 DEF HandlerOK, Holding, Listing, Idle, NoHandler
  <1>5. CASE Crashes
    <2>1. Idle' => Idle
      BY <1>2, <1>4, Situation DEF ServerInv, FuseInv, HandlerOK, Idle, NoHandler, Holding, Listing
    <2> QED BY <1>1, <1>2, <1>3, <1>4, <1>5, <2>1, CrashKeeps
  <1>6. CASE OpenDone
    <2>0. handler' = [op |-> op, file |-> name, at |-> at, fd |-> ret'.value] /\ Holding' /\ ~Idle'
      <3>1. ret'.value # -1
        BY <1>6, Indices DEF OpenDone
      <3>2. handler' = [op |-> op, file |-> name, at |-> at, fd |-> ret'.value]
        BY <1>2, <3>1
      <3> QED BY <3>2 DEF Holding, Idle
    <2>1. NoNameLeft'
      BY <1>1, <1>6 DEF OpenDone, NoNameLeft
    <2>2. Listings' /\ ListingComplete'
      BY <1>1, <1>2, <1>4, <1>6, <2>0, <2>1, ListsStay DEF OpenDone
    <2>3. OneDescriptor' /\ Prepared'
      BY <1>4, <1>6, <2>0 DEF OpenDone, OneDescriptor, Prepared
    <2> QED BY <1>3, <1>4, <2>2, <2>3 DEF ServerInv, FuseInv
  <1> QED BY <1>1, <1>2, <1>5, <1>6, OpenEffect

LEMMA RemoveKeeps ==
    ASSUME Overlay = "padding", Habits \subseteq {"SeekOutside"}, ServerInv, undefined = "no",
           NEW name \in Names, Idle, does_file_exist(name), sfs_remove(name), listed' = listed,
           \/ handler' = handler
           \/ handler' = [op |-> "truncate", file |-> name, at |-> "reopen", fd |-> None]
    PROVE  ServerInv'
  <1>1. SfsInv /\ NoNameLeft /\ AllClosed /\ Listings /\ ~Listing /\ handler = NoHandler
    BY Situation
  <1>2. SfsInv'
    BY <1>1, CallKeeps DEF Call, Change
  <1>3. RemoveSucceeds(name)
    BY <1>1, RemoveEffect
  <1>4. HandlerOK' /\ ~Holding' /\ ~Listing' /\ handler'.at # "transfer"
        /\ (handler'.at = "reopen" => handler'.file = name)
    BY <1>1 DEF HandlerOK, Holding, Listing, NoHandler
  <1>5. NoNameLeft' /\ Listings' /\ ListingComplete'
    BY <1>1, <1>3, <1>4, ListsStay DEF RemoveSucceeds
  <1>6. OneDescriptor'
    BY <1>1, <1>3, <1>4 DEF OneDescriptor, RemoveSucceeds, AllClosed
  <1>7. ~does_file_exist(name)'
    <2>1. Views'
      BY <1>2, ViewsStay
    <2> QED BY <1>3, <2>1 DEF Views, ViewOf, RemoveSucceeds
  <1>8. Prepared'
    BY <1>4, <1>7 DEF Prepared, does_file_exist
  <1> QED BY <1>2, <1>4, <1>5, <1>6, <1>8 DEF ServerInv, FuseInv

(* The calls that move the descriptor of the handler.                       *)
LEMMA MoveKeeps ==
    ASSUME Overlay = "padding", Habits \subseteq {"SeekOutside"}, ServerInv, undefined = "no",
           Holding, Call, NEW call, call # "sfs_getnextfilename", MoveDone(call),
           listed' = listed, HandlerOK', handler'.fd = handler.fd,
           handler'.at \in {"transfer", "close"},
           handler'.at = "transfer" =>
               call = "sfs_fseek" /\ fdt'[handler.fd].read_write_ptr \in Seeks
    PROVE  ServerInv'
  <1>1. SfsInv /\ NoNameLeft /\ Listings /\ ~Listing
    BY Situation
  <1>2. SfsInv' /\ NoNameLeft' /\ Holding' /\ ~Listing'
    BY <1>1, CallKeeps, SameNames DEF MoveDone, Holding, Listing
  <1>3. Listings' /\ ListingComplete'
    BY <1>1, <1>2, ListsStay DEF MoveDone
  <1>4. OneDescriptor'
    BY <1>2, Situation DEF MoveDone, OneDescriptor
  <1>5. Prepared'
    BY DEF MoveDone, Prepared
  <1> QED BY <1>2, <1>3, <1>4, <1>5 DEF ServerInv, FuseInv

LEMMA SeekKeeps ==
    ASSUME Overlay = "padding", Habits \subseteq {"SeekOutside"}, ServerInv, undefined = "no",
           NEW offset \in Offsets, SeekOffset(offset)
    PROVE  ServerInv'
  <1>0. PICK loc \in Seeks : loc = AsInt(offset)
    BY FuseAssumption DEF Positions
  <1>1. /\ handler.at = "seek" /\ sfs_fseek(handler.fd, loc) /\ listed' = listed
        /\ GoOn(IF ret'.value = -1 THEN "done" ELSE "transfer")
    BY <1>0 DEF SeekOffset
  <1>2. SfsInv /\ HandlerOK /\ Holding /\ handler.fd \in Entries /\ fdt[handler.fd].occupied
        /\ fdt \in [Entries -> Descriptor]
    BY <1>1, Situation, InvParts DEF Holding, OthersOK
  <1>3. /\ fdt' = [fdt EXCEPT ![handler.fd].read_write_ptr = loc]
        /\ ret' = Result("sfs_fseek", 0) /\ UNCHANGED others
    BY <1>1, <1>2 DEF sfs_fseek
  <1>4. MoveDone("sfs_fseek") /\ fdt'[handler.fd].read_write_ptr \in Seeks
    BY <1>2, <1>3 DEF MoveDone, Result, Descriptor, others, tables
  <1>5. handler' = [op |-> handler.op, file |-> handler.file, at |-> "transfer", fd |-> handler.fd]
    BY <1>1, <1>3 DEF GoOn, Continue, Result
  <1>6. HandlerOK'
    BY <1>1, <1>2, <1>5 DEF HandlerOK, Holding, Listing, NoHandler
  <1>7. Call
    BY <1>1, <1>2 DEF Call, Change
  <1> QED BY <1>1, <1>2, <1>4, <1>5, <1>6, <1>7, MoveKeeps

LEMMA TransferKeeps ==
    ASSUME Overlay = "padding", Habits \subseteq {"SeekOutside"}, ServerInv, undefined = "no",
           NEW length \in Lengths, ReadOrWrite(length)
    PROVE  ServerInv'
  <1>1. handler.at = "transfer" /\ listed' = listed /\ GoOn(AfterTransfer(ret'.value))
        /\ (sfs_fread(handler.fd, length) \/ sfs_fwrite(handler.fd, length))
    BY DEF ReadOrWrite
  <1>2. SfsInv /\ HandlerOK /\ Holding /\ handler.fd \in Entries /\ fdt[handler.fd].occupied
        /\ ~Listing /\ ret.call = "sfs_fseek"
    BY <1>1, Situation DEF Holding, Prepared
  <1>3. Call /\ SfsInv'
    <2>1. Call
      BY <1>1, <1>2 DEF Call, Change, Query
    <2> QED BY <1>2, <2>1, CallKeeps
  <1>4. Crashes \/ MoveDone("sfs_fread") \/ MoveDone("sfs_fwrite")
    BY <1>1, <1>2, TransfersEffect
  <1>5. \/ handler' = NoHandler
        \/ handler' = [op |-> handler.op, file |-> handler.file, at |-> "close", fd |-> handler.fd]
    BY <1>1 DEF GoOn, Continue, AfterTransfer
  <1>6. HandlerOK' /\ ~Listing'
    BY <1>1, <1>2, <1>5 DEF HandlerOK, Holding, Listing, NoHandler
  <1>7. ASSUME NEW call \in {"sfs_fread", "sfs_fwrite"}, MoveDone(call) PROVE ServerInv'
    <2>1. handler' = [op |-> handler.op, file |-> handler.file, at |-> "close", fd |-> handler.fd]
      BY <1>1, <1>7 DEF MoveDone, GoOn, Continue, AfterTransfer
    <2> QED BY <1>1, <1>2, <1>3, <1>6, <1>7, <2>1, MoveKeeps
  <1>8. CASE Crashes
    <2>1. NoNameLeft' /\ curr_file_index' = curr_file_index /\ undefined' # "no"
          /\ ret'.call = "sfs_fseek"
      BY <1>2, <1>8, Situation, SameNames DEF Crashes, tables
    <2>2. Listings' /\ ListingComplete'
      BY <1>1, <1>2, <1>6, <2>1, Situation, ListsStay
    <2> QED BY <1>3, <1>6, <2>1, <2>2 DEF ServerInv, FuseInv
  <1> QED BY <1>4, <1>7, <1>8

LEMMA CloseKeeps ==
    ASSUME Overlay = "padding", Habits \subseteq {"SeekOutside"}, ServerInv, undefined = "no",
           CloseFile
    PROVE  ServerInv'
  <1>1. handler.at = "close" /\ sfs_fclose(handler.fd) /\ listed' = listed /\ handler' = NoHandler
    BY DEF CloseFile, GoOn, Continue
  <1>2. /\ SfsInv /\ Holding /\ handler.fd \in Entries /\ fdt[handler.fd].occupied
        /\ fdt \in [Entries -> Descriptor] /\ NoNameLeft /\ Listings /\ ~Listing
        /\ \A f \in Entries : fdt[f].occupied <=> f = handler.fd
    BY <1>1, Situation, InvParts DEF Holding, OthersOK
  <1>3. /\ fdt' = [fdt EXCEPT ![handler.fd] = Closed]
        /\ ret' = Result("sfs_fclose", 0) /\ UNCHANGED others
    BY <1>1, <1>2 DEF sfs_fclose
  <1>4. SfsInv' /\ NoNameLeft'
    BY <1>1, <1>2, <1>3, CallKeeps, SameNames DEF Call, Change, others, tables
  <1>5. HandlerOK' /\ ~Listing' /\ ~Holding' /\ Prepared'
    BY <1>1 DEF HandlerOK, Listing, Holding, NoHandler, Prepared
  <1>6. Listings' /\ ListingComplete'
    BY <1>1, <1>2, <1>3, <1>4, <1>5, ListsStay DEF others, Result
  <1>7. OneDescriptor'
    BY <1>2, <1>3, <1>5 DEF OneDescriptor, Closed
  <1> QED BY <1>4, <1>5, <1>6, <1>7 DEF ServerInv, FuseInv

LEMMA GetattrKeeps ==
    ASSUME Overlay = "padding", Habits \subseteq {"SeekOutside"}, ServerInv, undefined = "no",
           NEW name \in Names, fuse_getattr(name)
    PROVE  ServerInv'
  <1>1. Idle /\ sfs_getfilesize(name) /\ UNCHANGED <<handler, listed>>
    BY DEF fuse_getattr
  <1>2. /\ ret'.call = "sfs_getfilesize" /\ UNCHANGED <<fdt, root_dir_table, curr_file_index>>
    BY <1>1 DEF sfs_getfilesize, others, tables, Result
  <1>3. SfsInv /\ HandlerOK /\ NoNameLeft /\ Listings /\ AllClosed /\ handler = NoHandler /\ ~Listing
    BY <1>1, Situation
  <1>4. SfsInv' /\ NoNameLeft'
    BY <1>1, <1>2, <1>3, CallKeeps, SameNames DEF Call, Query
  <1>5. HandlerOK' /\ ~Listing' /\ ~Holding' /\ Prepared'
    BY <1>1, <1>3 DEF HandlerOK, Listing, Holding, NoHandler, Prepared
  <1>6. Listings' /\ ListingComplete'
    BY <1>1, <1>2, <1>3, <1>4, <1>5, ListsStay
  <1>7. OneDescriptor'
    BY <1>2, <1>3, <1>5 DEF OneDescriptor, AllClosed
  <1> QED BY <1>4, <1>5, <1>6, <1>7 DEF ServerInv, FuseInv

-----------------------------------------------------------------------------
(* fuse_readdir.                                                            *)
LEMMA Appended ==
    ASSUME NEW S, NEW s \in Seq(S), IsInjective(s), NEW e \in S, e \notin ToSet(s)
    PROVE  /\ Append(s, e) \in Seq(S) /\ IsInjective(Append(s, e))
           /\ ToSet(Append(s, e)) = ToSet(s) \cup {e}
  <1>1. /\ DOMAIN s = 1 .. Len(s) /\ Len(s) \in Nat
        /\ DOMAIN Append(s, e) = 1 .. Len(s) + 1
        /\ \A i \in 1 .. Len(s) : Append(s, e)[i] = s[i]
        /\ Append(s, e)[Len(s) + 1] = e
    OBVIOUS
  <1>2. \A i \in 1 .. Len(s) + 1 : i \in 1 .. Len(s) \/ i = Len(s) + 1
    BY <1>1
  <1>3. \A i \in 1 .. Len(s) : s[i] # e
    BY <1>1 DEF ToSet
  <1>4. IsInjective(Append(s, e))
    <2> SUFFICES ASSUME NEW i \in 1 .. Len(s) + 1, NEW j \in 1 .. Len(s) + 1,
                        Append(s, e)[i] = Append(s, e)[j]
                 PROVE  i = j
      BY <1>1 DEF IsInjective
    <2> QED BY <1>1, <1>2, <1>3 DEF IsInjective
  <1>5. ToSet(Append(s, e)) = ToSet(s) \cup {e}
    <2>1. Len(s) + 1 \in 1 .. Len(s) + 1 /\ 1 .. Len(s) \subseteq 1 .. Len(s) + 1
      BY <1>1
    <2> QED BY <1>1, <1>2, <2>1 DEF ToSet
  <1> QED BY <1>4, <1>5

NamesBefore(n) == {root_dir_table[i].file_name : i \in {j \in Occupied : j < n}}

LEMMA NextIs ==
    ASSUME SfsInv, NoNameLeft
    PROVE  /\ curr_file_index \in Nat /\ Occupied \subseteq Nat
           /\ \/ NextFile = None /\ \A i \in Occupied : i < curr_file_index
              \/ /\ NextFile \in Occupied /\ curr_file_index <= NextFile
                 /\ \A i \in Occupied : i < NextFile + 1 <=> i < curr_file_index \/ i = NextFile
           /\ Occupied # {} => get_num_of_files # 0
           /\ ToSet(<<>>) = {} /\ Files = {root_dir_table[i].file_name : i \in Occupied}
           /\ \A i, j \in Occupied :
                 root_dir_table[i].file_name = root_dir_table[j].file_name => i = j
  <1>1. Directory /\ curr_file_index \in Nat /\ Occupied \subseteq Nat
        /\ Entries \subseteq Nat
    BY InvParts, Indices DEF OthersOK, Occupied
  <1>2. ASSUME NEW i \in Entries
        PROVE  does_file_exist(root_dir_table[i].file_name) <=> i \in Occupied
    BY <1>1, <1>2, SfsAssumption DEF does_file_exist, Occupied, NoNameLeft, Directory
  <1> DEFINE S == {i \in Occupied : i >= curr_file_index}
  <1>3. NextFile = First(S)
    <2>1. {i \in Entries : i >= curr_file_index /\ does_file_exist(root_dir_table[i].file_name)} = S
      BY <1>2 DEF Occupied
    <2> QED BY <2>1 DEF NextFile
  <1>4. /\ S = {} => NextFile = None
        /\ S # {} => NextFile \in S /\ \A i \in S : NextFile <= i
    BY <1>1, <1>3, FirstIs
  <1>5. \/ NextFile = None /\ \A i \in Occupied : i < curr_file_index
        \/ /\ NextFile \in Occupied /\ curr_file_index <= NextFile
           /\ \A i \in Occupied : i < NextFile + 1 <=> i < curr_file_index \/ i = NextFile
    <2>1. CASE S = {}
      BY <1>1, <1>4, <2>1
    <2>2. CASE S # {}
      <3>1. PICK n : n = NextFile
        OBVIOUS
      <3>2. n \in Occupied /\ curr_file_index <= n /\ n \in Nat
        BY <1>1, <1>4, <2>2, <3>1
      <3>3. ASSUME NEW i \in Occupied
            PROVE  i < n + 1 <=> i < curr_file_index \/ i = n
        <4>1. i \in Nat /\ (i < curr_file_index \/ n <= i)
          BY <1>1, <1>4, <2>2, <3>1
        <4> QED BY <1>1, <3>2, <4>1
      <3> QED BY <3>1, <3>2, <3>3
    <2> QED BY <2>1, <2>2
  <1>6. Occupied # {} => get_num_of_files # 0
    <2>1. IsFiniteSet(Occupied)
      <3>1. IsFiniteSet(0 .. NUM_OF_FILES - 1)
        BY FS_Interval, Indices
      <3> QED BY <3>1, FS_Subset DEF Occupied, Entries
    <2> QED BY <2>1, FS_EmptySet DEF get_num_of_files, Occupied
  <1>7. Files = {root_dir_table[i].file_name : i \in Occupied}
    BY <1>1 DEF Files, does_file_exist, Occupied, Directory
  <1>8. \A i, j \in Occupied :
           root_dir_table[i].file_name = root_dir_table[j].file_name => i = j
    <2>1. \A i, j \in Occupied :
             root_dir_table[i].file_name = root_dir_table[j].file_name => i <= j /\ j <= i
      BY <1>1 DEF Directory, Occupied
    <2> QED BY <1>1, <2>1
  <1>9. ToSet(<<>>) = {}
    BY DEF ToSet
  <1> QED BY <1>1, <1>5, <1>6, <1>7, <1>8, <1>9

(* The listing so far, at the start empty, and what NextName makes of it.   *)
LEMMA ListingGoesOn ==
    ASSUME SfsInv, NoNameLeft, sfs_getnextfilename,
           NEW so_far \in Seq(Names), IsInjective(so_far), ToSet(so_far) = NamesBefore(curr_file_index),
           Occupied = {} => curr_file_index = 0
    PROVE  LET v == ret'.value IN
           \/ v = 0 /\ curr_file_index' = 0 /\ ToSet(so_far) = Files
           \/ /\ v \in Names /\ v # 0 /\ Append(so_far, v) \in Seq(Names)
              /\ IsInjective(Append(so_far, v))
              /\ ToSet(Append(so_far, v)) = NamesBefore(curr_file_index')
              /\ Occupied # {}
  <1>1. PICK n : n = NextFile
    OBVIOUS
  <1> DEFINE name(i) == root_dir_table[i].file_name
  <1>2. /\ ret'.value = IF n = None THEN 0 ELSE name(n)
        /\ curr_file_index' = IF get_num_of_files = 0 THEN curr_file_index
                              ELSE IF n = None THEN 0 ELSE n + 1
    BY <1>1 DEF sfs_getnextfilename, Result, AfterLast
  <1>3. Directory /\ None \notin Entries /\ 0 \notin Names
    BY InvParts, Indices, FuseAssumption
  <1>4. CASE n = None
    <2>1. /\ \A i \in Occupied : i < curr_file_index
          /\ Occupied # {} => get_num_of_files # 0
          /\ Files = {name(i) : i \in Occupied}
      BY <1>1, <1>4, NextIs, <1>3 DEF Occupied
    <2>2. NamesBefore(curr_file_index) = Files
      BY <2>1 DEF NamesBefore
    <2> QED BY <1>2, <1>4, <2>1, <2>2
  <1>5. CASE n # None
    <2>1. /\ n \in Occupied /\ curr_file_index <= n /\ curr_file_index \in Nat /\ n \in Nat
          /\ \A i \in Occupied : i < n + 1 <=> i < curr_file_index \/ i = n
          /\ Occupied # {} => get_num_of_files # 0
          /\ \A i, j \in Occupied : name(i) = name(j) => i = j
      BY <1>1, <1>5, NextIs
    <2>2. name(n) \in Names /\ name(n) \notin NamesBefore(curr_file_index)
      BY <1>3, <2>1 DEF Directory, NamesBefore
    <2>3. NamesBefore(n + 1) = NamesBefore(curr_file_index) \cup {name(n)}
      BY <2>1 DEF NamesBefore
    <2>4. ret'.value = name(n) /\ curr_file_index' = n + 1
      BY <1>2, <1>5, <2>1
    <2>5. PICK v : v = ret'.value
      OBVIOUS
    <2> HIDE DEF name
    <2>6. v \in Names /\ v # 0 /\ v \notin ToSet(so_far)
      BY <1>3, <2>2, <2>4, <2>5
    <2>7. /\ Append(so_far, v) \in Seq(Names) /\ IsInjective(Append(so_far, v))
          /\ ToSet(Append(so_far, v)) = ToSet(so_far) \cup {v}
      BY <2>6, Appended
    <2>8. ToSet(Append(so_far, v)) = NamesBefore(curr_file_index')
      BY <2>3, <2>4, <2>5, <2>7
    <2> QED BY <2>1, <2>5, <2>6, <2>7, <2>8
  <1> QED BY <1>4, <1>5

LEMMA ListKeeps ==
    ASSUME Overlay = "padding", Habits \subseteq {"SeekOutside"}, ServerInv, undefined = "no",
           fuse_readdir \/ ListMore
    PROVE  ServerInv'
  <1>1. PICK so_far : so_far = IF Listing THEN listed ELSE <<>>
    OBVIOUS
  <1>2. /\ sfs_getnextfilename /\ (Listing \/ Idle)
        /\ handler' = IF ret'.value = 0 THEN NoHandler
                      ELSE [op |-> "readdir", file |-> NoName, at |-> "list", fd |-> None]
        /\ listed' = IF ret'.value = 0 THEN so_far ELSE Append(so_far, ret'.value)
    <2>1. CASE ListMore
      BY <1>1, <2>1 DEF ListMore, NextName, Continue, Listing
    <2>2. CASE fuse_readdir
      <3>1. ~Listing
        BY <2>2, Situation DEF fuse_readdir, NoHandler, Listing
      <3>2. \A v : Append(<<>>, v) = <<v>>
        OBVIOUS
      <3> QED BY <1>1, <2>2, <3>1, <3>2 DEF fuse_readdir, NextName, Continue
    <2> QED BY <2>1, <2>2
  <1>3. SfsInv /\ NoNameLeft /\ AllClosed
    BY <1>2, Situation
  <1>4. SfsInv'
    BY <1>2, <1>3, CallKeeps DEF Call, Query
  <1>5. UNCHANGED <<fdt, tables, undefined>> /\ ret'.call = "sfs_getnextfilename"
    BY <1>2 DEF sfs_getnextfilename, Result
  <1>6. /\ so_far \in Seq(Names) /\ IsInjective(so_far)
        /\ ToSet(so_far) = NamesBefore(curr_file_index)
        /\ Occupied = {} => curr_file_index = 0
    <2>1. CASE Listing
      BY <1>1, <2>1, Situation DEF Listings, ListedSoFar, NamesBefore
    <2>2. CASE ~Listing
      <3>1. curr_file_index = 0 /\ Occupied \subseteq Nat
        BY <1>2, <1>3, <2>2, Situation, NextIs
      <3>2. NamesBefore(0) = {}
        <4>1. ASSUME NEW j \in Occupied PROVE ~ (j < 0)
          <5>1. j \in Nat
            BY <3>1
          <5> QED BY <5>1
        <4>2. {j \in Occupied : j < 0} = {}
          BY <4>1, Zenon
        <4> QED BY <4>2, Zenon DEF NamesBefore
      <3> QED BY <1>1, <2>2, <3>1, <3>2 DEF ToSet, IsInjective
    <2> QED BY <2>1, <2>2
  <1>7. /\ Occupied' = Occupied /\ root_dir_table' = root_dir_table /\ Files' = Files
        /\ NoNameLeft' /\ AllClosed'
    BY <1>3, <1>5, SameNames DEF Occupied, Files, does_file_exist, tables, AllClosed
  <1>8. HandlerOK' /\ ~Holding' /\ Prepared' /\ (Listing' <=> ret'.value # 0) /\ (Idle' <=> ret'.value = 0)
    BY <1>2 DEF HandlerOK, Holding, Prepared, Listing, NoHandler, Idle
  <1>9. Listings' /\ ListingComplete'
    <2>1. CASE ret'.value = 0
      <3>1. curr_file_index' = 0 /\ ToSet(so_far) = Files /\ listed' = so_far
        BY <1>2, <1>3, <1>6, <2>1, ListingGoesOn
      <3> QED BY <1>6, <1>7, <1>8, <2>1, <3>1 DEF Listings, ListedSoFar, ListingComplete, NoNameLeft
    <2>2. CASE ret'.value # 0
      <3>1. /\ listed' \in Seq(Names) /\ IsInjective(listed') /\ Occupied # {}
            /\ ToSet(listed') = NamesBefore(curr_file_index')
        BY <1>2, <1>3, <1>6, <2>2, ListingGoesOn
      <3> QED BY <1>7, <1>8, <2>2, <3>1
              DEF Listings, ListedSoFar, ListingComplete, NoNameLeft, NamesBefore
    <2> QED BY <2>1, <2>2
  <1>10. OneDescriptor'
    BY <1>7, <1>8 DEF OneDescriptor, AllClosed
  <1> QED BY <1>4, <1>8, <1>9, <1>10 DEF ServerInv, FuseInv

-----------------------------------------------------------------------------
LEMMA UnmountKeeps ==
    ASSUME Overlay = "padding", Habits \subseteq {"SeekOutside"}, ServerInv, undefined = "no",
           Unmount
    PROVE  ServerInv'
  <1>1. Restart /\ handler' = NoHandler /\ listed' = <<>>
    BY DEF Unmount
  <1>2. SfsInv /\ NoNameLeft
    BY Situation
  <1>3. SfsInv' /\ AllClosed' /\ curr_file_index' = 0 /\ ret'.call = "mksfs"
    BY <1>1, <1>2, MountInv DEF Restart, NewProcess, LoadTables, AllClosed, Result
  <1>4. NoNameLeft'
    <2>1. disk.root = Restrict(root_dir_table, 0 .. SavedEntries - 1)
      BY <1>2, InvParts, ImageIs DEF DiskOK, DiskMirrors
    <2>2. \A i \in Entries : root_dir_table'[i] = IF i < SavedEntries THEN root_dir_table[i]
                                                 ELSE ZeroEntry
      BY <1>1, <2>1, Indices DEF Restart, NewProcess, LoadTables, Restrict
    <2>3. ASSUME NEW i \in Entries \ Occupied' PROVE root_dir_table'[i].file_name = NoName
      BY <1>2, <2>2 DEF NoNameLeft, Occupied, ZeroEntry
    <2> QED BY <2>3 DEF NoNameLeft
  <1>5. HandlerOK' /\ ~Holding' /\ ~Listing' /\ Prepared'
    BY <1>1 DEF HandlerOK, Holding, Listing, Prepared, NoHandler
  <1>6. Listings' /\ ListingComplete'
    <2>1. <<>> \in Seq(Names) /\ IsInjective(<<>>)
      BY DEF IsInjective
    <2> QED BY <1>1, <1>3, <1>4, <1>5, <2>1 DEF Listings, ListedSoFar, ListingComplete, NoNameLeft
  <1>7. OneDescriptor'
    BY <1>3, <1>5 DEF OneDescriptor, AllClosed
  <1> QED BY <1>3, <1>5, <1>6, <1>7 DEF ServerInv, FuseInv

LEMMA FuseStutterKeeps ==
    ASSUME ServerInv, UNCHANGED fuseVars
    PROVE  ServerInv'
  <1>1. UNCHANGED vars /\ handler' = handler /\ listed' = listed
    BY DEF fuseVars
  <1>2. SfsInv'
    BY <1>1, StutterKeeps DEF ServerInv, FuseInv
  <1>3. UNCHANGED <<fdt, root_dir_table, curr_file_index, ret, undefined>>
    BY <1>1 DEF vars, others, tables
  <1>4. /\ Occupied' = Occupied /\ Files' = Files
        /\ \A n : does_file_exist(n)' = does_file_exist(n)
    BY <1>3 DEF Occupied, Files, does_file_exist
  <1>5. HandlerOK' /\ (OneDescriptor => OneDescriptor')
    BY <1>1, <1>3 DEF ServerInv, FuseInv, HandlerOK, OneDescriptor, Holding, Listing
  <1>6. Listings' /\ ListingComplete'
    BY <1>1, <1>3, <1>4 DEF ServerInv, FuseInv, Listings, ListedSoFar, ListingComplete, Listing, Idle
  <1>7. Prepared => Prepared'
    BY <1>1, <1>3, <1>4 DEF Prepared
  <1> QED BY <1>2, <1>3, <1>5, <1>6, <1>7 DEF ServerInv, FuseInv

LEMMA FuseInitInv ==
    ASSUME FuseInit
    PROVE  ServerInv
  <1>1. Init /\ handler = NoHandler /\ listed = <<>>
    BY DEF FuseInit
  <1>2. SfsInv /\ Occupied = {}
    BY <1>1, InitInv, NothingThere
  <1>3. /\ curr_file_index = 0 /\ ret.call = "mksfs" /\ AllClosed
        /\ root_dir_table = initialize_root_directory_table([i \in Entries |-> ZeroEntry])
    BY <1>1, EmptyTables DEF Init, Result, AllClosed
  <1>4. \A i \in Entries \ Occupied : root_dir_table[i].file_name = NoName
    BY <1>3 DEF initialize_root_directory_table, ZeroEntry
  <1>5. HandlerOK /\ ~Holding /\ ~Listing /\ Prepared
    BY <1>1 DEF HandlerOK, Holding, Listing, Prepared, NoHandler
  <1>6. Listings /\ ListingComplete
    <2>1. <<>> \in Seq(Names) /\ IsInjective(<<>>)
      BY DEF IsInjective
    <2> QED BY <1>1, <1>3, <1>4, <1>5, <2>1 DEF Listings, ListedSoFar, ListingComplete
  <1>7. OneDescriptor
    BY <1>3, <1>5 DEF OneDescriptor, AllClosed
  <1> QED BY <1>2, <1>5, <1>6, <1>7 DEF ServerInv, FuseInv

LEMMA FuseStep ==
    ASSUME Overlay = "padding", Habits \subseteq {"SeekOutside"}, ServerInv, [FuseNext]_fuseVars
    PROVE  ServerInv'
  <1>1. CASE UNCHANGED fuseVars
    BY <1>1, FuseStutterKeeps
  <1>2. CASE undefined = "no" /\ Request
    <2>1. ASSUME fuse_readdir PROVE ServerInv'
      BY <1>2, <2>1, ListKeeps
    <2>2. ASSUME NEW name \in Names, fuse_getattr(name) PROVE ServerInv'
      BY <1>2, <2>2, GetattrKeeps
    <2>3. ASSUME NEW name \in Names, fuse_unlink(name) \/ fuse_truncate(name) PROVE ServerInv'
      BY <1>2, <2>3, RemoveKeeps DEF fuse_unlink, fuse_truncate, Continue
    <2>4. ASSUME NEW name \in Names, fuse_create(name) \/ fuse_open(name)
          PROVE  ServerInv'
      BY <1>2, <2>4, Situation, OpenKeeps DEF fuse_create, fuse_open
    <2>5. ASSUME NEW name \in Names, fuse_read(name) \/ fuse_write(name)
          PROVE  ServerInv'
      BY <1>2, <2>5, Situation, OpenKeeps DEF fuse_read, fuse_write
    <2> QED BY <1>2, <2>1, <2>2, <2>3, <2>4, <2>5 DEF Request
  <1>3. CASE undefined = "no" /\ HandlerStep
    <2>1. ASSUME ListMore PROVE ServerInv'
      BY <1>3, <2>1, ListKeeps
    <2>2. ASSUME CloseFile PROVE ServerInv'
      BY <1>3, <2>2, CloseKeeps
    <2>3. ASSUME Recreate PROVE ServerInv'
      <3>1. handler.at = "reopen" /\ OpenFor("truncate", handler.file, "close")
        BY <2>3 DEF Recreate
      <3>2. handler.file \in Names
        BY <3>1 DEF ServerInv, FuseInv, HandlerOK, NoHandler, Listing, Holding
      <3> QED BY <1>3, <3>1, <3>2, OpenKeeps
    <2>4. ASSUME NEW offset \in Offsets, SeekOffset(offset) PROVE ServerInv'
      BY <1>3, <2>4, SeekKeeps
    <2>5. ASSUME NEW length \in Lengths, ReadOrWrite(length) PROVE ServerInv'
      BY <1>3, <2>5, TransferKeeps
    <2> QED BY <1>3, <2>1, <2>2, <2>3, <2>4, <2>5 DEF HandlerStep
  <1>4. CASE undefined = "no" /\ Unmount
    BY <1>4, UnmountKeeps
  <1> QED BY <1>1, <1>2, <1>3, <1>4 DEF FuseNext

-----------------------------------------------------------------------------
(* What Volume sees: the sizes, but for the file that is being truncated.   *)
VolumeShown ==
    /\ handler.at # "reopen" => /\ BeingTruncated = NoName
                                /\ \A n \in Names : VolumeSize(n) = SizeOf(n)
    /\ handler.at = "reopen" => /\ BeingTruncated = handler.file
                                /\ \A n \in Names : VolumeSize(n) = IF n = handler.file THEN 0
                                                                    ELSE SizeOf(n)

LEMMA VolumeView == VolumeShown
  BY SfsAssumption DEF VolumeShown, BeingTruncated, VolumeSize, SizeOf

LEMMA VolumeStays == VolumeShown'
  BY VolumeView, PTL

LEMMA VolumeStutters ==
    ASSUME \A n \in Names : SizeOf(n)' = SizeOf(n),
           handler' = handler \/ "reopen" \notin {handler.at, handler'.at}
    PROVE  UNCHANGED V!volumeVars
  <1>1. BeingTruncated' = BeingTruncated
    BY VolumeView, VolumeStays DEF VolumeShown, BeingTruncated
  <1>2. \A n \in Names : VolumeSize(n)' = VolumeSize(n)
    BY VolumeView, VolumeStays DEF VolumeShown
  <1> QED BY <1>1, <1>2 DEF V!volumeVars

LEMMA SameSizes ==
    ASSUME UNCHANGED <<root_dir_table, i_node_table>>
    PROVE  \A n \in Names : SizeOf(n)' = SizeOf(n)
  BY DEF SizeOf, does_file_exist, end_of_file, INodeOf, get_file

(* Some calls change the size of one file.                                  *)
Resized(name, new) ==
    /\ SizeOf(name)' = new
    /\ \A n \in Names \ {name} : SizeOf(n)' = SizeOf(n)

LEMMA OpenResizes ==
    ASSUME SfsInv, AllClosed, NEW name \in Names, sfs_fopen(name)
    PROVE  \/ Crashes
           \/ Resized(name, IF does_file_exist(name) THEN SizeOf(name) ELSE 0)
  <1>1. CASE FopenOutOfBounds(name)
    BY <1>1 DEF FopenOutOfBounds, Crashes
  <1>2. CASE ~FopenOutOfBounds(name)
    <2>1. F!Open(name)
      <3>1. name \in Names \ LongNames /\ ~FopenTooLong(name)
        BY FuseAssumption DEF FopenTooLong
      <3> QED BY <1>2, <3>1, NothingOpen, OpensRefine, CreateRefines DEF sfs_fopen, FopenShort
    <2>2. OpenFd(name) = None
      BY NothingOpen
    <2>3. ~F!isOpen(name) /\ (F!exists(name) <=> does_file_exist(name))
      <3>1. ViewOf(name)
        BY ViewsHold DEF Views
      <3> QED BY <2>2, <3>1 DEF F!isOpen, F!exists, PositionOf, SizeOf, ViewOf
    <2>4. [n \in Names |-> SizeOf(n)]' =
             [[n \in Names |-> SizeOf(n)] EXCEPT ![name] = IF does_file_exist(name) THEN @ ELSE 0]
      BY <2>1, <2>3 DEF F!Open
    <2> QED BY <2>4 DEF Resized
  <1> QED BY <1>1, <1>2

LEMMA ExistsHasSize ==
    ASSUME SfsInv, NEW name \in Names
    PROVE  /\ does_file_exist(name) => SizeOf(name) \in Nat
           /\ ~does_file_exist(name) => SizeOf(name) = -1
  <1>1. ViewOf(name)
    BY ViewsHold DEF Views
  <1> QED BY <1>1 DEF ViewOf, SizeOf

LEMMA RemoveResizes ==
    ASSUME NEW name \in Names, F!Remove(name)
    PROVE  Resized(name, -1)
  <1>1. [n \in Names |-> SizeOf(n)]' = [[n \in Names |-> SizeOf(n)] EXCEPT ![name] = -1]
    BY DEF F!Remove
  <1> QED BY <1>1 DEF Resized

LEMMA OpenVolume ==
    ASSUME ServerInv, undefined = "no", NEW name \in Names, handler.at = "done", NEW op, NEW at,
           at \notin {"reopen", "done"}, OpenFor(op, name, at)
    PROVE  UNCHANGED V!volumeVars \/ (~does_file_exist(name) /\ V!Create(name))
  <1>1. SfsInv /\ AllClosed
    BY Situation
  <1>2. sfs_fopen(name) /\ handler'.at # "reopen"
    BY DEF OpenFor, Continue, NoHandler
  <1>3. CASE Crashes
    <2>1. UNCHANGED <<root_dir_table, i_node_table>>
      BY <1>3 DEF Crashes, tables
    <2> QED BY <1>2, <2>1, SameSizes, VolumeStutters
  <1>4. CASE Resized(name, IF does_file_exist(name) THEN SizeOf(name) ELSE 0)
    <2>1. CASE does_file_exist(name)
      BY <1>2, <1>4, <2>1, VolumeStutters DEF Resized
    <2>2. CASE ~does_file_exist(name)
      <3>1. SizeOf(name) = -1
        BY <1>1, <2>2, ExistsHasSize
      <3> QED BY <1>2, <1>4, <2>2, <3>1, VolumeView, VolumeStays
              DEF Resized, VolumeShown, V!Create
    <2> QED BY <2>1, <2>2
  <1> QED BY <1>1, <1>2, <1>3, <1>4, OpenResizes

LEMMA RecreateVolume ==
    ASSUME ServerInv, undefined = "no", Recreate
    PROVE  V!Truncated \/ V!ServerEnds
  <1>1. PICK name : name = handler.file
    OBVIOUS
  <1>2. /\ handler.at = "reopen" /\ OpenFor("truncate", name, "close")
        /\ sfs_fopen(name) /\ handler'.at = "close"
    BY <1>1 DEF Recreate, OpenFor, Continue
  <1>3. SfsInv /\ AllClosed /\ name \in Names /\ name # NoName /\ SizeOf(name) = -1
        /\ ~does_file_exist(name)
    <2>1. name \in Names
      BY <1>1, <1>2 DEF ServerInv, FuseInv, HandlerOK, NoHandler, Listing, Holding
    <2> QED BY <1>1, <1>2, <2>1, Situation, ExistsHasSize, SfsAssumption DEF Prepared
  <1>4. /\ BeingTruncated = name /\ BeingTruncated' = NoName
        /\ \A n \in Names : VolumeSize(n) = IF n = name THEN 0 ELSE SizeOf(n)
        /\ \A n \in Names : VolumeSize(n)' = SizeOf(n)'
    BY <1>1, <1>2, VolumeView, VolumeStays DEF VolumeShown
  <1>5. CASE Crashes
    <2>1. \A n \in Names : SizeOf(n)' = SizeOf(n)
      BY <1>5, SameSizes DEF Crashes, tables
    <2> QED BY <1>3, <1>4, <2>1 DEF V!ServerEnds
  <1>6. CASE Resized(name, IF does_file_exist(name) THEN SizeOf(name) ELSE 0)
    BY <1>3, <1>4, <1>6 DEF V!Truncated, Resized
  <1> QED BY <1>2, <1>3, <1>5, <1>6, OpenResizes

LEMMA RemoveVolume ==
    ASSUME Overlay = "padding", Habits \subseteq {"SeekOutside"}, ServerInv, undefined = "no",
           NEW name \in Names, fuse_unlink(name) \/ fuse_truncate(name)
    PROVE  V!Unlink(name) \/ V!Truncate(name)
  <1>1. Idle /\ does_file_exist(name) /\ sfs_remove(name)
    BY DEF fuse_unlink, fuse_truncate
  <1>2. SfsInv /\ handler = NoHandler
    BY <1>1, Situation
  <1>3. Resized(name, -1) /\ SizeOf(name) \in Nat
    BY <1>1, <1>2, RemoveEffect, RemoveResizes, ExistsHasSize
  <1>4. /\ BeingTruncated = NoName
        /\ \A n \in Names : VolumeSize(n) = SizeOf(n)
    BY <1>2, VolumeView DEF VolumeShown, NoHandler
  <1>5. CASE fuse_unlink(name)
    <2>1. handler' = NoHandler
      BY <1>2, <1>5 DEF fuse_unlink
    <2>2. /\ BeingTruncated' = NoName
          /\ \A n \in Names : VolumeSize(n)' = SizeOf(n)'
      BY <2>1, VolumeStays DEF VolumeShown, NoHandler
    <2>3. [n \in Names |-> VolumeSize(n)]' = [[n \in Names |-> VolumeSize(n)] EXCEPT ![name] = -1]
      BY <1>3, <1>4, <2>2 DEF Resized
    <2> QED BY <1>3, <1>4, <2>2, <2>3 DEF V!Unlink
  <1>6. CASE fuse_truncate(name)
    <2>1. handler'.at = "reopen" /\ handler'.file = name
      BY <1>6 DEF fuse_truncate, Continue
    <2>2. /\ BeingTruncated' = name
          /\ \A n \in Names : VolumeSize(n)' = IF n = name THEN 0 ELSE SizeOf(n)'
      BY <2>1, VolumeStays DEF VolumeShown
    <2>3. [n \in Names |-> VolumeSize(n)]' = [[n \in Names |-> VolumeSize(n)] EXCEPT ![name] = 0]
      BY <1>3, <1>4, <2>2 DEF Resized
    <2> QED BY <1>3, <1>4, <2>2, <2>3 DEF V!Truncate
  <1> QED BY <1>5, <1>6

LEMMA UnmountVolume ==
    ASSUME ServerInv, undefined = "no", EveryFileSaved, Unmount
    PROVE  UNCHANGED V!volumeVars \/ V!ServerEnds
  <1>1. Restart /\ handler' = NoHandler
    BY DEF Unmount
  <1>2. \A n \in Names : SizeOf(n)' = SizeOf(n)
    <2>1. F!Reopen
      BY <1>1, Situation, LoadRefines
    <2>2. [n \in Names |-> SizeOf(n)]' = [n \in Names |-> SizeOf(n)]
      BY <2>1 DEF F!Reopen
    <2> QED BY <2>2
  <1>3. CASE handler.at # "reopen"
    BY <1>1, <1>2, <1>3, VolumeStutters DEF NoHandler
  <1>4. CASE handler.at = "reopen"
    <2>1. PICK name : name = handler.file
      OBVIOUS
    <2>2. name \in Names /\ name # NoName /\ SizeOf(name) = -1
      <3>1. name \in Names
        BY <1>4, <2>1 DEF ServerInv, FuseInv, HandlerOK, NoHandler, Listing, Holding
      <3> QED BY <1>4, <2>1, <3>1, Situation, ExistsHasSize, SfsAssumption DEF Prepared
    <2>3. /\ BeingTruncated = name /\ BeingTruncated' = NoName
          /\ \A n \in Names : VolumeSize(n) = IF n = name THEN 0 ELSE SizeOf(n)
          /\ \A n \in Names : VolumeSize(n)' = SizeOf(n)'
      BY <1>1, <1>4, <2>1, VolumeView, VolumeStays DEF VolumeShown, NoHandler
    <2> QED BY <1>2, <2>2, <2>3 DEF V!ServerEnds
  <1> QED BY <1>3, <1>4

LEMMA WriteVolume ==
    ASSUME Overlay = "padding", Habits \subseteq {"SeekOutside"}, ServerInv, undefined = "no",
           NEW length \in Lengths, ReadOrWrite(length)
    PROVE  UNCHANGED V!volumeVars \/ \E n \in Names : V!Write(n)
  <1>1. PICK f : f = handler.fd
    OBVIOUS
  <1>2. /\ handler.at = "transfer" /\ handler'.at # "reopen"
        /\ sfs_fread(f, length) \/ sfs_fwrite(f, length)
    BY <1>1 DEF ReadOrWrite, GoOn, Continue, AfterTransfer, NoHandler
  <1>3. SfsInv /\ f \in Entries /\ fdt[f].occupied /\ fdt[f].read_write_ptr \in Seeks
        /\ fdt \in [Entries -> Descriptor] /\ i_node_table \in [INodes -> INode]
    BY <1>1, <1>2, Situation, InvParts DEF Holding, Prepared, OthersOK, TablesOK
  <1>4. ASSUME \A n \in Names : SizeOf(n)' = SizeOf(n) PROVE UNCHANGED V!volumeVars
    BY <1>2, <1>4, VolumeStutters
  <1>5. PICK n \in Names, x \in INodes : Stands(f, n, x)
    BY <1>3, DescriptorStands
  <1>6. CASE sfs_fread(f, length)
    <2>1. sfs_fread_recursive(f, length).node = i_node_table[x]
      BY <1>3, <1>5, ReadEnds DEF Stands
    <2>2. UNCHANGED <<root_dir_table, i_node_table>>
      BY <1>3, <1>5, <1>6, <2>1 DEF sfs_fread, Transfer, Stands, tables, others
    <2> QED BY <1>4, <2>2, SameSizes
  <1>7. CASE sfs_fwrite(f, length)
    <2>1. PICK s : s = sfs_fwrite_recursive(f, length)
      OBVIOUS
    <2>2. Transfer("sfs_fwrite", f, length, s)
      BY <1>7, <2>1 DEF sfs_fwrite
    <2>3. CASE s.block = Garbage
      <3>1. UNCHANGED <<root_dir_table, i_node_table>>
        BY <1>3, <2>2, <2>3 DEF Transfer, tables
      <3> QED BY <1>4, <3>1, SameSizes
    <2>4. CASE s.block # Garbage
      <3>1. PICK offset \in Seeks : offset = fdt[f].read_write_ptr
        BY <1>3
      <3>2. /\ length \in Nat /\ s.ptr \in Int /\ s.left \in Nat /\ offset \in Int
            /\ s.ptr + s.left = offset + length /\ offset <= s.ptr
            /\ s.node.size = IF s.ptr = offset THEN SizeOf(n) ELSE Larger(SizeOf(n), s.ptr)
            /\ SizeOf(n) \in Nat
        <4>1. Start(f, length).node.size = SizeOf(n) /\ SizeOf(n) \in Nat
          BY <1>3, <1>5, WriteEnds DEF Stands
        <4>2. /\ Start(f, length).ptr = offset /\ Start(f, length).left = length
              /\ Counts(Start(f, length), s) /\ s \in Transfers /\ length \in Nat
          BY <1>3, <2>1, <3>1, WriteEnds
        <4>3. offset \in Int /\ s.ptr \in Int /\ s.left \in Nat
          BY <4>2, <3>1, SfsAssumption DEF Transfers
        <4> QED BY <4>1, <4>2, <4>3, <3>1 DEF Counts
      <3>3. /\ root_dir_table' = root_dir_table
            /\ fdt' = [fdt EXCEPT ![f].read_write_ptr = s.ptr]
            /\ i_node_table' = [i_node_table EXCEPT ![x] = s.node]
        BY <1>3, <1>5, <2>2, <2>4 DEF Transfer, Stands
      <3>4. SfsInv'
        BY <1>3, <1>7, CallKeeps DEF Call, Change
      <3>5. OnlySeen(n) /\ Views' /\ Named(n, x)'
        <4>1. Named(n, x)
          BY <1>5 DEF Stands
        <4>2. \A y \in FileNodes \ {x} : i_node_table'[y].size = i_node_table[y].size
          BY <1>3, <3>3, InvParts DEF Directory, FileNodes
        <4>3. \A y \in INodes \ {x} : \A g \in Entries :
                 /\ Opens(g, y)' <=> Opens(g, y)
                 /\ Opens(g, y) => fdt'[g].read_write_ptr = fdt[g].read_write_ptr
          BY <1>3, <1>5, <3>3 DEF Opens, Stands, Descriptor
        <4> QED BY <1>3, <3>3, <3>4, <4>1, <4>2, <4>3, OthersUnseen
      <3>6. SizeOf(n)' = s.node.size
        BY <1>3, <3>3, <3>5, StillStands
      <3>7. CASE s.ptr = offset
        BY <1>4, <3>2, <3>5, <3>6, <3>7 DEF OnlySeen, Unseen
      <3>8. CASE s.ptr # offset
        <4> DEFINE written == s.ptr - offset
        <4>1. written \in 1 .. length /\ s.ptr = offset + written
          BY <3>2, <3>8
        <4>2. /\ BeingTruncated = NoName /\ BeingTruncated' = NoName
              /\ \A m \in Names : VolumeSize(m) = SizeOf(m)
              /\ \A m \in Names : VolumeSize(m)' = SizeOf(m)'
          BY <1>2, VolumeView, VolumeStays DEF VolumeShown
        <4>3. SizeOf(n)' = IF SizeOf(n) > offset + written THEN SizeOf(n) ELSE offset + written
          BY <3>2, <3>6, <3>8, <4>1 DEF Larger
        <4>4. \A m \in Names \ {n} : SizeOf(m)' = SizeOf(m)
          BY <3>5 DEF OnlySeen, Unseen
        <4> HIDE DEF written
        <4>5. [m \in Names |-> VolumeSize(m)]' =
                 [[m \in Names |-> VolumeSize(m)] EXCEPT
                     ![n] = IF @ > offset + written THEN @ ELSE offset + written]
          BY <4>2, <4>3, <4>4
        <4>6. [m \in Names |-> VolumeSize(m)][n] >= 0 /\ UNCHANGED BeingTruncated
          BY <3>2, <4>2
        <4>7. V!Write(n)
          <5>1. offset \in Positions
            BY FuseAssumption
          <5> QED BY <4>1, <4>5, <4>6, <5>1, Zenon DEF V!Write
        <4> QED BY <4>7
      <3> QED BY <3>7, <3>8
    <2> QED BY <2>3, <2>4
  <1> QED BY <1>2, <1>6, <1>7

LEMMA QuietVolume ==
    ASSUME ServerInv, undefined = "no",
           \/ fuse_readdir \/ ListMore \/ CloseFile
           \/ \E name \in Names : fuse_getattr(name)
           \/ \E offset \in Offsets : SeekOffset(offset)
    PROVE  UNCHANGED V!volumeVars
  <1>1. UNCHANGED <<root_dir_table, i_node_table>>
    BY DEF fuse_readdir, ListMore, CloseFile, fuse_getattr, SeekOffset, NextName,
           sfs_getnextfilename, sfs_fclose, sfs_getfilesize, sfs_fseek, others, tables
  <1>2. handler' = handler \/ "reopen" \notin {handler.at, handler'.at}
    BY Situation DEF fuse_readdir, ListMore, CloseFile, fuse_getattr, SeekOffset, NextName,
                     Continue, GoOn, NoHandler
  <1> QED BY <1>1, <1>2, SameSizes, VolumeStutters

LEMMA FuseStepRefines ==
    ASSUME Overlay = "padding", Habits \subseteq {"SeekOutside"}, ServerInv, EveryFileSaved,
           [FuseNext]_fuseVars
    PROVE  [V!VolumeNext]_(V!volumeVars)
  <1>1. CASE UNCHANGED fuseVars
    <2>1. UNCHANGED <<root_dir_table, i_node_table, handler>>
      BY <1>1 DEF fuseVars, vars, others, tables
    <2> QED BY <2>1, SameSizes, VolumeStutters
  <1>2. CASE undefined = "no" /\ Request
    <2>1. CASE fuse_readdir \/ \E name \in Names : fuse_getattr(name)
      BY <1>2, <2>1, QuietVolume
    <2>2. ASSUME NEW name \in Names, fuse_unlink(name) \/ fuse_truncate(name)
          PROVE  V!VolumeNext
      BY <1>2, <2>2, RemoveVolume DEF V!VolumeNext
    <2>3. ASSUME NEW name \in Names,
                 fuse_create(name) \/ fuse_open(name) \/ fuse_read(name) \/ fuse_write(name)
          PROVE  V!VolumeNext \/ UNCHANGED V!volumeVars
      <3>1. handler.at = "done"
        BY <1>2, <2>3, Situation DEF fuse_create, fuse_open, fuse_read, fuse_write
      <3>2. UNCHANGED V!volumeVars \/ V!Create(name)
        BY <1>2, <2>3, <3>1, OpenVolume DEF fuse_create, fuse_open, fuse_read, fuse_write
      <3> QED BY <3>2 DEF V!VolumeNext
    <2> QED BY <1>2, <2>1, <2>2, <2>3 DEF Request
  <1>3. CASE undefined = "no" /\ HandlerStep
    <2>1. CASE ListMore \/ CloseFile \/ \E offset \in Offsets : SeekOffset(offset)
      BY <1>3, <2>1, QuietVolume
    <2>2. CASE Recreate
      BY <1>3, <2>2, RecreateVolume DEF V!VolumeNext
    <2>3. ASSUME NEW length \in Lengths, ReadOrWrite(length)
          PROVE  V!VolumeNext \/ UNCHANGED V!volumeVars
      BY <1>3, <2>3, WriteVolume DEF V!VolumeNext
    <2> QED BY <1>3, <2>1, <2>2, <2>3 DEF HandlerStep
  <1>4. CASE undefined = "no" /\ Unmount
    BY <1>4, UnmountVolume DEF V!VolumeNext
  <1> QED BY <1>1, <1>2, <1>3, <1>4 DEF FuseNext

LEMMA FuseInitRefines ==
    ASSUME FuseInit
    PROVE  V!VolumeInit
  <1>1. handler.at = "done" /\ \A n \in Names : SizeOf(n) = -1
    <2>1. Occupied = {} /\ SfsInv
      BY NothingThere, InitInv DEF FuseInit
    <2>2. \A n \in Names : ~does_file_exist(n)
      BY <2>1 DEF Occupied, does_file_exist
    <2> QED BY <2>1, <2>2, ExistsHasSize DEF FuseInit, NoHandler
  <1> QED BY <1>1, VolumeView DEF VolumeShown, V!VolumeInit

(* Every step of the server is a call of sfs_api.h, or makes none.          *)
LEMMA FuseCalls ==
    ASSUME ServerInv, [FuseNext]_fuseVars
    PROVE  Call \/ UNCHANGED vars
  <1>1. CASE UNCHANGED fuseVars
    BY <1>1 DEF fuseVars
  <1>2. CASE undefined = "no" /\ Request
    <2>1. CASE fuse_readdir
      BY <2>1 DEF fuse_readdir, NextName, Call, Query
    <2>2. ASSUME NEW name \in Names, fuse_getattr(name) PROVE Call
      BY <2>2 DEF fuse_getattr, Call, Query
    <2>3. ASSUME NEW name \in Names,
                 \/ fuse_unlink(name) \/ fuse_truncate(name)
                 \/ fuse_create(name) \/ fuse_open(name) \/ fuse_read(name) \/ fuse_write(name)
          PROVE  Call
      BY <2>3 DEF fuse_unlink, fuse_truncate, fuse_create, fuse_open, fuse_read, fuse_write,
                  OpenFor, Call, Change
    <2> QED BY <1>2, <2>1, <2>2, <2>3 DEF Request
  <1>3. CASE undefined = "no" /\ HandlerStep
    <2>1. CASE ListMore
      BY <2>1 DEF ListMore, NextName, Call, Query
    <2>2. CASE CloseFile
      BY <1>3, <2>2, Situation DEF CloseFile, Holding, Call, Change
    <2>3. CASE Recreate
      <3>1. handler.file \in Names
        BY <2>3 DEF Recreate, ServerInv, FuseInv, HandlerOK, NoHandler, Listing, Holding
      <3> QED BY <2>3, <3>1 DEF Recreate, OpenFor, Call, Change
    <2>4. ASSUME NEW offset \in Offsets, SeekOffset(offset) PROVE Call
      <3>1. AsInt(offset) \in Seeks
        BY FuseAssumption DEF Positions
      <3> QED BY <1>3, <2>4, <3>1, Situation DEF SeekOffset, Holding, Call, Change
    <2>5. ASSUME NEW length \in Lengths, ReadOrWrite(length) PROVE Call
      BY <1>3, <2>5, Situation DEF ReadOrWrite, Holding, Call, Change, Query
    <2> QED BY <1>3, <2>1, <2>2, <2>3, <2>4, <2>5 DEF HandlerStep
  <1>4. CASE undefined = "no" /\ Unmount
    BY <1>4 DEF Unmount, Call, Change
  <1> QED BY <1>1, <1>2, <1>3, <1>4 DEF FuseNext

-----------------------------------------------------------------------------
(* SfsInv and FuseInv together are an inductive invariant of the server.    *)
LEMMA ServerKeeps ==
    ASSUME Overlay = "padding", Habits \subseteq {"SeekOutside"}
    PROVE  FuseSpec => []ServerInv
  <1>1. FuseInit => ServerInv
    BY FuseInitInv
  <1>2. ServerInv /\ [FuseNext]_fuseVars => ServerInv'
    BY FuseStep
  <1> QED BY <1>1, <1>2, PTL DEF FuseSpec

(* All that a handler relies on is true where it relies on it, and its calls*)
(* leave the file system consistent.                                        *)
THEOREM FuseInductive ==
    ASSUME Overlay = "padding", Habits \subseteq {"SeekOutside"}
    PROVE  FuseSpec => [](SfsInv /\ FuseInv)
  BY ServerKeeps DEF ServerInv

(* No handler leaves a descriptor open, on whichever of its paths it ends,  *)
(* and also if the process ends in it.                                      *)
THEOREM HandlersClose ==
    ASSUME Overlay = "padding", Habits \subseteq {"SeekOutside"}
    PROVE  FuseSpec => []NoDescriptorLeft
  <1>1. ServerInv => NoDescriptorLeft
    BY Situation DEF NoDescriptorLeft, AllClosed
  <1> QED BY <1>1, ServerKeeps, PTL

(* fuse_readdir lists the files, each once: no other handler moves the      *)
(* cursor of sfs_getnextfilename, and it is at the start after each listing.*)
THEOREM ListingsAreComplete ==
    ASSUME Overlay = "padding", Habits \subseteq {"SeekOutside"}
    PROVE  FuseSpec => []ListingComplete
  <1>1. ServerInv => ListingComplete
    BY DEF ServerInv, FuseInv
  <1> QED BY <1>1, ServerKeeps, PTL

(* The kernel may ask for any offset, and from 2 GiB on sfs_fseek gets some  *)
(* other position, which may be negative.  As long as the server touches    *)
(* the blocks of its files only, none of them gets into two files or stays  *)
(* in the bitmap.  Nothing is claimed once a transfer has taken its block   *)
(* number from outside the pointers of its file, as it does at a negative   *)
(* position (line 584): it may then write over any block.                   *)
THEOREM VolumeNeverCrossLinked ==
    ASSUME Overlay = "padding", Habits \subseteq {"SeekOutside"}
    PROVE  FuseSpec => [](undefined = "no" => NoCrossLinks)
  <1>1. ServerInv => NoCrossLinks
    BY InvNoCrossLinks DEF ServerInv
  <1> QED BY <1>1, ServerKeeps, PTL

(* As long as the directory on the disk holds every file, each call of a    *)
(* handler does one step of Volume or none.                                 *)
THEOREM VolumeRefinement ==
    ASSUME Overlay = "padding", Habits \subseteq {"SeekOutside"}
    PROVE  FuseSpec /\ []EveryFileSaved => ImplementsVolume
  <1>1. FuseSpec => []ServerInv
    BY ServerKeeps
  <1>2. FuseInit => V!VolumeInit
    BY FuseInitRefines
  <1>3. ServerInv /\ EveryFileSaved /\ [FuseNext]_fuseVars => [V!VolumeNext]_(V!volumeVars)
    BY FuseStepRefines
  <1> QED BY <1>1, <1>2, <1>3, PTL DEF FuseSpec, ImplementsVolume, V!VolumeSpec

(* So it implements Volume while there are never more files than            *)
(* save_root_directory_table has room for, ...                              *)
THEOREM FewFilesVolume ==
    ASSUME Overlay = "padding", Habits \subseteq {"SeekOutside"}
    PROVE  FuseSpec /\ []FewFiles => ImplementsVolume
  <1>1. FuseInit => InSavedPart
    BY NothingThere DEF FuseInit, InSavedPart
  <1>2. ServerInv /\ InSavedPart /\ FewFiles' /\ [FuseNext]_fuseVars => InSavedPart'
    <2>1. ASSUME InSavedPart, UNCHANGED vars PROVE InSavedPart'
      BY <2>1 DEF vars, others, tables, InSavedPart, Occupied
    <2>2. ASSUME ServerInv, InSavedPart, FewFiles', Call PROVE InSavedPart'
      BY <2>2, SavedPartStep DEF ServerInv
    <2> QED BY <2>1, <2>2, FuseCalls
  <1>3. ServerInv /\ InSavedPart => EveryFileSaved
    BY SavedIsThere DEF ServerInv
  <1>4. FuseSpec /\ []FewFiles => []EveryFileSaved
    BY <1>1, <1>2, <1>3, ServerKeeps, PTL DEF FuseSpec
  <1> QED BY <1>4, VolumeRefinement, PTL

(* ... and always where the whole directory is saved.                       *)
THEOREM SavedDirectoryVolume ==
    ASSUME Overlay = "padding", Habits \subseteq {"SeekOutside"}, SavedEntries = NUM_OF_FILES
    PROVE  FuseSpec => ImplementsVolume
  <1>1. ServerInv => EveryFileSaved
    BY SavedIsThere, Indices DEF ServerInv, InSavedPart, Occupied, Entries
  <1> QED BY <1>1, ServerKeeps, VolumeRefinement, PTL
=============================================================================
