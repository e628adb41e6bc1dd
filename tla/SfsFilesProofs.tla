--------------------------- MODULE SfsFilesProofs ---------------------------
(***************************************************************************)
(* sfs_api.c implements the file system of module Files, for every size of *)
(* the tables, the blocks and the disk: the proof of ImplementsFiles.  And *)
(* which blocks it can lose: the proof of LeaksAreKnown.                   *)
(***************************************************************************)
EXTENDS SfsFiles, SfsProofs, FiniteSetTheorems

-----------------------------------------------------------------------------
(* The i-node that a name stands for, the descriptor that stands for an     *)
(* i-node, and what the caller sees of them.                                *)
Named(n, x) == \E i \in Occupied : /\ root_dir_table[i].file_name = n
                                   /\ root_dir_table[i].i_node_ptr = x
Opens(f, x) == fdt[f].occupied /\ fdt[f].i_node_ptr = x

ViewOf(n) ==
    /\ (\A x \in INodes : ~ Named(n, x)) =>
          SizeOf(n) = -1 /\ OpenFd(n) = None /\ PositionOf(n) = -1 /\ ~ does_file_exist(n)
    /\ \A x \in INodes : Named(n, x) =>
          /\ x \in FileNodes /\ does_file_exist(n) /\ INodeOf(n) = x
          /\ SizeOf(n) = i_node_table[x].size /\ SizeOf(n) \in Nat
          /\ \A y \in INodes : Named(n, y) => y = x
          /\ \A f \in Entries : Opens(f, x) =>
                /\ OpenFd(n) = f /\ PositionOf(n) = fdt[f].read_write_ptr
                /\ Careful => PositionOf(n) \in Nat
          /\ (\A f \in Entries : ~ Opens(f, x)) => OpenFd(n) = None /\ PositionOf(n) = -1
Views == \A n \in Names : ViewOf(n)

LEMMA GetFd ==
    ASSUME NEW x
    PROVE  /\ (\A f \in Entries : ~ Opens(f, x)) => get_fd(x) = None
           /\ \A f \in Entries : Opens(f, x) /\ (\A g \in Entries : Opens(g, x) => g = f) =>
                 get_fd(x) = f
  <1> DEFINE G == {g \in Entries : fdt[g].i_node_ptr = x /\ fdt[g].occupied}
  <1>1. G \subseteq Nat /\ get_fd(x) = First(G)
    BY Indices DEF get_fd
  <1>2. (G = {} => First(G) = None) /\ (G # {} => First(G) \in G)
    <2> HIDE DEF G
    <2> QED BY <1>1, FirstIs
  <1> QED BY <1>1, <1>2 DEF Opens

LEMMA ViewsHold == SfsInv => Views
  <1> SUFFICES ASSUME SfsInv, NEW n \in Names PROVE ViewOf(n)
    BY DEF Views
  <1>1. Directory /\ OpenFiles /\ Storage
    BY InvParts
  <1>2. FileNodes \subseteq INodes \ {0} /\ None \notin INodes
    BY <1>1, Indices DEF Directory, FileNodes
  <1>3. ASSUME \A x \in INodes : ~ Named(n, x)
        PROVE  /\ SizeOf(n) = -1 /\ OpenFd(n) = None /\ PositionOf(n) = -1
               /\ ~ does_file_exist(n)
    <2>1. ~ does_file_exist(n)
      <3>1. SUFFICES ASSUME does_file_exist(n) PROVE FALSE
        OBVIOUS
      <3>2. PICK i \in Occupied : root_dir_table[i].file_name = n
        BY <3>1 DEF does_file_exist, Occupied
      <3>3. root_dir_table[i].i_node_ptr \in INodes
        BY <1>2, <3>2 DEF FileNodes
      <3> QED BY <1>3, <3>2, <3>3 DEF Named
    <2>2. OpenFd(n) = None
      <3>1. CASE get_file(n) = None
        BY <3>1 DEF OpenFd
      <3>2. CASE get_file(n) # None
        <4> DEFINE N == {i \in Entries : root_dir_table[i].file_name = n}
        <4>1. N \subseteq Nat /\ get_file(n) = First(N)
          BY Indices DEF get_file
        <4>2. get_file(n) \in N
          <5> HIDE DEF N
          <5> QED BY <3>2, <4>1, FirstIs
        <4>3. get_file(n) \in Entries \ Occupied
          BY <2>1, <4>2 DEF does_file_exist, Occupied
        <4>4. INodeOf(n) \in {None, 0}
          BY <1>1, <4>3 DEF Directory, INodeOf
        <4>5. \A f \in Entries : ~ Opens(f, INodeOf(n))
          BY <1>1, <1>2, <4>4 DEF OpenFiles, Opens
        <4> QED BY <4>5, GetFd DEF OpenFd
      <3> QED BY <3>1, <3>2
    <2> QED BY <2>1, <2>2 DEF SizeOf, PositionOf
  <1>4. ASSUME NEW x \in INodes, Named(n, x)
        PROVE  /\ x \in FileNodes /\ does_file_exist(n) /\ INodeOf(n) = x
               /\ SizeOf(n) = i_node_table[x].size /\ SizeOf(n) \in Nat
               /\ \A y \in INodes : Named(n, y) => y = x
               /\ \A f \in Entries : Opens(f, x) =>
                     /\ OpenFd(n) = f /\ PositionOf(n) = fdt[f].read_write_ptr
                     /\ Careful => PositionOf(n) \in Nat
               /\ (\A f \in Entries : ~ Opens(f, x)) => OpenFd(n) = None /\ PositionOf(n) = -1
    <2>1. PICK i \in Occupied : root_dir_table[i].file_name = n /\ root_dir_table[i].i_node_ptr = x
      BY <1>4 DEF Named
    <2>2. does_file_exist(n)
      BY <2>1 DEF does_file_exist, Occupied
    <2>3. /\ get_file(n) # None
          /\ \A j \in Occupied : root_dir_table[j].file_name = n => j = get_file(n)
      BY <1>1, <2>2, FileFound
    <2>4. INodeOf(n) = x /\ x \in FileNodes
      BY <2>1, <2>3 DEF INodeOf, FileNodes
    <2>5. SizeOf(n) = i_node_table[x].size /\ SizeOf(n) \in Nat
      BY <1>1, <2>2, <2>4 DEF SizeOf, end_of_file, Storage
    <2>6. \A y \in INodes : Named(n, y) => y = x
      BY <2>1, <2>3 DEF Named
    <2>7. OpenFd(n) = get_fd(x)
      BY <2>3, <2>4 DEF OpenFd
    <2>8. ASSUME NEW f \in Entries, Opens(f, x)
          PROVE  /\ OpenFd(n) = f /\ PositionOf(n) = fdt[f].read_write_ptr
                 /\ Careful => PositionOf(n) \in Nat
      <3>1. \A g \in Entries : Opens(g, x) => g = f
        BY <1>1, <2>8 DEF Opens, OpenFiles
      <3>2. OpenFd(n) = f /\ f # None
        BY <2>7, <2>8, <3>1, GetFd, Indices
      <3>3. Careful => fdt[f].read_write_ptr \in Nat
        BY <1>1, <2>4, <2>5, <2>8 DEF Careful, Opens
      <3> QED BY <2>8, <3>2, <3>3 DEF PositionOf
    <2>9. (\A f \in Entries : ~ Opens(f, x)) => OpenFd(n) = None /\ PositionOf(n) = -1
      BY <2>7, GetFd DEF PositionOf
    <2> QED BY <2>2, <2>4, <2>5, <2>6, <2>8, <2>9
  <1> QED BY <1>3, <1>4 DEF ViewOf

LEMMA ViewsStay == SfsInv' => Views'
  BY ViewsHold, PTL

-----------------------------------------------------------------------------
(* What a step does to the view of one file, given what it does to the      *)
(* tables.                                                                  *)
Unseen(m) == SizeOf(m)' = SizeOf(m) /\ PositionOf(m)' = PositionOf(m)

LEMMA SameView ==
    ASSUME UNCHANGED <<fdt, tables>>, NEW m
    PROVE  Unseen(m)
  BY DEF Unseen, SizeOf, PositionOf, OpenFd, get_fd, get_file, INodeOf, does_file_exist,
         end_of_file, tables

LEMMA FileUnseen ==
    ASSUME Views, Views', NEW m \in Names,
           \A x \in INodes : Named(m, x)' <=> Named(m, x),
           \A x \in INodes : Named(m, x) =>
               /\ i_node_table'[x].size = i_node_table[x].size
               /\ \A f \in Entries : /\ Opens(f, x)' <=> Opens(f, x)
                                     /\ Opens(f, x) => fdt'[f].read_write_ptr = fdt[f].read_write_ptr
    PROVE  Unseen(m)
  <1>1. ViewOf(m) /\ ViewOf(m)'
    BY DEF Views
  <1>2. CASE \A x \in INodes : ~ Named(m, x)
    BY <1>1, <1>2 DEF ViewOf, Unseen
  <1>3. ASSUME NEW x \in INodes, Named(m, x) PROVE Unseen(m)
    <2>1. Named(m, x)'
      BY <1>3
    <2>2. SizeOf(m)' = SizeOf(m)
      BY <1>1, <1>3, <2>1 DEF ViewOf
    <2>3. PositionOf(m)' = PositionOf(m)
      <3>1. ASSUME NEW f \in Entries, Opens(f, x) PROVE PositionOf(m)' = PositionOf(m)
        <4>1. Opens(f, x)' /\ fdt'[f].read_write_ptr = fdt[f].read_write_ptr
          BY <1>3, <3>1
        <4> QED BY <1>1, <1>3, <2>1, <3>1, <4>1 DEF ViewOf
      <3>2. CASE \A f \in Entries : ~ Opens(f, x)
        <4>1. \A f \in Entries : ~ Opens(f, x)'
          BY <1>3, <3>2
        <4> QED BY <1>1, <1>3, <2>1, <3>2, <4>1 DEF ViewOf
      <3> QED BY <3>1, <3>2
    <2> QED BY <2>2, <2>3 DEF Unseen
  <1> QED BY <1>2, <1>3

(* The caller sees the result, except for the number of a descriptor.       *)
LEMMA ResultSeen ==
    ASSUME NEW call, NEW value, ret' = Result(call, value)
    PROVE  /\ Visible(ret)'.call = call
           /\ call # "sfs_fopen" => Visible(ret)'.value = value
           /\ call = "sfs_fopen" /\ value # None => Visible(ret)'.value = 0
           /\ call = "sfs_fopen" /\ value = None => Visible(ret)'.value = -1
  BY DEF Result, Visible, None

(* Only one file changes, or none.                                          *)
OnlySeen(n) == \A m \in Names \ {n} : Unseen(m)

LEMMA OneSeen ==
    ASSUME NEW n \in Names, OnlySeen(n)
    PROVE  /\ [m \in Names |-> SizeOf(m)]' = [[m \in Names |-> SizeOf(m)] EXCEPT ![n] = SizeOf(n)']
           /\ [m \in Names |-> PositionOf(m)]' =
                  [[m \in Names |-> PositionOf(m)] EXCEPT ![n] = PositionOf(n)']
  BY DEF OnlySeen, Unseen

LEMMA NoneSeen ==
    ASSUME \A m \in Names : Unseen(m)
    PROVE  /\ [m \in Names |-> SizeOf(m)]' = [m \in Names |-> SizeOf(m)]
           /\ [m \in Names |-> PositionOf(m)]' = [m \in Names |-> PositionOf(m)]
  BY DEF Unseen

-----------------------------------------------------------------------------
(* Calls that change no file and no descriptor.                             *)
LEMMA NextNameRefines ==
    ASSUME SfsInv, sfs_getnextfilename
    PROVE  F!FilesNext
  <1>1. /\ [m \in Names |-> SizeOf(m)]' = [m \in Names |-> SizeOf(m)]
        /\ [m \in Names |-> PositionOf(m)]' = [m \in Names |-> PositionOf(m)]
    <2>1. UNCHANGED <<fdt, tables>>
      BY DEF sfs_getnextfilename
    <2> QED BY <2>1, SameView, NoneSeen
  <1> DEFINE v == IF NextFile = None THEN 0 ELSE root_dir_table[NextFile].file_name
  <1>2. ret' = Result("sfs_getnextfilename", v)
    BY DEF sfs_getnextfilename
  <1>3. v = 0 \/ (v \in Names /\ does_file_exist(v))
    <2> DEFINE S == {i \in Entries : /\ i >= curr_file_index
                                     /\ does_file_exist(root_dir_table[i].file_name)}
    <2>1. S \subseteq Nat /\ NextFile = First(S)
      BY Indices DEF NextFile
    <2>2. NextFile = None \/ NextFile \in S
      <3> HIDE DEF S
      <3> QED BY <2>1, FirstIs
    <2>3. \A n : does_file_exist(n) => n \in Names
      BY InvParts DEF Directory, does_file_exist, Occupied
    <2> QED BY <2>2, <2>3
  <1> HIDE DEF v
  <1>4. v = 0 \/ (v \in Names /\ SizeOf(v) >= 0)
    <2>1. ASSUME v \in Names, does_file_exist(v) PROVE SizeOf(v) >= 0
      <3>1. ViewOf(v)
        BY <2>1, ViewsHold DEF Views
      <3>2. SizeOf(v) \in Nat
        BY <2>1, <3>1 DEF ViewOf
      <3> QED BY <3>2
    <2> QED BY <1>3, <2>1
  <1>5. Visible(ret)'.call = "sfs_getnextfilename" /\ Visible(ret)'.value = v
    BY <1>2, ResultSeen
  <1>6. F!List
    BY <1>1, <1>4, <1>5 DEF F!List, F!Returns, F!exists
  <1> QED BY <1>6 DEF F!FilesNext

LEMMA QueriesRefine ==
    ASSUME SfsInv, NEW name \in Names,
           sfs_getfilesize(name) \/ RemoveMissing(name)
    PROVE  F!FilesNext
  <1>1. /\ [m \in Names |-> SizeOf(m)]' = [m \in Names |-> SizeOf(m)]
        /\ [m \in Names |-> PositionOf(m)]' = [m \in Names |-> PositionOf(m)]
    <2>1. UNCHANGED <<fdt, tables>>
      BY DEF sfs_getfilesize, RemoveMissing, others
    <2> QED BY <2>1, SameView, NoneSeen
  <1>2. ViewOf(name)
    BY ViewsHold DEF Views
  <1>3. CASE sfs_getfilesize(name)
    <2>1. ret' = Result("sfs_getfilesize", SizeOf(name))
      BY <1>3 DEF sfs_getfilesize, SizeOf
    <2>2. Visible(ret)'.call = "sfs_getfilesize" /\ Visible(ret)'.value = SizeOf(name)
      BY <2>1, ResultSeen
    <2>3. F!GetSize(name)
      BY <1>1, <2>2 DEF F!GetSize, F!Returns
    <2> QED BY <2>3 DEF F!FilesNext
  <1>4. CASE RemoveMissing(name)
    <2>1. ret' = Result("sfs_remove", -1) /\ ~ does_file_exist(name)
      BY <1>4 DEF RemoveMissing
    <2>2. Visible(ret)'.call = "sfs_remove" /\ Visible(ret)'.value = -1
      BY <2>1, ResultSeen
    <2>3. SizeOf(name) = -1 /\ PositionOf(name) = -1
      BY <1>2, <2>1 DEF ViewOf
    <2>4. /\ [[m \in Names |-> SizeOf(m)] EXCEPT ![name] = -1] = [m \in Names |-> SizeOf(m)]
          /\ [[m \in Names |-> PositionOf(m)] EXCEPT ![name] = -1] = [m \in Names |-> PositionOf(m)]
      BY <2>3
    <2>5. ~ F!exists(name)
      BY <2>3 DEF F!exists
    <2>6. F!Remove(name)
      BY <1>1, <2>2, <2>4, <2>5 DEF F!Remove, F!Returns
    <2> QED BY <2>6 DEF F!FilesNext
  <1> QED BY <1>3, <1>4

-----------------------------------------------------------------------------
(* mksfs(1) leaves no file, mksfs(0) all of them, and none is open.         *)
LEMMA FormatRefines ==
    ASSUME SfsInv, "FormatFull" \notin Habits, Format
    PROVE  F!Reformat
  <1>1. SfsInv' /\ Occupied' = {} /\ \A f \in Entries : ~ fdt'[f].occupied
    BY FormatInv
  <1>2. Views'
    BY <1>1, ViewsStay
  <1>3. ASSUME NEW m \in Names PROVE SizeOf(m)' = -1 /\ PositionOf(m)' = -1
    <2>1. ViewOf(m)'
      BY <1>2 DEF Views
    <2>2. \A x \in INodes : ~ Named(m, x)'
      BY <1>1 DEF Named
    <2> QED BY <2>1, <2>2 DEF ViewOf
  <1>4. ret' = Result("mksfs", 1)
    BY DEF Format
  <1>5. Visible(ret)'.call = "mksfs" /\ Visible(ret)'.value = 1
    BY <1>4, ResultSeen
  <1> QED BY <1>3, <1>5 DEF F!Reformat, F!Returns

LEMMA LoadRefines ==
    ASSUME SfsInv, EveryFileSaved, Restart \/ Remount
    PROVE  F!Reopen
  <1>1. /\ SfsInv' /\ UNCHANGED i_node_table
        /\ \A i \in Occupied' : i \in Occupied /\ root_dir_table'[i] = root_dir_table[i]
        /\ \A f \in Entries : ~ fdt'[f].occupied
        /\ \A i \in 0 .. SavedEntries - 1 : root_dir_table'[i] = disk.root[i]
        /\ ret' = Result("mksfs", 0)
    BY MountInv
  <1>2. ASSUME NEW i \in Occupied PROVE i \in Occupied' /\ root_dir_table'[i] = root_dir_table[i]
    <2>1. i \in Entries /\ i \in DOMAIN disk.root /\ disk.root[i] = root_dir_table[i]
      BY DEF EveryFileSaved, Occupied
    <2>2. i \in 0 .. SavedEntries - 1
      BY <2>1 DEF SfsInv, TypeOK
    <2> QED BY <1>1, <2>1, <2>2 DEF Occupied
  <1>3. Views /\ Views'
    BY <1>1, ViewsHold, ViewsStay
  <1>4. ASSUME NEW m \in Names PROVE SizeOf(m)' = SizeOf(m) /\ PositionOf(m)' = -1
    <2>1. ViewOf(m) /\ ViewOf(m)'
      BY <1>3 DEF Views
    <2>2. \A x \in INodes : Named(m, x)' <=> Named(m, x)
      BY <1>1, <1>2 DEF Named
    <2>3. \A x \in INodes : \A f \in Entries : ~ Opens(f, x)'
      BY <1>1 DEF Opens
    <2>4. CASE \A x \in INodes : ~ Named(m, x)
      BY <2>1, <2>2, <2>4 DEF ViewOf
    <2>5. ASSUME NEW x \in INodes, Named(m, x) PROVE SizeOf(m)' = SizeOf(m) /\ PositionOf(m)' = -1
      BY <1>1, <2>1, <2>2, <2>3, <2>5 DEF ViewOf
    <2> QED BY <2>4, <2>5
  <1>5. Visible(ret)'.call = "mksfs" /\ Visible(ret)'.value = 0
    BY <1>1, ResultSeen
  <1> QED BY <1>4, <1>5 DEF F!Reopen, F!Returns

-----------------------------------------------------------------------------
(* A call that changes one file at most: what is left to show about it.     *)
Shows(n, call, value) ==
    /\ OnlySeen(n)
    /\ Visible(ret)'.call = call /\ Visible(ret)'.value = value

(* sfs_fopen opens the file at its end, and creates it if there is none.    *)
LEMMA OpenSeen ==
    ASSUME NEW n \in Names, Shows(n, "sfs_fopen", 0),
           \/ PositionOf(n) \in Nat /\ Unseen(n)
           \/ /\ PositionOf(n) = -1 /\ SizeOf(n)' \in Nat
              /\ \/ SizeOf(n) \in Nat /\ SizeOf(n)' = SizeOf(n)
                 \/ SizeOf(n) = -1 /\ SizeOf(n)' = 0
              /\ PositionOf(n)' = SizeOf(n)'
    PROVE  n \notin LongNames => F!Open(n)
  <1> SUFFICES ASSUME n \notin LongNames PROVE F!Open(n)
    OBVIOUS
  <1> DEFINE size == [m \in Names |-> SizeOf(m)]
             position == [m \in Names |-> PositionOf(m)]
  <1>1. /\ size' = [size EXCEPT ![n] = SizeOf(n)']
        /\ position' = [position EXCEPT ![n] = PositionOf(n)']
    BY OneSeen DEF Shows
  <1>2. size[n] = SizeOf(n) /\ position[n] = PositionOf(n) /\ size'[n] = SizeOf(n)'
    OBVIOUS
  <1>3. F!Returns("sfs_fopen", 0)
    BY DEF Shows, F!Returns
  <1>4. CASE PositionOf(n) \in Nat /\ Unseen(n)
    <2>1. UNCHANGED <<size, position>>
      BY <1>1, <1>2, <1>4 DEF Unseen
    <2>2. F!isOpen(n)
      BY <1>4 DEF F!isOpen
    <2> QED BY <1>3, <2>1, <2>2 DEF F!Open
  <1>5. CASE /\ PositionOf(n) = -1 /\ SizeOf(n)' \in Nat
             /\ \/ SizeOf(n) \in Nat /\ SizeOf(n)' = SizeOf(n)
                \/ SizeOf(n) = -1 /\ SizeOf(n)' = 0
             /\ PositionOf(n)' = SizeOf(n)'
    <2>1. ~ F!isOpen(n)
      BY <1>5 DEF F!isOpen
    <2>2. SizeOf(n)' = IF F!exists(n) THEN size[n] ELSE 0
      BY <1>5 DEF F!exists
    <2>3. size' = [size EXCEPT ![n] = IF F!exists(n) THEN @ ELSE 0]
      BY <1>1, <2>2
    <2>4. position' = [position EXCEPT ![n] = size'[n]]
      BY <1>1, <1>2, <1>5
    <2> QED BY <1>3, <2>1, <2>3, <2>4 DEF F!Open
  <1> QED BY <1>4, <1>5

LEMMA NamesApart ==
    ASSUME SfsInv, NEW m, NEW n, NEW x, Named(m, x), Named(n, x)
    PROVE  m = n
  BY DEF SfsInv, Directory, Named

LEMMA DescriptorOpened ==
    ASSUME SfsInv, NEW x \in INodes, NEW position \in Nat,
           fdt_get_the_first_free_block # None, fdt' = Opened(x, position)
    PROVE  /\ \E f \in Entries : Opens(f, x)' /\ fdt'[f].read_write_ptr = position
           /\ \A y \in INodes \ {x} : \A f \in Entries :
                 /\ Opens(f, y)' <=> Opens(f, y)
                 /\ Opens(f, y) => fdt'[f].read_write_ptr = fdt[f].read_write_ptr
  <1> DEFINE h == fdt_get_the_first_free_block
             d == [i_node_ptr |-> x, read_write_ptr |-> position, occupied |-> TRUE]
  <1>1. h \in Entries /\ ~ fdt[h].occupied /\ fdt \in [Entries -> Descriptor]
    BY FreeFound, InvParts DEF OthersOK
  <1>2. \A f \in Entries : fdt'[f] = IF f = h THEN d ELSE fdt[f]
    BY <1>1 DEF Opened
  <1>3. d.occupied /\ d.i_node_ptr = x /\ d.read_write_ptr = position
    OBVIOUS
  <1> HIDE DEF h, d
  <1> QED BY <1>1, <1>2, <1>3 DEF Opens

LEMMA OpensRefine ==
    ASSUME SfsInv, NEW name \in Names \ LongNames, Careful \/ OpenFd(name) = None,
           FopenAgain(name) \/ FopenExisting(name)
    PROVE  F!Open(name)
  <1> DEFINE h == fdt_get_the_first_free_block
  <1>1. Views /\ ViewOf(name)
    BY ViewsHold DEF Views
  <1>2. CASE FopenAgain(name)
    <2>1. UNCHANGED <<fdt, tables>> /\ ret' = Result("sfs_fopen", OpenFd(name))
          /\ OpenFd(name) # None
      BY <1>2 DEF FopenAgain, others
    <2>2. \A m \in Names : Unseen(m)
      BY <2>1, SameView
    <2>3. PositionOf(name) \in Nat
      BY <1>1, <2>1 DEF ViewOf
    <2>4. Shows(name, "sfs_fopen", 0)
      BY <2>1, <2>2, ResultSeen DEF Shows, OnlySeen
    <2> QED BY <2>2, <2>3, <2>4, OpenSeen
  <1>3. CASE FopenExisting(name)
    <2>1. /\ does_file_exist(name) /\ OpenFd(name) = None /\ h # None
          /\ fdt' = Opened(INodeOf(name), end_of_file(name))
          /\ ret' = Result("sfs_fopen", h) /\ UNCHANGED tables
      BY <1>3 DEF FopenExisting, CanOpen, OpenPosition, others
    <2>2. SfsInv' /\ Views'
      BY <1>3, FopenExistingInv, ViewsStay
    <2>3. PICK x \in INodes : Named(name, x) /\ x = INodeOf(name)
      BY <1>1, <2>1 DEF ViewOf
    <2>4. /\ SizeOf(name) = end_of_file(name) /\ SizeOf(name) \in Nat
          /\ SizeOf(name) = i_node_table[x].size
          /\ PositionOf(name) = -1 /\ \A f \in Entries : ~ Opens(f, x)
      <3>1. SizeOf(name) = end_of_file(name)
        BY <2>1 DEF SizeOf
      <3>2. \A f \in Entries : ~ Opens(f, x)
        BY <1>1, <2>1, <2>3, Indices DEF ViewOf
      <3> QED BY <1>1, <2>3, <3>1, <3>2 DEF ViewOf
    <2>5. /\ \E f \in Entries : Opens(f, x)' /\ fdt'[f].read_write_ptr = SizeOf(name)
          /\ \A y \in INodes \ {x} : \A f \in Entries :
                /\ Opens(f, y)' <=> Opens(f, y)
                /\ Opens(f, y) => fdt'[f].read_write_ptr = fdt[f].read_write_ptr
      <3>1. fdt' = Opened(x, SizeOf(name))
        BY <2>1, <2>3, <2>4
      <3>2. PICK p \in Nat : p = SizeOf(name)
        BY <2>4
      <3> QED BY <2>1, <3>1, <3>2, DescriptorOpened
    <2>6. \A m \in Names : \A y \in INodes : Named(m, y)' <=> Named(m, y)
      BY <2>1 DEF Named, Occupied, tables
    <2>7. i_node_table' = i_node_table
      BY <2>1 DEF tables
    <2>8. ASSUME NEW m \in Names \ {name} PROVE Unseen(m)
      <3>1. \A y \in INodes : Named(m, y) => y # x
        BY <2>3, NamesApart
      <3> QED BY <1>1, <2>2, <2>5, <2>6, <2>7, <3>1, FileUnseen
    <2>9. SizeOf(name)' = SizeOf(name) /\ PositionOf(name)' = SizeOf(name)'
      <3>1. ViewOf(name)' /\ Named(name, x)'
        BY <2>2, <2>3, <2>6 DEF Views
      <3> QED BY <2>3, <2>4, <2>5, <2>7, <3>1 DEF ViewOf
    <2>10. Shows(name, "sfs_fopen", 0)
      BY <2>1, <2>8, ResultSeen DEF Shows, OnlySeen
    <2> QED BY <2>4, <2>9, <2>10, OpenSeen
  <1> QED BY <1>2, <1>3

LEMMA CreateRefines ==
    ASSUME SfsInv, NEW name \in Names, FopenCreate(name)
    PROVE  F!Open(name)
  <1> DEFINE h == fdt_get_the_first_free_block
  <1>0. PICK x : x = get_the_first_free_i_node
    OBVIOUS
  <1>01. PICK r : r = get_the_first_free_root_directory
    OBVIOUS
  <1> DEFINE e == [file_name |-> name, i_node_ptr |-> x, occupied |-> TRUE]
  <1>1. Views /\ ViewOf(name) /\ root_dir_table \in [Entries -> RootEntry]
    BY ViewsHold, InvParts DEF Views, TablesOK
  <1>2. /\ ~ does_file_exist(name) /\ r # None /\ h # None
        /\ root_dir_table' = [root_dir_table EXCEPT ![r] = e]
        /\ fdt' = Opened(x, 0) /\ ret' = Result("sfs_fopen", h)
    BY <1>0, <1>01 DEF FopenCreate, CanCreate, CanOpen, CreatedEntry
  <1>3. SfsInv' /\ CreateDone(name, x) /\ Views'
    BY <1>0, FopenCreateInv, ViewsStay
  <1>4. x \in INodes /\ x \notin FileNodes /\ i_node_table'[x].size = 0
    BY <1>3, EmptyTables DEF CreateDone
  <1>5. r \in Entries /\ r \notin Occupied
    BY <1>01, <1>2, FreeFound DEF Occupied
  <1>6. e.file_name = name /\ e.i_node_ptr = x /\ e.occupied
    OBVIOUS
  <1> HIDE DEF e
  <1>7. \A i \in Entries : root_dir_table'[i] = IF i = r THEN e ELSE root_dir_table[i]
    BY <1>1, <1>2, <1>5
  <1>8. Named(name, x)'
    <2>1. r \in Occupied' /\ root_dir_table'[r] = e
      BY <1>5, <1>6, <1>7 DEF Occupied
    <2> QED BY <1>6, <2>1 DEF Named
  <1>9. \A m \in Names \ {name} : \A y \in INodes : Named(m, y)' <=> Named(m, y)
    BY <1>5, <1>6, <1>7 DEF Named, Occupied
  <1>10. /\ \E f \in Entries : Opens(f, x)' /\ fdt'[f].read_write_ptr = 0
         /\ \A y \in INodes \ {x} : \A f \in Entries :
               /\ Opens(f, y)' <=> Opens(f, y)
               /\ Opens(f, y) => fdt'[f].read_write_ptr = fdt[f].read_write_ptr
    BY <1>2, <1>4, DescriptorOpened
  <1>11. ASSUME NEW m \in Names \ {name} PROVE Unseen(m)
    <2>1. ASSUME NEW y \in INodes, Named(m, y)
          PROVE  y \in FileNodes /\ y # x /\ i_node_table'[y] = i_node_table[y]
      BY <1>3, <1>4, <2>1 DEF Named, FileNodes, CreateDone
    <2> QED BY <1>1, <1>3, <1>9, <1>10, <2>1, FileUnseen
  <1>12. SizeOf(name)' = 0 /\ PositionOf(name)' = 0
    <2>1. ViewOf(name)'
      BY <1>3 DEF Views
    <2> QED BY <1>4, <1>8, <1>10, <2>1 DEF ViewOf
  <1>13. SizeOf(name) = -1 /\ PositionOf(name) = -1
    BY <1>1, <1>2 DEF ViewOf
  <1>14. Shows(name, "sfs_fopen", 0)
    BY <1>2, <1>11, ResultSeen DEF Shows, OnlySeen
  <1>15. name \notin LongNames
    BY DEF FopenCreate, CanOpen, CanCreate
  <1> QED BY <1>12, <1>13, <1>14, <1>15, OpenSeen

-----------------------------------------------------------------------------
(* Calls with a descriptor: the file it stands for, and the others.         *)
Stands(f, n, x) ==
    /\ x = fdt[f].i_node_ptr /\ Named(n, x) /\ Opens(f, x)
    /\ PositionOf(n) = fdt[f].read_write_ptr /\ (Careful => PositionOf(n) \in Nat)
    /\ SizeOf(n) = i_node_table[x].size /\ SizeOf(n) \in Nat

LEMMA DescriptorStands ==
    ASSUME SfsInv, NEW f \in Entries, fdt[f].occupied
    PROVE  \E n \in Names, x \in INodes : Stands(f, n, x)
  <1>1. Directory /\ OpenFiles
    BY DEF SfsInv
  <1>2. PICK x : x = fdt[f].i_node_ptr
    OBVIOUS
  <1>3. PICK i \in Occupied : root_dir_table[i].i_node_ptr = x
    BY <1>1, <1>2 DEF OpenFiles, FileNodes
  <1>4. PICK n : n = root_dir_table[i].file_name
    OBVIOUS
  <1>5. n \in Names /\ x \in INodes
    BY <1>1, <1>3, <1>4 DEF Directory
  <1>6. Named(n, x) /\ Opens(f, x)
    BY <1>2, <1>3, <1>4 DEF Named, Opens
  <1>7. ViewOf(n)
    BY <1>5, ViewsHold DEF Views
  <1> QED BY <1>2, <1>5, <1>6, <1>7 DEF ViewOf, Stands

LEMMA OthersUnseen ==
    ASSUME SfsInv, SfsInv', NEW n \in Names, NEW x \in INodes, Named(n, x),
           root_dir_table' = root_dir_table,
           \A y \in FileNodes \ {x} : i_node_table'[y].size = i_node_table[y].size,
           \A y \in INodes \ {x} : \A g \in Entries :
               /\ Opens(g, y)' <=> Opens(g, y)
               /\ Opens(g, y) => fdt'[g].read_write_ptr = fdt[g].read_write_ptr
    PROVE  OnlySeen(n) /\ Views /\ Views' /\ Named(n, x)'
  <1>1. Views /\ Views'
    BY ViewsHold, ViewsStay
  <1>2. \A m \in Names : \A y \in INodes : Named(m, y)' <=> Named(m, y)
    BY DEF Named, Occupied
  <1>3. ASSUME NEW m \in Names \ {n} PROVE Unseen(m)
    <2>1. ASSUME NEW y \in INodes, Named(m, y) PROVE y # x /\ y \in FileNodes
      BY <2>1, NamesApart DEF Named, FileNodes
    <2> QED BY <1>1, <1>2, <2>1, FileUnseen
  <1> QED BY <1>1, <1>2, <1>3 DEF OnlySeen

(* The descriptor's file afterwards.                                        *)
LEMMA StillStands ==
    ASSUME Views', NEW f \in Entries, NEW n \in Names, NEW x \in INodes, Named(n, x)'
    PROVE  /\ SizeOf(n)' = i_node_table'[x].size
           /\ Opens(f, x)' => PositionOf(n)' = fdt'[f].read_write_ptr
           /\ (\A g \in Entries : ~ Opens(g, x)') => PositionOf(n)' = -1
  <1>1. ViewOf(n)'
    BY DEF Views
  <1> QED BY <1>1 DEF ViewOf

LEMMA RefusedSeen ==
    ASSUME UNCHANGED <<fdt, others>>,
           NEW call \in {"sfs_fclose", "sfs_fwrite", "sfs_fread", "sfs_fseek"},
           ret' = Result(call, -1)
    PROVE  F!FilesNext
  <1>1. UNCHANGED <<fdt, tables>>
    BY DEF others
  <1>2. \A m \in Names : Unseen(m)
    BY <1>1, SameView
  <1>3. Visible(ret)'.call = call /\ Visible(ret)'.value = -1
    BY ResultSeen
  <1>4. F!Refused
    BY <1>2, <1>3, NoneSeen DEF F!Refused, F!Returns
  <1> QED BY <1>4 DEF F!FilesNext

LEMMA CloseRefines ==
    ASSUME SfsInv, Careful, NEW f \in Entries, sfs_fclose(f)
    PROVE  F!FilesNext
  <1>1. CASE ~ fdt[f].occupied
    <2>1. ret' = Result("sfs_fclose", -1) /\ UNCHANGED <<fdt, others>>
      BY <1>1 DEF sfs_fclose
    <2> QED BY <2>1, RefusedSeen
  <1>2. CASE fdt[f].occupied
    <2>1. PICK n \in Names, x \in INodes : Stands(f, n, x)
      BY <1>2, DescriptorStands
    <2>2. /\ fdt' = [fdt EXCEPT ![f] = Closed] /\ UNCHANGED others
          /\ ret' = Result("sfs_fclose", 0)
          /\ fdt \in [Entries -> Descriptor]
      BY <1>2, InvParts DEF sfs_fclose, OthersOK
    <2>3. \A g \in Entries : fdt'[g] = IF g = f THEN Closed ELSE fdt[g]
      BY <2>2
    <2>4. /\ \A g \in Entries : g # f => ~ Opens(g, x)
          /\ \A g \in Entries : \A y \in INodes \ {x} :
                 /\ Opens(g, y)' <=> Opens(g, y)
                 /\ Opens(g, y) => fdt'[g].read_write_ptr = fdt[g].read_write_ptr
          /\ \A g \in Entries : ~ Opens(g, x)'
      <3>1. \A g \in Entries : g # f => ~ Opens(g, x)
        BY <1>2, <2>1 DEF Stands, Opens, SfsInv, OpenFiles
      <3>2. ~ Closed.occupied
        BY EmptyTables
      <3> QED BY <2>1, <2>3, <3>1, <3>2 DEF Opens, Stands
    <2>5. SfsInv' /\ root_dir_table' = root_dir_table /\ i_node_table' = i_node_table
      BY <2>2, FcloseInv DEF others, tables
    <2>6. OnlySeen(n) /\ Views' /\ Named(n, x)'
      BY <2>1, <2>4, <2>5, OthersUnseen DEF Stands
    <2>7. SizeOf(n)' = SizeOf(n) /\ PositionOf(n)' = -1
      BY <2>1, <2>4, <2>5, <2>6, StillStands DEF Stands
    <2>8. Visible(ret)'.call = "sfs_fclose" /\ Visible(ret)'.value = 0
      BY <2>2, ResultSeen
    <2>9. F!isOpen(n)
      BY <2>1 DEF F!isOpen, Stands
    <2>10. F!Close(n)
      BY <2>6, <2>7, <2>8, <2>9, OneSeen DEF F!Close, F!Returns
    <2> QED BY <2>10 DEF F!FilesNext
  <1> QED BY <1>1, <1>2

LEMMA SeekRefines ==
    ASSUME SfsInv, Careful, Habits = {}, NEW f \in Entries, NEW loc \in Seeks, sfs_fseek(f, loc)
    PROVE  F!FilesNext
  <1>1. CASE ~ fdt[f].occupied
    <2>1. ret' = Result("sfs_fseek", -1) /\ UNCHANGED <<fdt, others>>
      BY <1>1 DEF sfs_fseek
    <2> QED BY <2>1, RefusedSeen
  <1>2. CASE fdt[f].occupied
    <2>1. PICK n \in Names, x \in INodes : Stands(f, n, x)
      BY <1>2, DescriptorStands
    <2>2. /\ fdt' = [fdt EXCEPT ![f].read_write_ptr = loc] /\ UNCHANGED others
          /\ ret' = Result("sfs_fseek", 0)
          /\ fdt \in [Entries -> Descriptor]
          /\ loc \in 0 .. i_node_table[x].size
      BY <1>2, <2>1, InvParts, SfsAssumption DEF sfs_fseek, OthersOK, Stands
    <2>3. \A g \in Entries : /\ fdt'[g].occupied = fdt[g].occupied
                             /\ fdt'[g].i_node_ptr = fdt[g].i_node_ptr
                             /\ fdt'[g].read_write_ptr = IF g = f THEN loc ELSE fdt[g].read_write_ptr
      BY <2>2 DEF Descriptor
    <2>4. /\ \A y \in INodes \ {x} : \A g \in Entries :
                 /\ Opens(g, y)' <=> Opens(g, y)
                 /\ Opens(g, y) => fdt'[g].read_write_ptr = fdt[g].read_write_ptr
          /\ Opens(f, x)'
      BY <2>1, <2>3 DEF Opens, Stands
    <2>5. SfsInv' /\ root_dir_table' = root_dir_table /\ i_node_table' = i_node_table
      BY <2>2, FseekInv DEF others, tables
    <2>6. OnlySeen(n) /\ Views' /\ Named(n, x)'
      BY <2>1, <2>4, <2>5, OthersUnseen DEF Stands
    <2>7. SizeOf(n)' = SizeOf(n) /\ PositionOf(n)' = loc
      BY <2>1, <2>3, <2>4, <2>5, <2>6, StillStands DEF Stands
    <2>8. Visible(ret)'.call = "sfs_fseek" /\ Visible(ret)'.value = 0
      BY <2>2, ResultSeen
    <2>9. F!isOpen(n) /\ loc \in 0 .. SizeOf(n)
      BY <2>1, <2>2 DEF F!isOpen, Stands
    <2>10. F!Seek(n)
      BY <2>6, <2>7, <2>8, <2>9, OneSeen DEF F!Seek, F!Returns
    <2> QED BY <2>10 DEF F!FilesNext
  <1> QED BY <1>1, <1>2

-----------------------------------------------------------------------------
(* Reads and writes of a careful client, whose recursion ended in s.        *)
Ends(f, length, s) ==
    LET a == Start(f, length) IN
    Keeps(a, OtherBlocks(fdt[f].i_node_ptr), s) /\ Inside(a, s)

Moves(n, length, s) ==
    /\ SizeOf(n)' = Larger(SizeOf(n), s.ptr) /\ PositionOf(n)' = s.ptr
    /\ s.left \in Nat /\ s.ptr \in Nat
    /\ s.ptr + s.left = PositionOf(n) + length /\ PositionOf(n) <= s.ptr

LEMMA TransferSeen ==
    ASSUME SfsInv, NEW f \in Entries, fdt[f].occupied, NEW length \in Nat,
           NEW call, call # "sfs_fopen", NEW s,
           Ends(f, length, s), Transfer(call, f, length, s),
           NEW n \in Names, NEW x \in INodes, Stands(f, n, x)
    PROVE  Shows(n, call, length - s.left) /\ Moves(n, length, s)
  <1> DEFINE a == Start(f, length)
  <1>1. /\ Keeps(a, OtherBlocks(fdt[f].i_node_ptr), s) /\ Inside(a, s)
        /\ x = fdt[f].i_node_ptr
    BY DEF Ends, Stands
  <1>2. a.ptr = PositionOf(n) /\ a.left = length /\ a.node.size = SizeOf(n)
    BY <1>1 DEF Start, Stands
  <1>3. s.block # Garbage
    BY <1>1 DEF Inside
  <1>4. SfsInv' /\ TransferDone(f, x, s)
    BY <1>1, <1>3, TransferInv
  <1>5. ret' = Result(call, length - s.left)
    BY <1>3 DEF Transfer
  <1> HIDE DEF a
  <1>6. /\ s.left \in Nat /\ s.ptr \in Nat
        /\ s.ptr + s.left = PositionOf(n) + length /\ PositionOf(n) <= s.ptr
        /\ s.node.size = Larger(SizeOf(n), s.ptr)
    BY <1>1, <1>2 DEF Keeps, Ready, Transfers, Inside
  <1>7. /\ \A y \in INodes \ {x} : \A g \in Entries :
              /\ Opens(g, y)' <=> Opens(g, y)
              /\ Opens(g, y) => fdt'[g].read_write_ptr = fdt[g].read_write_ptr
        /\ Opens(f, x)' /\ fdt'[f].read_write_ptr = s.ptr
    BY <1>1, <1>4 DEF TransferDone, Opens
  <1>8. /\ \A y \in FileNodes \ {x} : i_node_table'[y].size = i_node_table[y].size
        /\ i_node_table'[x].size = s.node.size /\ root_dir_table' = root_dir_table
    BY <1>4 DEF TransferDone
  <1>9. OnlySeen(n) /\ Views' /\ Named(n, x)'
    BY <1>4, <1>7, <1>8, OthersUnseen DEF Stands
  <1>10. SizeOf(n)' = s.node.size /\ PositionOf(n)' = s.ptr
    BY <1>7, <1>8, <1>9, StillStands
  <1>11. Visible(ret)'.call = call /\ Visible(ret)'.value = length - s.left
    BY <1>5, ResultSeen
  <1> QED BY <1>6, <1>9, <1>10, <1>11 DEF Shows, Moves

LEMMA WriteRefines ==
    ASSUME SfsInv, Careful, NEW f \in Entries, NEW length \in Lengths, sfs_fwrite(f, length)
    PROVE  F!FilesNext
  <1> DEFINE s == sfs_fwrite_recursive(f, length)
             a == Start(f, length)
  <1>1. Transfer("sfs_fwrite", f, length, s) /\ length \in Nat /\ disk_ready
    BY InvParts, SfsAssumption DEF sfs_fwrite, DiskOK
  <1>2. CASE ~ fdt[f].occupied
    <2>1. ret' = Result("sfs_fwrite", -1) /\ UNCHANGED <<fdt, others>>
      BY <1>1, <1>2 DEF Transfer
    <2> QED BY <2>1, RefusedSeen
  <1>3. CASE fdt[f].occupied
    <2>1. PICK n \in Names, x \in INodes : Stands(f, n, x)
      BY <1>3, DescriptorStands
    <2>2. /\ Keeps(a, OtherBlocks(fdt[f].i_node_ptr), a) /\ Inside(a, a)
          /\ free_bitmap \cap OtherBlocks(fdt[f].i_node_ptr) = {}
      BY <1>1, <1>3, StartKeeps, StartInside
    <2>3. Ends(f, length, s)
      BY <1>1, <2>2, WriteKeeps DEF Ends
    <2> HIDE DEF s
    <2>4. Shows(n, "sfs_fwrite", length - s.left) /\ Moves(n, length, s)
      BY <1>1, <1>3, <2>1, <2>3, TransferSeen
    <2>5. PICK written : written = length - s.left
      OBVIOUS
    <2>6. SizeOf(n) \in Nat /\ PositionOf(n) \in Nat
      BY <1>1, <2>1 DEF Stands
    <2>7. /\ written \in 0 .. length /\ PositionOf(n)' = PositionOf(n) + written
          /\ SizeOf(n)' = IF SizeOf(n) > PositionOf(n)' THEN SizeOf(n) ELSE PositionOf(n)'
      BY <1>1, <2>4, <2>5, <2>6 DEF Moves, Larger
    <2>8. F!Returns("sfs_fwrite", written) /\ F!isOpen(n)
      BY <2>4, <2>5, <2>6 DEF Shows, F!Returns, F!isOpen
    <2>9. F!Write(n, length)
      BY <2>4, <2>7, <2>8, OneSeen DEF F!Write, Shows
    <2> QED BY <2>9 DEF F!FilesNext
  <1> QED BY <1>2, <1>3

LEMMA ReadRefines ==
    ASSUME SfsInv, Careful, NEW f \in Entries, NEW length \in Lengths, sfs_fread(f, length)
    PROVE  F!FilesNext
  <1> DEFINE s == sfs_fread_recursive(f, length)
             a == Start(f, length)
  <1>1. Transfer("sfs_fread", f, length, s) /\ length \in Nat /\ disk_ready
    BY InvParts, SfsAssumption DEF sfs_fread, DiskOK
  <1>2. CASE ~ fdt[f].occupied
    <2>1. ret' = Result("sfs_fread", -1) /\ UNCHANGED <<fdt, others>>
      BY <1>1, <1>2 DEF Transfer
    <2> QED BY <2>1, RefusedSeen
  <1>3. CASE fdt[f].occupied
    <2>1. PICK n \in Names, x \in INodes : Stands(f, n, x)
      BY <1>3, DescriptorStands
    <2>2. /\ Keeps(a, OtherBlocks(fdt[f].i_node_ptr), a) /\ Inside(a, a)
          /\ a \in Transfers
      BY <1>1, <1>3, StartKeeps, StartInside
    <2>3. a.node.size \in Nat
      BY <2>2 DEF Keeps
    <2>4. ReadsOnly(a, s) /\ Inside(a, s) /\ (s.left = 0 \/ s.ptr = s.node.size)
      BY <1>1, <2>2, <2>3, ReadKeeps, ReadDone
    <2>5. a.node.size = SizeOf(n)
      BY <2>1 DEF Start, Stands
    <2> HIDE DEF s, a
    <2>6. Keeps(a, OtherBlocks(fdt[f].i_node_ptr), s)
      BY <2>2, <2>4 DEF Keeps, Ready, ReadsOnly, PtrOf
    <2>7. Ends(f, length, s)
      BY <2>4, <2>6 DEF Ends, a
    <2>8. Shows(n, "sfs_fread", length - s.left) /\ Moves(n, length, s)
      BY <1>1, <1>3, <2>1, <2>7, TransferSeen
    <2>9. PICK done : done = length - s.left
      OBVIOUS
    <2>10. SizeOf(n) \in Nat /\ PositionOf(n) \in Nat
      BY <1>1, <2>1 DEF Stands
    <2>11. s.ptr <= SizeOf(n) /\ (s.left = 0 \/ s.ptr = SizeOf(n))
      <3>1. s.node.size = SizeOf(n)
        BY <2>4, <2>5 DEF ReadsOnly
      <3>2. s.ptr \in 0 .. SizeOf(n)
        BY <2>4, <3>1 DEF Inside
      <3> QED BY <2>4, <2>10, <3>1, <3>2
    <2>12. /\ PositionOf(n)' = PositionOf(n) + done /\ SizeOf(n)' = SizeOf(n)
           /\ done = IF length < SizeOf(n) - PositionOf(n) THEN length
                     ELSE SizeOf(n) - PositionOf(n)
      BY <1>1, <2>8, <2>9, <2>10, <2>11 DEF Moves, Larger
    <2>13. F!Returns("sfs_fread", done) /\ F!isOpen(n)
      BY <2>8, <2>9, <2>10 DEF Shows, F!Returns, F!isOpen
    <2>14. F!Read(n, length)
      BY <2>8, <2>12, <2>13, OneSeen DEF F!Read, Shows
    <2> QED BY <2>14 DEF F!FilesNext
  <1> QED BY <1>2, <1>3

-----------------------------------------------------------------------------
LEMMA RemoveRefines ==
    ASSUME SfsInv, Overlay = "padding", "RemoveOpen" \notin Habits, NEW name \in Names, RemoveExisting(name)
    PROVE  F!Remove(name)
  <1>1. PICK x : x = INodeOf(name)
    OBVIOUS
  <1>2. PICK h : h = get_file(name)
    OBVIOUS
  <1> DEFINE e == [file_name |-> NoName, i_node_ptr |-> None, occupied |-> FALSE]
  <1>3. /\ does_file_exist(name) /\ ret' = Result("sfs_remove", 1)
        /\ root_dir_table' = [root_dir_table EXCEPT ![h] = e]
        /\ root_dir_table \in [Entries -> RootEntry]
    BY <1>2, InvParts DEF RemoveExisting, CanRemove, RemovedEntry, TablesOK
  <1>4. SfsInv' /\ RemoveDone(x)
    BY <1>1, RemoveExistingInv
  <1>5. Views /\ Views' /\ ViewOf(name) /\ ViewOf(name)'
    BY <1>4, ViewsHold, ViewsStay DEF Views
  <1>6. /\ h \in Occupied /\ root_dir_table[h].file_name = name
        /\ \A i \in Occupied : root_dir_table[i].file_name = name => i = h
    BY <1>2, <1>3, FileFound DEF SfsInv
  <1>7. \A i \in Entries : root_dir_table'[i] = IF i = h THEN e ELSE root_dir_table[i]
    BY <1>3, <1>6 DEF Occupied
  <1>8. ~ e.occupied
    OBVIOUS
  <1> HIDE DEF e
  <1>9. Occupied' = Occupied \ {h}
    BY <1>6, <1>7, <1>8 DEF Occupied
  <1>10. \A y \in INodes : ~ Named(name, y)'
    BY <1>6, <1>7, <1>9 DEF Named, Occupied
  <1>11. SizeOf(name)' = -1 /\ PositionOf(name)' = -1
    BY <1>5, <1>10 DEF ViewOf
  <1>12. ASSUME NEW m \in Names \ {name} PROVE Unseen(m)
    <2>1. \A y \in INodes : Named(m, y)' <=> Named(m, y)
      BY <1>6, <1>7, <1>9 DEF Named, Occupied
    <2>2. Named(name, x)
      BY <1>1, <1>2, <1>6 DEF Named, INodeOf
    <2>3. ASSUME NEW y \in INodes, Named(m, y)
          PROVE  /\ y \in FileNodes \ {x} /\ i_node_table'[y].size = i_node_table[y].size
                 /\ \A g \in Entries : /\ Opens(g, y)' <=> Opens(g, y)
                                       /\ fdt'[g].read_write_ptr = fdt[g].read_write_ptr
      <3>1. y \in FileNodes \ {x}
        BY <2>2, <2>3, NamesApart DEF Named, FileNodes
      <3> QED BY <1>4, <3>1 DEF RemoveDone, Opens
    <2> QED BY <1>5, <2>1, <2>3, FileUnseen
  <1>13. SizeOf(name) \in Nat
    <2>1. x \in INodes /\ Named(name, x)
      BY <1>1, <1>2, <1>6 DEF Named, INodeOf, SfsInv, Directory
    <2> QED BY <1>5, <2>1 DEF ViewOf
  <1>14. Visible(ret)'.call = "sfs_remove" /\ Visible(ret)'.value = 1
    BY <1>3, ResultSeen
  <1>15. F!exists(name)
    BY <1>13 DEF F!exists
  <1>16. OnlySeen(name)
    BY <1>12 DEF OnlySeen
  <1> QED BY <1>11, <1>14, <1>15, <1>16, OneSeen DEF F!Remove, F!Returns

(* Opening with every descriptor, entry or i-node in use is not seen, nor   *)
(* is a step that changes nothing.                                          *)
LEMMA NothingSeen ==
    ASSUME UNCHANGED <<fdt, tables, ret>>
    PROVE  UNCHANGED F!fileVars
  <1>1. \A m \in Names : Unseen(m)
    BY SameView
  <1> QED BY <1>1, NoneSeen DEF F!fileVars, Visible

LEMMA TooLongRefines ==
    ASSUME NEW name \in Names, FopenTooLong(name)
    PROVE  F!RefuseName(name)
  <1>1. /\ UNCHANGED <<fdt, tables>> /\ ret' = Result("sfs_fopen", None)
        /\ name \in LongNames
    BY DEF FopenTooLong, others, None
  <1>2. Visible(ret)'.call = "sfs_fopen" /\ Visible(ret)'.value = -1
    BY <1>1, ResultSeen
  <1>3. \A m \in Names : Unseen(m)
    BY <1>1, SameView
  <1> QED BY <1>1, <1>2, <1>3, NoneSeen DEF F!RefuseName, F!Returns

LEMMA CallRefines ==
    ASSUME Overlay = "padding", Habits = {}, CarefulInv, EveryFileSaved, Call
    PROVE  F!FilesNext \/ UNCHANGED F!fileVars
  <1>1. SfsInv /\ Careful
    BY DEF CarefulInv
  <1>2. CASE Format
    BY <1>1, <1>2, FormatRefines DEF F!FilesNext
  <1>3. CASE Restart \/ Remount
    BY <1>1, <1>3, LoadRefines DEF F!FilesNext
  <1>4. CASE sfs_getnextfilename
    BY <1>1, <1>4, NextNameRefines
  <1>5. ASSUME NEW name \in Names, sfs_getfilesize(name) PROVE F!FilesNext
    BY <1>1, <1>5, QueriesRefine
  <1>6. ASSUME NEW name \in Names, sfs_fopen(name) PROVE F!FilesNext \/ UNCHANGED F!fileVars
    <2>0. CASE FopenTooLong(name)
      BY <2>0, TooLongRefines DEF F!FilesNext
    <2> SUFFICES ASSUME name \notin LongNames, FopenShort(name)
                 PROVE  F!FilesNext \/ UNCHANGED F!fileVars
      BY <1>6, <2>0 DEF sfs_fopen
    <2>1. CASE FopenAgain(name) \/ FopenExisting(name)
      BY <1>1, <2>1, OpensRefine DEF F!FilesNext
    <2>2. CASE FopenCreate(name)
      BY <1>1, <2>2, CreateRefines DEF F!FilesNext
    <2>3. CASE FopenOutOfBounds(name)
      BY <2>3, NothingSeen DEF FopenOutOfBounds
    <2> QED BY <2>1, <2>2, <2>3 DEF FopenShort
  <1>7. ASSUME NEW name \in Names, sfs_remove(name) PROVE F!FilesNext
    BY <1>1, <1>7, QueriesRefine, RemoveRefines DEF sfs_remove, F!FilesNext
  <1>8. ASSUME NEW f \in Entries, sfs_fclose(f) PROVE F!FilesNext
    BY <1>1, <1>8, CloseRefines
  <1>9. ASSUME NEW f \in Entries, NEW length \in Lengths, sfs_fwrite(f, length) PROVE F!FilesNext
    BY <1>1, <1>9, WriteRefines
  <1>10. ASSUME NEW f \in Entries, NEW loc \in Seeks, sfs_fseek(f, loc) PROVE F!FilesNext
    BY <1>1, <1>10, SeekRefines
  <1>11. ASSUME NEW f \in Entries, NEW length \in Lengths, sfs_fread(f, length) PROVE F!FilesNext
    BY <1>1, <1>11, ReadRefines
  <1> QED BY <1>2, <1>3, <1>4, <1>5, <1>6, <1>7, <1>8, <1>9, <1>10, <1>11 DEF Call, Change, Query

LEMMA InitRefines ==
    ASSUME Init
    PROVE  F!FilesInit
  <1>1. \A i \in Entries : ~ root_dir_table[i].occupied
    BY NothingThere DEF Occupied
  <1>2. ASSUME NEW n \in Names PROVE SizeOf(n) = -1 /\ PositionOf(n) = -1
    <2>1. ViewOf(n)
      BY InitInv, ViewsHold DEF Views
    <2>2. \A x \in INodes : ~ Named(n, x)
      BY <1>1 DEF Named, Occupied
    <2> QED BY <2>1, <2>2 DEF ViewOf
  <1>3. Visible(ret) = [call |-> "mksfs", value |-> 1]
    BY DEF Init, Visible, Result
  <1> QED BY <1>2, <1>3 DEF F!FilesInit

-----------------------------------------------------------------------------
(* A new file takes the first free entry: as long as there are never more   *)
(* files than the saved part of the directory has entries, they all are in  *)
(* it.                                                                      *)
FewFiles == get_num_of_files <= SavedEntries
InSavedPart == Occupied \subseteq 0 .. SavedEntries - 1

LEMMA SavedIsThere == SfsInv => (InSavedPart <=> EveryFileSaved)
  <1> SUFFICES ASSUME SfsInv PROVE InSavedPart <=> EveryFileSaved
    OBVIOUS
  <1>1. disk.root = Restrict(root_dir_table, 0 .. SavedEntries - 1)
    BY ImageIs DEF SfsInv, DiskWorks, DiskMirrors
  <1>2. /\ DOMAIN disk.root = 0 .. SavedEntries - 1
        /\ \A i \in 0 .. SavedEntries - 1 : disk.root[i] = root_dir_table[i]
    BY <1>1, Indices DEF SfsInv, TypeOK, Restrict
  <1> QED BY <1>2, Indices DEF InSavedPart, EveryFileSaved, Occupied

LEMMA CreatesInSavedPart ==
    ASSUME SfsInv, InSavedPart, NEW name \in Names, FopenCreate(name), FewFiles'
    PROVE  InSavedPart'
  <1>1. PICK r : r = get_the_first_free_root_directory
    OBVIOUS
  <1> DEFINE e == CreatedEntry(name)[r]
  <1>2. /\ r # None /\ root_dir_table' = CreatedEntry(name)
        /\ root_dir_table \in [Entries -> RootEntry]
    BY <1>1, InvParts DEF FopenCreate, CanCreate, TablesOK
  <1>3. r \in Entries /\ \A i \in Entries : i < r => i \in Occupied
    BY <1>1, <1>2, FreeFound DEF Occupied
  <1>4. root_dir_table'[r].occupied /\ \A i \in Entries \ {r} : root_dir_table'[i] = root_dir_table[i]
    BY <1>1, <1>2, <1>3 DEF CreatedEntry
  <1>5. Occupied' = Occupied \cup {r}
    BY <1>3, <1>4 DEF Occupied
  <1>6. SUFFICES ASSUME r \notin 0 .. SavedEntries - 1 PROVE FALSE
    BY <1>5 DEF InSavedPart
  <1>7. 0 .. SavedEntries \subseteq Occupied'
    <2>1. SavedEntries \in Nat /\ r \in Nat /\ r >= SavedEntries
      BY <1>3, <1>6, Indices, SfsAssumption
    <2>2. ASSUME NEW i \in 0 .. SavedEntries, i # r PROVE i \in Occupied
      BY <1>3, <2>1, <2>2, Indices DEF Entries
    <2> QED BY <1>5, <2>2
  <1>8. Cardinality(Occupied') <= SavedEntries
    BY DEF FewFiles, get_num_of_files, Occupied
  <1>9. IsFiniteSet(Entries) /\ Occupied' \subseteq Entries
    BY FS_Interval, Indices DEF Entries, Occupied
  <1>10. SavedEntries \in Nat /\ Cardinality(0 .. SavedEntries) = SavedEntries + 1
    BY FS_Interval, SfsAssumption
  <1>11. Cardinality(0 .. SavedEntries) <= Cardinality(Occupied') /\ Cardinality(Occupied') \in Nat
    BY <1>7, <1>9, FS_Subset, FS_CardinalityType
  <1> QED BY <1>8, <1>10, <1>11

LEMMA SavedPartStep ==
    ASSUME Overlay = "padding", Habits \subseteq {"SeekOutside"}, SfsInv, InSavedPart, Call, FewFiles'
    PROVE  InSavedPart'
  <1>1. CASE UNCHANGED root_dir_table \/ \A i \in Occupied' : i \in Occupied
    BY <1>1 DEF InSavedPart, Occupied
  <1>2. CASE Format
    BY <1>1, <1>2, FormatInv
  <1>3. CASE Restart \/ Remount
    BY <1>1, <1>3, MountInv
  <1>4. CASE sfs_getnextfilename
    BY <1>1, <1>4 DEF sfs_getnextfilename, tables
  <1>5. ASSUME NEW name \in Names, sfs_getfilesize(name) PROVE InSavedPart'
    BY <1>1, <1>5 DEF sfs_getfilesize, others, tables
  <1>6. ASSUME NEW name \in Names, sfs_fopen(name) PROVE InSavedPart'
    <2>1. CASE FopenCreate(name)
      BY <2>1, CreatesInSavedPart
    <2>2. CASE \/ FopenAgain(name) \/ FopenExisting(name) \/ FopenOutOfBounds(name)
               \/ FopenTooLong(name)
      BY <1>1, <2>2
         DEF FopenAgain, FopenExisting, FopenOutOfBounds, FopenTooLong, others, tables
    <2> QED BY <1>6, <2>1, <2>2 DEF sfs_fopen, FopenShort
  <1>7. ASSUME NEW name \in Names, sfs_remove(name) PROVE InSavedPart'
    <2>1. CASE RemoveMissing(name)
      BY <1>1, <2>1 DEF RemoveMissing, others, tables
    <2>2. CASE RemoveExisting(name)
      <3>1. RemoveDone(INodeOf(name))
        BY <2>2, RemoveExistingInv
      <3> QED BY <1>1, <3>1 DEF RemoveDone
    <2> QED BY <1>7, <2>1, <2>2 DEF sfs_remove
  <1>8. ASSUME NEW f \in Entries, sfs_fclose(f) PROVE InSavedPart'
    BY <1>1, <1>8 DEF sfs_fclose, others, tables
  <1>9. ASSUME NEW f \in Entries, NEW length \in Lengths, NEW call, NEW s,
               Transfer(call, f, length, s)
        PROVE  InSavedPart'
    BY <1>1, <1>9 DEF Transfer, others, tables
  <1>10. ASSUME NEW f \in Entries, NEW loc \in Seeks, sfs_fseek(f, loc) PROVE InSavedPart'
    BY <1>1, <1>10 DEF sfs_fseek, others, tables
  <1>11. ASSUME NEW f \in Entries, NEW length \in Lengths,
                sfs_fwrite(f, length) \/ sfs_fread(f, length)
         PROVE  InSavedPart'
    BY <1>9, <1>11 DEF sfs_fwrite, sfs_fread
  <1> QED BY <1>2, <1>3, <1>4, <1>5, <1>6, <1>7, <1>8, <1>10, <1>11 DEF Call, Change, Query

-----------------------------------------------------------------------------
(* As long as there are never more files than save_root_directory_table has *)
(* room for in its five blocks, the entry of every file is on the disk.     *)
THEOREM FewFilesAreSaved ==
    ASSUME Overlay = "padding", Habits \subseteq {"SeekOutside"}
    PROVE  Spec /\ []FewFiles => []EveryFileSaved
  <1>1. Spec => []SfsInv
    BY Inductive
  <1>2. Init => InSavedPart
    BY NothingThere DEF InSavedPart
  <1>3. SfsInv /\ InSavedPart /\ FewFiles' /\ [Next]_vars => InSavedPart'
    <2>1. CASE UNCHANGED vars
      BY <2>1 DEF vars, others, tables, InSavedPart, Occupied
    <2> QED BY <2>1, SavedPartStep DEF Next
  <1>4. SfsInv /\ InSavedPart => EveryFileSaved
    BY SavedIsThere
  <1> QED BY <1>1, <1>2, <1>3, <1>4, PTL DEF Spec

(* sfs_api.c implements the file system of Files: every call of a careful   *)
(* client changes the files and positions the way Files says and returns    *)
(* what Files says, for tables, blocks and disks of every size, as long as  *)
(* no directory entry is lost because it was not saved.                     *)
THEOREM Refinement ==
    ASSUME Overlay = "padding", Habits = {}
    PROVE  Spec /\ []EveryFileSaved => ImplementsFiles
  <1>1. Spec => []CarefulInv
    BY InductiveCareful
  <1>2. Init => F!FilesInit
    BY InitRefines
  <1>3. CarefulInv /\ EveryFileSaved /\ [Next]_vars => [F!FilesNext]_(F!fileVars)
    <2>1. CASE UNCHANGED vars
      BY <2>1, NothingSeen DEF vars, others
    <2> QED BY <2>1, CallRefines DEF Next
  <1> QED BY <1>1, <1>2, <1>3, PTL DEF Spec, ImplementsFiles, F!FilesSpec

(* The same for a client that keeps few enough files.                       *)
THEOREM FewFilesRefine ==
    ASSUME Overlay = "padding", Habits = {}
    PROVE  Spec /\ []FewFiles => ImplementsFiles
  <1>1. Spec /\ []FewFiles => []EveryFileSaved
    BY FewFilesAreSaved
  <1> QED BY <1>1, Refinement, PTL

(* And for every client, where the whole directory is saved.                *)
THEOREM SavedDirectoryRefines ==
    ASSUME Overlay = "padding", Habits = {}, SavedEntries = NUM_OF_FILES
    PROVE  Spec => ImplementsFiles
  <1>1. CarefulInv => EveryFileSaved
    BY SavedIsThere, Indices DEF CarefulInv, InSavedPart, Occupied, Entries
  <1> QED BY <1>1, InductiveCareful, Refinement, PTL

-----------------------------------------------------------------------------
(* Which blocks can be lost.  A level of a write moves blocks from the      *)
(* bitmap to its file; the one that ends the write may have taken a block   *)
(* it then has no place for.                                                *)
Held(s) == s.free \cup Used(s.node, s.ind)

HoldsAll(a, s) ==
    \/ Held(s) = Held(a)
    \/ /\ s.block = None
       /\ \E b \in Held(a) : Held(s) = Held(a) \ {b}
       /\ s.free = {} \/ AllSet(s.node, s.ind)

LEMMA AllocationHolds ==
    ASSUME NEW s, Ready(s), NEW b \in s.free, NEW t, Allocates(s, t, b)
    PROVE  Held(t) = Held(s)
  <1>1. /\ s \in Transfers /\ t \in Transfers /\ b # None /\ s.free \subseteq Blocks /\ None \notin Blocks
        /\ t.free = s.free \ {b, t.node.indirect_ptr}
    BY BlockNumbers DEF Ready, Allocates, Transfers
  <1>2. PICK v \in Slots :
            /\ PtrOf(s, v) = None
            /\ \A k \in Slots : PtrOf(t, k) = IF k = v THEN b ELSE PtrOf(s, k)
    BY DEF Allocates
  <1>3. \A p : p \in Used(s.node, s.ind) <=>
            p # None /\ (p = s.node.indirect_ptr \/ \E k \in Slots : p = PtrOf(s, k))
    BY DEF Used, PtrOf
  <1>4. \A p : p \in Used(t.node, t.ind) <=>
            p # None /\ (p = t.node.indirect_ptr \/ \E k \in Slots : p = PtrOf(t, k))
    BY DEF Used, PtrOf
  <1>5. \/ t.node.indirect_ptr = s.node.indirect_ptr
        \/ s.node.indirect_ptr = None /\ t.node.indirect_ptr \in s.free \ {b}
    BY DEF Allocates
  <1>6. \A p : p \in Used(t.node, t.ind) <=>
            p \in Used(s.node, s.ind) \/ p = b \/ (p = t.node.indirect_ptr /\ p # None)
    BY <1>1, <1>2, <1>3, <1>4, <1>5
  <1>7. t.node.indirect_ptr \in s.free \cup Used(s.node, s.ind) \cup {None}
    BY <1>3, <1>5
  <1> QED BY <1>1, <1>6, <1>7 DEF Held

LEMMA WriteChunkHolds ==
    ASSUME NEW a, NEW R, a.free \cap R = {}, NEW s, Keeps(a, R, s), HoldsAll(a, s), disk_ready
    PROVE  HoldsAll(a, WriteChunk(s))
  <1> DEFINE u == WriteChunk(s)
  <1>1. Ready(s) /\ s \in Transfers
    BY DEF Keeps, Ready
  <1>2. \/ Over(s) /\ u = s
        \/ ~ Over(s) /\ RunsOut(s, u)
        \/ ~ Over(s) /\ \E x \in {None, Garbage} : u = [s EXCEPT !.block = x]
        \/ ~ Over(s) /\ \E b \in s.free : \E t : Allocates(s, t, b) /\ Adds(s, t, u)
        \/ /\ ~ Over(s) /\ SlotAt(s) \in Slots /\ PtrOf(s, SlotAt(s)) # None
           /\ u = Moved(s, [s EXCEPT !.block = PtrOf(s, SlotAt(s))])
    BY <1>1, WriteChunkIs
  <1> HIDE DEF u
  <1>3. ASSUME ~ Over(s) PROVE Held(s) = Held(a)
    BY <1>3 DEF HoldsAll, Over
  <1>4. ASSUME NEW x, u = [s EXCEPT !.block = x], ~ Over(s) PROVE HoldsAll(a, u)
    <2>1. u.node = s.node /\ u.ind = s.ind /\ u.free = s.free
      BY <1>1, <1>4 DEF Transfers
    <2> QED BY <1>3, <1>4, <2>1 DEF Held, HoldsAll
  <1>5. ASSUME RunsOut(s, u), ~ Over(s) PROVE HoldsAll(a, u)
    <2>1. u.node = s.node /\ u.ind = s.ind /\ u.block = None
      BY <1>1, <1>5 DEF RunsOut, Transfers
    <2>2. CASE u.free = s.free
      BY <1>3, <1>5, <2>1, <2>2 DEF Held, HoldsAll
    <2>3. ASSUME NEW b \in s.free, u.free = s.free \ {b}, u.free = {} \/ AllSet(s.node, s.ind)
          PROVE  HoldsAll(a, u)
      <3>1. b \notin Used(s.node, s.ind)
        BY <1>1 DEF Ready
      <3>2. b \in Held(a) /\ Held(u) = Held(a) \ {b}
        BY <1>3, <1>5, <2>1, <2>3, <3>1 DEF Held
      <3> QED BY <2>1, <2>3, <3>2 DEF HoldsAll
    <2> QED BY <1>5, <2>2, <2>3 DEF RunsOut
  <1>6. ASSUME NEW t, Keeps(a, R, t), NEW k \in Slots, t.block = PtrOf(t, k), t.block # None,
               t.left = s.left, t.ptr = s.ptr, Held(t) = Held(s), ~ Over(s), u = Moved(s, t)
        PROVE  HoldsAll(a, u)
    <2>1. MovesTo(a, R, s, t, u)
      BY <1>1, <1>6, MovedKeeps
    <2>2. /\ \A j \in Slots : PtrOf(u, j) = PtrOf(t, j)
          /\ u.free = t.free /\ u.node.indirect_ptr = t.node.indirect_ptr
      BY <2>1 DEF MovesTo
    <2>3. Used(u.node, u.ind) = Used(t.node, t.ind)
      BY <2>2 DEF Used, PtrOf
    <2> QED BY <1>3, <1>6, <2>2, <2>3 DEF Held, HoldsAll
  <1>7. ASSUME NEW b \in s.free, NEW t, Allocates(s, t, b), ~ Over(s), Adds(s, t, u)
        PROVE  HoldsAll(a, u)
    <2>1. Keeps(a, R, t) /\ Held(t) = Held(s)
      BY <1>1, <1>7, AllocationKeeps, AllocationHolds
    <2>2. PICK k \in Slots : PtrOf(t, k) = b
      BY <1>7 DEF Allocates
    <2>3. t.block = b /\ t.left = s.left /\ t.ptr = s.ptr /\ b # None /\ t \in Transfers
      BY <1>1, <1>7, BlockNumbers DEF Allocates, Transfers
    <2>4. u = Moved(s, t) => HoldsAll(a, u)
      BY <1>6, <1>7, <2>1, <2>2, <2>3
    <2>5. ASSUME u = [t EXCEPT !.block = Garbage] PROVE HoldsAll(a, u)
      <3>1. u.node = t.node /\ u.ind = t.ind /\ u.free = t.free
        BY <2>3, <2>5 DEF Transfers
      <3> QED BY <1>3, <1>7, <2>1, <3>1 DEF Held, HoldsAll
    <2> QED BY <1>7, <2>4, <2>5 DEF Adds
  <1>8. ASSUME ~ Over(s), SlotAt(s) \in Slots, PtrOf(s, SlotAt(s)) # None,
               u = Moved(s, [s EXCEPT !.block = PtrOf(s, SlotAt(s))])
        PROVE  HoldsAll(a, u)
    <2> DEFINE t == [s EXCEPT !.block = PtrOf(s, SlotAt(s))]
    <2>1. PtrOf(s, SlotAt(s)) \in Int
      BY <1>1, <1>8, PtrType, BlockNumbers DEF PtrOf, Transfers
    <2>2. /\ t.node = s.node /\ t.ind = s.ind /\ t.left = s.left /\ t.ptr = s.ptr
          /\ t.free = s.free /\ t.block = PtrOf(s, SlotAt(s)) /\ t \in Transfers
      BY <1>1, <2>1 DEF Transfers
    <2> HIDE DEF t
    <2>3. Keeps(a, R, t) /\ t.block = PtrOf(t, SlotAt(s)) /\ t.block # None
      BY <1>8, <2>2 DEF Keeps, Ready, PtrOf
    <2>4. Held(t) = Held(s)
      BY <2>2 DEF Held
    <2> QED BY <1>6, <1>8, <2>2, <2>3, <2>4 DEF t
  <1> QED BY <1>2, <1>4, <1>5, <1>7, <1>8 DEF u

LEMMA WriteHolds ==
    ASSUME NEW f, NEW length \in Nat, NEW R, disk_ready,
           Keeps(Start(f, length), R, Start(f, length)), free_bitmap \cap R = {}
    PROVE  HoldsAll(Start(f, length), sfs_fwrite_recursive(f, length))
  <1> DEFINE a == Start(f, length)
             S == {s \in Transfers : Keeps(a, R, s) /\ HoldsAll(a, s)}
  <1>1. a.free \cap R = {} /\ a \in Transfers /\ Keeps(a, R, a)
    BY DEF Start, Keeps, Ready
  <1> HIDE DEF a
  <1>2. ASSUME NEW s \in S PROVE WriteChunk(s) \in S
    <2>1. Keeps(a, R, s) /\ HoldsAll(a, s)
      OBVIOUS
    <2>2. Keeps(a, R, WriteChunk(s))
      BY <1>1, <2>1, WriteChunkKeeps
    <2>3. HoldsAll(a, WriteChunk(s))
      BY <1>1, <2>1, WriteChunkHolds
    <2> QED BY <2>2, <2>3 DEF Keeps, Ready
  <1>3. a \in S
    BY <1>1 DEF HoldsAll
  <1> HIDE DEF S
  <1>4. sfs_fwrite_recursive(f, length) \in S
    BY <1>2, <1>3, WriteInduction DEF a
  <1> QED BY <1>4 DEF S, a

(* The blocks that the i-nodes of files use.                                *)
InUse == UNION {Used(i_node_table[x], indirect) : x \in FileNodes}

TheRest == Lost = Blocks \ (free_bitmap \cup InUse)

LEMMA LostIs == Directory => TheRest
  <1> SUFFICES ASSUME Directory PROVE TheRest
    OBVIOUS
  <1>1. \A n \in Files : BlocksOf(NodeOf(n)) = Used(i_node_table[INodeOf(n)], indirect)
    BY SameBlocks DEF NodeOf
  <1>2. \A n \in Files : INodeOf(n) \in FileNodes
    BY FilesAreNodes
  <1>3. \A x \in FileNodes : \E n \in Files : x = INodeOf(n)
    BY FilesAreNodes
  <1>4. UNION {BlocksOf(NodeOf(n)) : n \in Files} = InUse
    BY <1>1, <1>2, <1>3 DEF InUse
  <1> QED BY <1>4 DEF Lost, TheRest

(* The i-node of some file has all its pointers set.                        *)
SomeFull == \E x \in FileNodes : AllSet(i_node_table[x], indirect)

FileFull == \E n \in Files : IsFull(n)

LEMMA FullFile == Directory /\ SomeFull => FileFull
  <1> SUFFICES ASSUME Directory, SomeFull PROVE FileFull
    OBVIOUS
  <1>1. PICK x \in FileNodes : AllSet(i_node_table[x], indirect)
    BY DEF SomeFull
  <1>2. PICK n \in Files : x = INodeOf(n)
    BY FilesAreNodes
  <1>3. IsFull(n)
    BY <1>1, <1>2, SameBlocks DEF IsFull, AllSet, NodeOf
  <1> QED BY <1>3 DEF FileFull

(* What LeaksAreKnown says of one step.                                     *)
LeakKnown ==
    LET lost == Lost' \ Lost IN
       \/ UNCHANGED <<tables, disk>>
       \/ ret'.call = "mksfs" /\ lost = {}
       \/ /\ Lost \subseteq Lost'
          /\ \/ lost = {}
             \/ \E n \in Files \ Files' : lost = {NodeOf(n).indirect_ptr}
             \/ /\ ret'.call = "sfs_fwrite" /\ Cardinality(lost) = 1
                /\ free_bitmap' = {} \/ \E n \in Files : IsFull(n)'

LEMMA NothingLost ==
    ASSUME SfsInv, SfsInv', free_bitmap' = free_bitmap, InUse' = InUse
    PROVE  LeakKnown
  <1>1. Directory' => TheRest'
    BY LostIs, PTL
  <1> QED BY <1>1, LostIs DEF TheRest, LeakKnown, SfsInv

LEMMA LoadLeaks ==
    ASSUME SfsInv, EveryFileSaved, Restart \/ Remount
    PROVE  LeakKnown
  <1>1. /\ SfsInv' /\ UNCHANGED <<i_node_table, indirect>>
        /\ \A i \in Occupied' : i \in Occupied /\ root_dir_table'[i] = root_dir_table[i]
        /\ \A i \in 0 .. SavedEntries - 1 : root_dir_table'[i] = disk.root[i]
    BY MountInv
  <1>2. ASSUME NEW i \in Occupied PROVE i \in Occupied' /\ root_dir_table'[i] = root_dir_table[i]
    <2>1. i \in Entries /\ i \in DOMAIN disk.root /\ disk.root[i] = root_dir_table[i]
      BY DEF EveryFileSaved, Occupied
    <2>2. i \in 0 .. SavedEntries - 1
      BY <2>1 DEF SfsInv, TypeOK
    <2> QED BY <1>1, <2>1, <2>2 DEF Occupied
  <1>3. FileNodes' = FileNodes
    BY <1>1, <1>2 DEF FileNodes
  <1>4. free_bitmap' = free_bitmap
    <2>1. free_bitmap' = disk'.bitmap /\ disk' = disk
      BY DEF Restart, Remount, NewProcess, LoadTables
    <2>2. disk = Image(i_node_table, root_dir_table, free_bitmap, indirect)
      BY DEF SfsInv, DiskWorks, DiskMirrors
    <2> QED BY <2>1, <2>2, ImageIs
  <1>5. InUse' = InUse
    BY <1>1, <1>3 DEF InUse
  <1> QED BY <1>1, <1>4, <1>5, NothingLost

LEMMA FormatLeaks ==
    ASSUME SfsInv, "FormatFull" \notin Habits, Format
    PROVE  LeakKnown
  <1>1. SfsInv'
    BY FormatInv
  <1>2. free_bitmap' = Blocks /\ ret'.call = "mksfs"
    BY DEF Format, Result
  <1>3. Directory' => TheRest'
    BY LostIs, PTL
  <1> QED BY <1>1, <1>2, <1>3 DEF TheRest, LeakKnown, SfsInv

LEMMA FopenLeaks ==
    ASSUME SfsInv, NEW name \in Names, sfs_fopen(name)
    PROVE  LeakKnown
  <1>1. CASE FopenCreate(name)
    <2> DEFINE x == get_the_first_free_i_node
    <2>1. SfsInv' /\ CreateDone(name, x) /\ free_bitmap' = free_bitmap
      BY <1>1, FopenCreateInv DEF FopenCreate
    <2> HIDE DEF x
    <2>2. indirect \in Contents
      BY InvParts DEF DiskOK
    <2>3. Used(NewINode, indirect) = {}
      BY <2>2, NewINodeUsesNothing
    <2>4. InUse' = InUse
      BY <2>1, <2>3 DEF InUse, CreateDone
    <2> QED BY <2>1, <2>4, NothingLost
  <1>2. CASE \/ FopenAgain(name) \/ FopenExisting(name) \/ FopenOutOfBounds(name)
             \/ FopenTooLong(name)
    BY <1>2 DEF FopenAgain, FopenExisting, FopenOutOfBounds, FopenTooLong, others, LeakKnown
  <1> QED BY <1>1, <1>2 DEF sfs_fopen, FopenShort

(* sfs_remove frees all blocks of the file but the indirect one.            *)
LEMMA FreedAreAll ==
    ASSUME NEW node \in INode, indirect \in Contents, WellFormed(node, indirect)
    PROVE  (PointersFreed(node) \ {None}) \cup ({node.indirect_ptr} \ {None}) = Used(node, indirect)
           /\ node.indirect_ptr \notin PointersFreed(node) \ {None}
  <1>1. PointersFreed(node) \ {None} \subseteq Used(node, indirect)
    BY PointersFreedUsed
  <1>2. ASSUME NEW k \in Slots, Ptr(node, indirect, k) # None
        PROVE  Ptr(node, indirect, k) \in PointersFreed(node)
    <2>1. CASE k < DIRECT_PTR_NUM
      <3>1. k \in DOMAIN node.direct_ptr
        BY <2>1, SlotIs DEF INode
      <3> QED BY <2>1, <3>1 DEF Ptr, PointersFreed, Range
    <2>2. CASE ~ (k < DIRECT_PTR_NUM)
      <3>1. k - DIRECT_PTR_NUM \in IndexSlots
        BY <2>2, SlotIs, SlotOf
      <3>2. node.indirect_ptr \in DOMAIN indirect
        BY <1>2, <2>2, <3>1 DEF Ptr, Index
      <3>3. node.indirect_ptr # None /\ DOMAIN indirect[node.indirect_ptr] = IndexSlots
        BY <3>2, ContentsIs, BlockNumbers DEF Pointers
      <3> QED BY <2>2, <3>1, <3>2, <3>3 DEF Ptr, Index, PointersFreed, Range
    <2> QED BY <2>1, <2>2
  <1>3. ASSUME NEW p \in PointersFreed(node), p # None
        PROVE  \E k \in Slots : p = Ptr(node, indirect, k)
    <2>1. CASE p \in Range(node.direct_ptr)
      <3>1. PICK k \in DirectSlots : p = node.direct_ptr[k]
        BY <2>1 DEF Range, INode
      <3> QED BY <3>1, SlotOf DEF Ptr
    <2>2. CASE node.indirect_ptr # None /\ p \in Range(indirect[node.indirect_ptr])
      <3>1. node.indirect_ptr \in DOMAIN indirect
        BY <2>2 DEF WellFormed
      <3>2. Index(node, indirect) = indirect[node.indirect_ptr]
            /\ DOMAIN indirect[node.indirect_ptr] = IndexSlots
        BY <3>1, ContentsIs DEF Index, Pointers
      <3>3. PICK k \in IndexSlots : p = indirect[node.indirect_ptr][k]
        BY <2>2, <3>2 DEF Range
      <3>4. k + DIRECT_PTR_NUM \in Slots /\ Ptr(node, indirect, k + DIRECT_PTR_NUM) = p
        BY <3>2, <3>3, SlotOf DEF Ptr
      <3> QED BY <3>4
    <2> QED BY <1>3, <2>1, <2>2 DEF PointersFreed
  <1>4. node.indirect_ptr \notin PointersFreed(node) \ {None}
    BY <1>3 DEF WellFormed
  <1> QED BY <1>1, <1>2, <1>4 DEF Used

LEMMA RemoveLeaks ==
    ASSUME SfsInv, undefined = "no", Overlay = "padding", "RemoveOpen" \notin Habits,
           NEW name \in Names, sfs_remove(name)
    PROVE  LeakKnown
  <1>1. CASE RemoveMissing(name)
    BY <1>1 DEF RemoveMissing, others, LeakKnown
  <1>2. CASE RemoveExisting(name)
    <2>1. PICK x : x = INodeOf(name)
      OBVIOUS
    <2> DEFINE node == i_node_table[x]
               freed == PointersFreed(node) \ {None}
    <2>2. SfsInv' /\ RemoveDone(x)
      BY <1>2, <2>1, RemoveExistingInv
    <2>3. free_bitmap' = free_bitmap \cup freed
      <3>1. undefined' = undefined
        BY <2>2 DEF RemoveDone
      <3> QED BY <1>2, <2>1, <3>1 DEF RemoveExisting
    <2>4. /\ TablesOK /\ Directory /\ Storage /\ indirect \in Contents
          /\ does_file_exist(name)
      BY <1>2, InvParts DEF DiskOK, RemoveExisting, CanRemove
    <2>5. /\ get_file(name) \in Occupied /\ root_dir_table[get_file(name)].i_node_ptr = x
          /\ \A i \in Occupied : root_dir_table[i].file_name = name => i = get_file(name)
          /\ x \in FileNodes
      BY <2>1, <2>4, FileFound DEF INodeOf
    <2>6. name \in Files /\ name \notin Files'
      <3>1. x \notin FileNodes'
        BY <2>2 DEF RemoveDone
      <3>2. ASSUME NEW i \in Occupied', root_dir_table'[i].file_name = name PROVE FALSE
        <4>1. i \in Occupied /\ root_dir_table'[i] = root_dir_table[i]
          BY <2>2 DEF RemoveDone
        <4>2. root_dir_table'[i].i_node_ptr = x
          BY <2>5, <3>2, <4>1
        <4> QED BY <3>1, <4>2 DEF FileNodes
      <3> QED BY <2>4, <3>2 DEF Files, does_file_exist, Occupied
    <2>7. node \in INode /\ WellFormed(node, indirect)
      BY <2>4, <2>5 DEF TablesOK, Directory, Storage, FileNodes
    <2> HIDE DEF node
    <2>8. /\ freed \cup ({node.indirect_ptr} \ {None}) = Used(node, indirect)
          /\ node.indirect_ptr \notin freed
      BY <2>4, <2>7, FreedAreAll
    <2> HIDE DEF freed
    <2>9. InUse' = OtherBlocks(x)
      BY <2>2 DEF RemoveDone, InUse, OtherBlocks
    <2>10. InUse = OtherBlocks(x) \cup Used(node, indirect)
      BY <2>5 DEF InUse, OtherBlocks, node
    <2>11. Used(node, indirect) \cap OtherBlocks(x) = {} /\ Used(node, indirect) \cap free_bitmap = {}
      BY <2>4, <2>5 DEF Storage, OtherBlocks, node
    <2>12. /\ Lost = Blocks \ (free_bitmap \cup InUse)
           /\ Lost' = Blocks \ (free_bitmap' \cup InUse')
      <3>1. Directory' => TheRest'
        BY LostIs, PTL
      <3> QED BY <2>2, <2>4, <3>1, LostIs DEF TheRest, SfsInv
    <2>13. node.indirect_ptr \in Blocks \cup {None}
      BY <2>7 DEF INode
    <2>14. Lost' = Lost \cup ({node.indirect_ptr} \ {None})
      BY <2>3, <2>8, <2>9, <2>10, <2>11, <2>12, <2>13
    <2>15. ({node.indirect_ptr} \ {None}) \cap Lost = {}
      BY <2>8, <2>10, <2>12
    <2>16. NodeOf(name) = node
      BY <2>1 DEF NodeOf, node
    <2>17. Lost' \ Lost = {} \/ Lost' \ Lost = {node.indirect_ptr}
      BY <2>14, <2>15
    <2> QED BY <2>6, <2>14, <2>16, <2>17 DEF LeakKnown
  <1> QED BY <1>1, <1>2 DEF sfs_remove

(* What a transfer that ended in s leaves in use.                           *)
LEMMA TransferUses ==
    ASSUME SfsInv, NEW f \in Entries, NEW x, x \in FileNodes, NEW s, TransferDone(f, x, s)
    PROVE  /\ InUse = OtherBlocks(x) \cup Used(i_node_table[x], indirect)
           /\ InUse' = OtherBlocks(x) \cup Used(s.node, s.ind)
  <1>1. InUse = OtherBlocks(x) \cup Used(i_node_table[x], indirect)
    BY DEF InUse, OtherBlocks
  <1>2. ASSUME NEW y \in FileNodes \ {x}
        PROVE  Used(i_node_table'[y], indirect') = Used(i_node_table[y], indirect)
    <2>1. /\ i_node_table'[y] = i_node_table[y] /\ indirect' = s.ind
          /\ \A k \in Slots : Ptr(i_node_table[y], s.ind, k) = Ptr(i_node_table[y], indirect, k)
      BY DEF TransferDone
    <2>2. Used(i_node_table[y], s.ind) = Used(i_node_table[y], indirect)
      BY <2>1 DEF Used
    <2> QED BY <2>1, <2>2
  <1>3. FileNodes' = FileNodes /\ i_node_table'[x] = s.node /\ indirect' = s.ind
    BY DEF TransferDone
  <1>4. InUse' = UNION {Used(i_node_table'[y], indirect') : y \in FileNodes}
    BY <1>3 DEF InUse
  <1>5. InUse' = OtherBlocks(x) \cup Used(s.node, s.ind)
    BY <1>2, <1>3, <1>4 DEF OtherBlocks
  <1> QED BY <1>1, <1>5

LEMMA FreadLeaks ==
    ASSUME SfsInv, NEW f \in Entries, NEW length \in Lengths, sfs_fread(f, length)
    PROVE  LeakKnown
  <1> DEFINE a == Start(f, length)
             s == sfs_fread_recursive(f, length)
             x == fdt[f].i_node_ptr
  <1>1. SfsInv' /\ Transferred(f, length, s)
    BY FreadInv
  <1>2. CASE UNCHANGED <<tables, disk>>
    BY <1>2 DEF LeakKnown
  <1>3. CASE ~ UNCHANGED <<tables, disk>> /\ fdt[f].occupied /\ x \in FileNodes /\ TransferDone(f, x, s)
    <2>1. length \in Nat /\ disk_ready
      BY InvParts, SfsAssumption DEF DiskOK
    <2>2. Keeps(a, OtherBlocks(x), a) /\ a \in Transfers
      BY <1>3, <2>1, StartKeeps
    <2>3. a.node.size \in Nat
      BY <2>2 DEF Keeps
    <2>4. ReadsOnly(a, s)
      BY <2>1, <2>2, <2>3, ReadKeeps
    <2>5. a.node = i_node_table[x] /\ a.ind = indirect /\ a.free = free_bitmap
      BY DEF Start
    <2>6. free_bitmap' = s.free
      BY <1>3 DEF sfs_fread, Transfer
    <2> HIDE DEF a, s
    <2>7. s.node = i_node_table[x] /\ s.ind = indirect /\ s.free = free_bitmap
      BY <2>4, <2>5 DEF ReadsOnly
    <2> HIDE DEF x
    <2>8. InUse' = InUse
      BY <1>3, <2>7, TransferUses
    <2> QED BY <1>1, <2>6, <2>7, <2>8, NothingLost
  <1> HIDE DEF s
  <1> QED BY <1>1, <1>2, <1>3 DEF Transferred, others

LEMMA FwriteLeaks ==
    ASSUME SfsInv, NEW f \in Entries, NEW length \in Lengths, sfs_fwrite(f, length)
    PROVE  LeakKnown
  <1> DEFINE a == Start(f, length)
             s == sfs_fwrite_recursive(f, length)
             x == fdt[f].i_node_ptr
  <1>1. SfsInv' /\ Transferred(f, length, s)
    BY FwriteInv
  <1>2. CASE UNCHANGED <<tables, disk>>
    BY <1>2 DEF LeakKnown
  <1>3. CASE ~ UNCHANGED <<tables, disk>> /\ fdt[f].occupied /\ x \in FileNodes /\ TransferDone(f, x, s)
    <2>1. length \in Nat /\ disk_ready
      BY InvParts, SfsAssumption DEF DiskOK
    <2>2. /\ Keeps(a, OtherBlocks(x), a) /\ a \in Transfers
          /\ free_bitmap \cap OtherBlocks(x) = {}
      BY <1>3, <2>1, StartKeeps
    <2>3. HoldsAll(a, s)
      BY <2>1, <2>2, WriteHolds
    <2>4. a.node = i_node_table[x] /\ a.ind = indirect /\ a.free = free_bitmap
      BY DEF Start
    <2>5. free_bitmap' = s.free /\ (s.block = None => ret'.call = "sfs_fwrite")
      BY <1>3, BlockNumbers DEF sfs_fwrite, Transfer, Result
    <2> HIDE DEF a, s
    <2>6. PICK z : z = x
      OBVIOUS
    <2> HIDE DEF x
    <2>7. /\ InUse = OtherBlocks(z) \cup Used(a.node, a.ind)
          /\ InUse' = OtherBlocks(z) \cup Used(s.node, s.ind)
      BY <1>3, <2>4, <2>6, TransferUses
    <2>8. Held(a) \cap OtherBlocks(z) = {} /\ Held(a) \subseteq Blocks
      <3>1. a.free \subseteq Blocks /\ Used(a.node, a.ind) \cap OtherBlocks(z) = {}
            /\ a.node \in INode /\ a.ind \in Contents
        BY <2>2, <2>6 DEF Keeps, Transfers
      <3>2. Used(a.node, a.ind) \subseteq Blocks
        BY <3>1, PtrType
      <3> QED BY <2>2, <2>4, <2>6, <3>1, <3>2 DEF Held
    <2>9. /\ Lost = Blocks \ (Held(a) \cup OtherBlocks(z))
          /\ Lost' = Blocks \ (Held(s) \cup OtherBlocks(z))
      <3>1. Directory' => TheRest'
        BY LostIs, PTL
      <3>2. Directory /\ Directory'
        BY <1>1 DEF SfsInv
      <3> QED BY <2>4, <2>5, <2>7, <3>1, <3>2, LostIs DEF TheRest, Held
    <2>10. CASE Held(s) = Held(a)
      BY <2>9, <2>10 DEF LeakKnown
    <2>11. ASSUME NEW b \in Held(a), Held(s) = Held(a) \ {b}, s.block = None,
                  s.free = {} \/ AllSet(s.node, s.ind)
           PROVE  LeakKnown
      <3>1. Lost \subseteq Lost' /\ Lost' \ Lost = {b}
        BY <2>8, <2>9, <2>11
      <3>2. Cardinality(Lost' \ Lost) = 1
        BY <3>1, FS_Singleton
      <3>3. AllSet(s.node, s.ind) => SomeFull'
        BY <1>3, <2>6 DEF SomeFull, TransferDone, AllSet
      <3>4. Directory' /\ SomeFull' => FileFull'
        BY FullFile, PTL
      <3>5. Files' = Files
        BY <1>3 DEF TransferDone, Files, does_file_exist
      <3>6. free_bitmap' = {} \/ \E n \in Files : IsFull(n)'
        BY <1>1, <2>5, <2>11, <3>3, <3>4, <3>5 DEF FileFull, SfsInv
      <3> QED BY <2>5, <2>11, <3>1, <3>2, <3>6 DEF LeakKnown
    <2> QED BY <2>3, <2>10, <2>11 DEF HoldsAll
  <1> HIDE DEF s
  <1> QED BY <1>1, <1>2, <1>3 DEF Transferred, others

LEMMA CallLeaks ==
    ASSUME Overlay = "padding", Habits \subseteq {"SeekOutside"}, SfsInv, EveryFileSaved,
           undefined = "no", Call
    PROVE  LeakKnown
  <1>1. "FormatFull" \notin Habits /\ "RemoveOpen" \notin Habits
    OBVIOUS
  <1>2. CASE Format
    BY <1>1, <1>2, FormatLeaks
  <1>3. CASE Restart \/ Remount
    BY <1>3, LoadLeaks
  <1>4. ASSUME UNCHANGED <<tables, disk>> PROVE LeakKnown
    BY <1>4 DEF LeakKnown
  <1>5. CASE sfs_getnextfilename
    BY <1>4, <1>5 DEF sfs_getnextfilename
  <1>6. ASSUME NEW name \in Names, sfs_getfilesize(name) PROVE LeakKnown
    BY <1>4, <1>6 DEF sfs_getfilesize, others
  <1>7. ASSUME NEW name \in Names, sfs_fopen(name) PROVE LeakKnown
    BY <1>7, FopenLeaks
  <1>8. ASSUME NEW name \in Names, sfs_remove(name) PROVE LeakKnown
    BY <1>1, <1>8, RemoveLeaks
  <1>9. ASSUME NEW f \in Entries, sfs_fclose(f) PROVE LeakKnown
    BY <1>4, <1>9 DEF sfs_fclose, others
  <1>10. ASSUME NEW f \in Entries, NEW length \in Lengths, sfs_fwrite(f, length) PROVE LeakKnown
    BY <1>10, FwriteLeaks
  <1>11. ASSUME NEW f \in Entries, NEW loc \in Seeks, sfs_fseek(f, loc) PROVE LeakKnown
    BY <1>4, <1>11 DEF sfs_fseek, others
  <1>12. ASSUME NEW f \in Entries, NEW length \in Lengths, sfs_fread(f, length) PROVE LeakKnown
    BY <1>12, FreadLeaks
  <1> QED BY <1>2, <1>3, <1>5, <1>6, <1>7, <1>8, <1>9, <1>10, <1>11, <1>12 DEF Call, Change, Query

(* A block is lost, in no file and not free, only where a file with an      *)
(* indirect block is removed, or a write takes one block and then finds the *)
(* disk or the file full, whatever the positions; as long as mksfs(0) finds *)
(* every directory entry on the disk.                                       *)
THEOREM OnlyKnownLeaks ==
    ASSUME Overlay = "padding", Habits \subseteq {"SeekOutside"}
    PROVE  Spec /\ []EveryFileSaved => LeaksAreKnown
  <1>1. Spec => []SfsInv
    BY Inductive
  <1>2. SfsInv /\ EveryFileSaved /\ [Next]_vars => [LeakKnown]_vars
    BY CallLeaks DEF Next
  <1>3. Spec /\ []EveryFileSaved => [][LeakKnown]_vars
    BY <1>1, <1>2, PTL DEF Spec
  <1> QED BY <1>3 DEF LeaksAreKnown, LeakKnown

(* The same for a client that keeps few enough files, and for every client  *)
(* where the whole directory is saved.                                      *)
THEOREM FewFilesLeakNothingElse ==
    ASSUME Overlay = "padding", Habits \subseteq {"SeekOutside"}
    PROVE  Spec /\ []FewFiles => LeaksAreKnown
  <1>1. Spec /\ []FewFiles => []EveryFileSaved
    BY FewFilesAreSaved
  <1>2. Spec /\ []EveryFileSaved => LeaksAreKnown
    BY OnlyKnownLeaks
  <1> QED BY <1>1, <1>2, PTL

THEOREM SavedDirectoryLeaksNothingElse ==
    ASSUME Overlay = "padding", Habits \subseteq {"SeekOutside"}, SavedEntries = NUM_OF_FILES
    PROVE  Spec => LeaksAreKnown
  <1>1. SfsInv => EveryFileSaved
    BY SavedIsThere, Indices DEF InSavedPart, Occupied, Entries
  <1>2. Spec => []SfsInv
    BY Inductive
  <1>3. Spec /\ []EveryFileSaved => LeaksAreKnown
    BY OnlyKnownLeaks
  <1> QED BY <1>1, <1>2, <1>3, PTL
=============================================================================
