--------------------------- MODULE SfsInvariants ---------------------------
(***************************************************************************)
(* The inductive invariants of sfs_api.c: SfsInv for a client that may     *)
(* seek anywhere, CarefulInv for one that stays inside its files.          *)
(***************************************************************************)
EXTENDS Sfs

(* The blocks of an i-node, when the indirect blocks contain ind.           *)
Index(node, ind) == IF node.indirect_ptr \in DOMAIN ind
                    THEN ind[node.indirect_ptr] ELSE [k \in IndexSlots |-> None]
Ptr(node, ind, k) == IF k < DIRECT_PTR_NUM THEN node.direct_ptr[k]
                     ELSE Index(node, ind)[k - DIRECT_PTR_NUM]
Used(node, ind) == ({Ptr(node, ind, k) : k \in Slots} \cup {node.indirect_ptr}) \ {None}

(* The indirect block has been written; no block is used twice.             *)
WellFormed(node, ind) ==
    /\ node.indirect_ptr # None => node.indirect_ptr \in DOMAIN ind
    /\ \A j, k \in Slots : Ptr(node, ind, j) # None =>
          /\ Ptr(node, ind, j) # node.indirect_ptr
          /\ Ptr(node, ind, j) = Ptr(node, ind, k) => j = k

(* The pointers that are set are those of the blocks the size needs.        *)
Offset(k) == k * BLOCK_SIZE
Mapped(node, ind) ==
    /\ node.size \in 0 .. Offset(DIRECT_PTR_NUM + POINTERS)
    /\ \A k \in Slots : Ptr(node, ind, k) # None <=> Offset(k) < node.size

(* The i-nodes that the directory gives to files.                           *)
Occupied == {i \in Entries : root_dir_table[i].occupied}
FileNodes == {root_dir_table[i].i_node_ptr : i \in Occupied}

Directory ==
    /\ \A i \in Occupied :
          /\ root_dir_table[i].file_name \in Names
          /\ root_dir_table[i].i_node_ptr \in INodes \ {0}
          /\ i_node_table[root_dir_table[i].i_node_ptr].occupied
          /\ \A j \in Entries :
                root_dir_table[j].file_name = root_dir_table[i].file_name => i <= j
    /\ \A i \in Entries \ Occupied : root_dir_table[i].i_node_ptr \in {None, 0}
    /\ \A i, j \in Occupied :
          root_dir_table[i].i_node_ptr = root_dir_table[j].i_node_ptr => i = j

DiskWorks == DiskMirrors /\ disk_ready /\ indirect \in [DOMAIN indirect -> Pointers]

INodesClean == FreeINodesClean /\ i_node_table[0] = RootINode

Storage ==
    /\ \A x \in FileNodes :
          /\ i_node_table[x].size \in Nat
          /\ WellFormed(i_node_table[x], indirect)
          /\ Used(i_node_table[x], indirect) \cap free_bitmap = {}
    /\ \A x, y \in FileNodes :
          x # y => Used(i_node_table[x], indirect) \cap Used(i_node_table[y], indirect) = {}

OpenFiles ==
    \A f, g \in Entries : fdt[f].occupied =>
        /\ fdt[f].i_node_ptr \in FileNodes
        /\ fdt[g].occupied /\ fdt[f].i_node_ptr = fdt[g].i_node_ptr => f = g

SfsInv == TypeOK /\ Directory /\ DiskWorks /\ INodesClean /\ Storage /\ OpenFiles

Careful ==
    /\ undefined # "bad_block"
    /\ \A x \in FileNodes : Mapped(i_node_table[x], indirect)
    /\ \A f \in Entries : fdt[f].occupied =>
          fdt[f].read_write_ptr \in 0 .. i_node_table[fdt[f].i_node_ptr].size

CarefulInv == SfsInv /\ Careful
-----------------------------------------------------------------------------
(* What is left of SfsInv when a removal was cut short: the i-nodes X may   *)
(* be free already, or have blocks that are.                                *)
DirectoryBut(X) ==
    /\ \A i \in Occupied :
          /\ root_dir_table[i].file_name \in Names
          /\ root_dir_table[i].i_node_ptr \in INodes \ {0}
          /\ \/ i_node_table[root_dir_table[i].i_node_ptr].occupied
             \/ root_dir_table[i].i_node_ptr \in X
          /\ \A j \in Entries :
                root_dir_table[j].file_name = root_dir_table[i].file_name => i <= j
    /\ \A i \in Entries \ Occupied : root_dir_table[i].i_node_ptr \in {None, 0}
    /\ \A i, j \in Occupied :
          root_dir_table[i].i_node_ptr = root_dir_table[j].i_node_ptr => i = j

StorageBut(X) ==
    /\ \A x \in FileNodes :
          /\ i_node_table[x].size \in Nat \/ x \in X
          /\ WellFormed(i_node_table[x], indirect)
          /\ Used(i_node_table[x], indirect) \cap free_bitmap = {} \/ x \in X
    /\ \A x, y \in FileNodes :
          x # y => Used(i_node_table[x], indirect) \cap Used(i_node_table[y], indirect) = {}

InvBut(X) ==
    TypeOK /\ DirectoryBut(X) /\ DiskWorks /\ INodesClean /\ StorageBut(X) /\ OpenFiles
=============================================================================
