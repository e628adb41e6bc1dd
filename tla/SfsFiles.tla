------------------------------ MODULE SfsFiles ------------------------------
(* sfs_api.c implements the file system of module Files, as long as its     *)
(* behaviour is defined.                                                    *)
EXTENDS Sfs

SizeOf(n) == IF does_file_exist(n) THEN end_of_file(n) ELSE -1
PositionOf(n) == IF OpenFd(n) = None THEN -1 ELSE fdt[OpenFd(n)].read_write_ptr

(* The number of a descriptor means nothing to the caller.                  *)
Visible(r) == IF r.call = "sfs_fopen" /\ r.value # -1 THEN [r EXCEPT !.value = 0] ELSE r

F == INSTANCE Files WITH
        size     <- [n \in Names |-> SizeOf(n)],
        position <- [n \in Names |-> PositionOf(n)],
        ret      <- Visible(ret)

(* Every call of the API does what Files says and returns what it says:     *)
(* reads deliver every byte up to the end of the file across direct and     *)
(* indirect blocks, a write the disk cut short reports what it wrote,       *)
(* sfs_remove takes the file away, and mksfs(0) brings all files back.      *)
ImplementsFiles == F!FilesSpec
=============================================================================
