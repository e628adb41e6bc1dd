------------------------------- MODULE Files -------------------------------
(***************************************************************************)
(* What a file system promises the caller of sfs_api.h: files are named    *)
(* byte sequences of a known length, opened at their end; a read returns   *)
(* all the bytes there are, a write extends the file by what it reports to *)
(* have written, a removed file is gone, and what was written survives the *)
(* process.  No blocks, i-nodes, descriptor numbers or disk.               *)
(***************************************************************************)
EXTENDS Integers

CONSTANTS Names,
          LongNames,   \* names that are too long for a file
          Lengths      \* lengths of reads and writes

VARIABLES
    size,       \* of each file, or -1 if there is no such file
    position,   \* of the open descriptor of each file, or -1 if it has none
    ret         \* the last call and its result

fileVars == <<size, position, ret>>

exists(n) == size[n] >= 0
isOpen(n) == position[n] >= 0
Returns(call, value) == ret'.call = call /\ ret'.value = value

FilesInit ==
    /\ size = [n \in Names |-> -1]
    /\ position = [n \in Names |-> -1]
    /\ ret = [call |-> "mksfs", value |-> 1]

RefuseName(n) ==
    /\ n \in LongNames
    /\ Returns("sfs_fopen", -1)
    /\ UNCHANGED <<size, position>>

(* Opening returns the descriptor (here: 0), the same while the file stays  *)
(* open.                                                                    *)
Open(n) ==
    /\ n \notin LongNames
    /\ Returns("sfs_fopen", 0)
    /\ IF isOpen(n) THEN UNCHANGED <<size, position>>
       ELSE /\ size' = [size EXCEPT ![n] = IF exists(n) THEN @ ELSE 0]
            /\ position' = [position EXCEPT ![n] = size'[n]]

(* 0, as the code returns and its tests expect; the comment of sfs_fclose   *)
(* says 1.                                                                  *)
Close(n) ==
    /\ Returns("sfs_fclose", 0)
    /\ isOpen(n)
    /\ position' = [position EXCEPT ![n] = -1]
    /\ UNCHANGED size

(* The disk may be full after any number of bytes.                          *)
Write(n, length) ==
    \E written \in 0 .. length :
        /\ Returns("sfs_fwrite", written)
        /\ isOpen(n)
        /\ position' = [position EXCEPT ![n] = @ + written]
        /\ size' = [size EXCEPT ![n] = IF @ > position'[n] THEN @ ELSE position'[n]]

Read(n, length) ==
    LET rest == size[n] - position[n]
        done == IF length < rest THEN length ELSE rest IN
    /\ Returns("sfs_fread", done)
    /\ isOpen(n)
    /\ position' = [position EXCEPT ![n] = @ + done]
    /\ UNCHANGED size

Seek(n) ==
    /\ Returns("sfs_fseek", 0)
    /\ isOpen(n)
    /\ \E loc \in 0 .. size[n] : position' = [position EXCEPT ![n] = loc]
    /\ UNCHANGED size

(* Calls with a descriptor that is not open change nothing.                 *)
Refused ==
    /\ \E call \in {"sfs_fclose", "sfs_fwrite", "sfs_fread", "sfs_fseek"} : Returns(call, -1)
    /\ UNCHANGED <<size, position>>

Remove(n) ==
    /\ Returns("sfs_remove", IF exists(n) THEN 1 ELSE -1)
    /\ size' = [size EXCEPT ![n] = -1]
    /\ position' = [position EXCEPT ![n] = -1]

GetSize(n) ==
    /\ Returns("sfs_getfilesize", size[n])
    /\ UNCHANGED <<size, position>>

(* A name that is listed exists; the end of the listing may be reported at  *)
(* any time.                                                                *)
List ==
    /\ \E n \in Names \cup {0} : Returns("sfs_getnextfilename", n) /\ (n = 0 \/ exists(n))
    /\ UNCHANGED <<size, position>>

Reopen ==
    /\ Returns("mksfs", 0)
    /\ position' = [n \in Names |-> -1]
    /\ UNCHANGED size

Reformat ==
    /\ Returns("mksfs", 1)
    /\ size' = [n \in Names |-> -1]
    /\ position' = [n \in Names |-> -1]

FilesNext ==
    \/ \E n \in Names :
          \/ RefuseName(n) \/ Open(n) \/ Close(n) \/ Seek(n) \/ Remove(n) \/ GetSize(n)
          \/ \E length \in Lengths : Write(n, length) \/ Read(n, length)
    \/ Refused \/ List \/ Reopen \/ Reformat

FilesSpec == FilesInit /\ [][FilesNext]_fileVars
=============================================================================
