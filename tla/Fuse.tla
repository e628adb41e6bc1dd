-------------------------------- MODULE Fuse --------------------------------
(***************************************************************************)
(* The FUSE server, fuse_wrap_old.c and fuse_wrap_new.c over sfs_api.c.    *)
(* The two differ in main: the old one opens the file system that is there,*)
(* the new one formats it, so that its behaviours are those without        *)
(* Unmount.  One request is handled at a time: sfs_api.c has no support    *)
(* for concurrent access.  A handler is a sequence of calls of sfs_api.h;  *)
(* the process may end between any two of them.                            *)
(*                                                                         *)
(* The kernel looks a file up before it sends a request about it; offsets  *)
(* may lie behind the end of the file, and behind 2 GiB.  A path that      *)
(* sfs_fopen finds too long does not even fit into the handlers' filename, *)
(* which is shorter: there are none such here.                             *)
(***************************************************************************)
EXTENDS Sfs, Sequences, SequencesExt

CONSTANT Offsets     \* bound: offsets of reads and writes

(* sfs_fseek takes an int: of an off_t the lower 32 bits arrive.            *)
AsInt(offset) == ((offset + IntLimit) % (2 * IntLimit)) - IntLimit
Positions == {AsInt(offset) : offset \in Offsets}

(* 0, the result of sfs_getnextfilename behind the last file, is no name.   *)
ASSUME FuseAssumption ==
    /\ 0 \notin Names /\ LongNames = {}
    /\ Offsets \subseteq Nat /\ Seeks = Positions

VARIABLES
    handler,     \* the handler that runs, its file, its next call, its fd
    listed       \* the names the last fuse_readdir passed to filler

fuseVars == <<vars, handler, listed>>

NoHandler == [op |-> "none", file |-> NoName, at |-> "done", fd |-> None]
Idle == handler.op = "none"

FuseInit == Init /\ handler = NoHandler /\ listed = <<>>

(* After the call just made, the handler goes on at the given place.        *)
Continue(op, name, at, fd) ==
    handler' = IF at = "done" THEN NoHandler
               ELSE [op |-> op, file |-> name, at |-> at, fd |-> fd]
GoOn(at) == Continue(handler.op, handler.file, at, handler.fd)

-----------------------------------------------------------------------------
fuse_getattr(name) ==
    Idle /\ sfs_getfilesize(name) /\ UNCHANGED <<handler, listed>>

NextName ==
    /\ sfs_getnextfilename
    /\ Continue("readdir", NoName, IF ret'.value = 0 THEN "done" ELSE "list", None)

fuse_readdir == /\ Idle /\ NextName
                /\ listed' = IF ret'.value = 0 THEN <<>> ELSE <<ret'.value>>
ListMore     == /\ handler.at = "list" /\ NextName
                /\ listed' = IF ret'.value = 0 THEN listed ELSE Append(listed, ret'.value)

fuse_unlink(name) ==
    /\ Idle /\ does_file_exist(name)
    /\ sfs_remove(name)
    /\ UNCHANGED <<handler, listed>>

(* fuse_open and fuse_create close the file at once, fuse_read and          *)
(* fuse_write seek in it first.  All but fuse_create and fuse_truncate ask  *)
(* whether it was opened.                                                   *)
OpenFor(op, name, at) ==
    /\ sfs_fopen(name)
    /\ LET failed == ret'.value = -1 /\ op \notin {"create", "truncate"} IN
       Continue(op, name, IF failed THEN "done" ELSE at, ret'.value)
    /\ UNCHANGED listed

fuse_create(name) == Idle /\ ~does_file_exist(name) /\ OpenFor("create", name, "close")
fuse_open(name)   == Idle /\ does_file_exist(name) /\ OpenFor("open", name, "close")
fuse_read(name)   == Idle /\ does_file_exist(name) /\ OpenFor("read", name, "seek")
fuse_write(name)  == Idle /\ does_file_exist(name) /\ OpenFor("write", name, "seek")

SeekOffset(offset) ==
    /\ handler.at = "seek"
    /\ sfs_fseek(handler.fd, AsInt(offset))
    /\ GoOn(IF ret'.value = -1 THEN "done" ELSE "transfer")
    /\ UNCHANGED listed

CloseUnlessEmpty(done) == IF done <= 0 THEN "done" ELSE "close"   \* mutant
SeekAgain(done)        == IF done = 0 THEN "seek" ELSE "close"    \* mutant
AfterTransfer(done)    == IF done = -1 THEN "done" ELSE "close"

ReadOrWrite(length) ==
    /\ handler.at = "transfer"
    /\ IF handler.op = "read" THEN sfs_fread(handler.fd, length)
       ELSE sfs_fwrite(handler.fd, length)
    /\ GoOn(AfterTransfer(ret'.value))
    /\ UNCHANGED listed

CloseFile ==
    /\ handler.at = "close"
    /\ sfs_fclose(handler.fd)
    /\ GoOn("done")
    /\ UNCHANGED listed

(* The file is removed and created again.                                   *)
fuse_truncate(name) ==
    /\ Idle /\ does_file_exist(name)
    /\ sfs_remove(name)
    /\ Continue("truncate", name, "reopen", None)
    /\ UNCHANGED listed
Recreate == handler.at = "reopen" /\ OpenFor("truncate", handler.file, "close")

(* The process ends, perhaps in a handler, and the old main starts again.   *)
Unmount == Restart /\ handler' = NoHandler /\ listed' = <<>>

-----------------------------------------------------------------------------
Request == \/ fuse_readdir
           \/ \E name \in Names : \/ fuse_getattr(name) \/ fuse_unlink(name)
                                  \/ fuse_create(name) \/ fuse_open(name)
                                  \/ fuse_read(name) \/ fuse_write(name)
                                  \/ fuse_truncate(name)
HandlerStep == \/ ListMore \/ CloseFile \/ Recreate
               \/ \E offset \in Offsets : SeekOffset(offset)
               \/ \E length \in Lengths : ReadOrWrite(length)

FuseNext == \/ undefined = "no" /\ (Request \/ HandlerStep \/ Unmount)
            \/ undefined # "no" /\ UNCHANGED fuseVars

(* The server goes on with the request it handles: weak fairness of         *)
(* HandlerStep, which is enabled just when Busy (written out because TLC    *)
(* is slow to evaluate ENABLED).                                            *)
Busy   == ~Idle /\ undefined = "no"
Served == Busy /\ <<handler, listed>>' # <<handler, listed>> /\ ret'.call # "mksfs"

FuseSpec == /\ FuseInit /\ [][FuseNext]_fuseVars
            /\ <>[]Busy => []<><<Served>>_fuseVars

-----------------------------------------------------------------------------
(* Between requests no descriptor is open, whatever happened in the         *)
(* handlers: fdt never fills up.                                            *)
NoDescriptorLeft == Idle /\ undefined = "no" => \A f \in Entries : ~fdt[f].occupied

(* What fuse_readdir has listed when it returns are the files, each once:   *)
(* the cursor of sfs_getnextfilename, which no call resets, is back at the  *)
(* start each time.                                                         *)
ListingComplete ==
    Idle /\ ret.call = "sfs_getnextfilename" => ToSet(listed) = Files /\ IsInjective(listed)

(* Every handler returns; fuse_readdir does not list for ever.              *)
HandlersReturn == Busy ~> ~Busy

(* While fuse_truncate has removed the file and not created it again, the   *)
(* file is there and empty for everyone who asks.                           *)
BeingTruncated == IF handler.at = "reopen" THEN handler.file ELSE NoName
VolumeSize(n) == IF n = BeingTruncated THEN 0
                 ELSE IF does_file_exist(n) THEN end_of_file(n) ELSE -1

V == INSTANCE Volume WITH size <- [n \in Names |-> VolumeSize(n)],
                          truncating <- BeingTruncated

(* Every request does what Volume says in one step, and a restart between   *)
(* the calls of a handler loses at most the file that is being truncated.   *)
ImplementsVolume == V!VolumeSpec
=============================================================================
