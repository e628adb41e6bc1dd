--------------------------- MODULE FuseInvariants ---------------------------
(***************************************************************************)
(* The invariant of the FUSE server: what a handler that runs knows of the *)
(* descriptors, of the cursor of sfs_getnextfilename and of its file.      *)
(* Together with SfsInv it is inductive.                                   *)
(***************************************************************************)
EXTENDS Fuse, SfsInvariants

Holding == handler.at \in {"seek", "transfer", "close"}
Listing == handler.at = "list"

HandlerOK ==
    \/ handler = NoHandler
    \/ handler.op = "readdir" /\ Listing
    \/ handler.op = "truncate" /\ handler.at = "reopen" /\ handler.file \in Names
    \/ handler.op \in {"create", "open", "truncate"} /\ handler.at = "close"
    \/ handler.op \in {"read", "write"} /\ Holding

(* The descriptor of the handler is the only one that is open.              *)
OneDescriptor ==
    IF Holding THEN /\ handler.fd \in Entries
                    /\ \A f \in Entries : fdt[f].occupied <=> f = handler.fd
    ELSE \A f \in Entries : ~fdt[f].occupied

(* The cursor starts each listing at the first entry, and behind it are the *)
(* files that have been listed.  A name in an entry that is not in use      *)
(* would be listed too, if it were also the name of a file.                 *)
ListedSoFar ==
    IF Listing THEN /\ ToSet(listed) = {root_dir_table[i].file_name :
                                          i \in {j \in Occupied : j < curr_file_index}}
                    /\ Occupied # {}
    ELSE curr_file_index = 0

Listings ==
    /\ listed \in Seq(Names) /\ IsInjective(listed)
    /\ \A i \in Entries \ Occupied : root_dir_table[i].file_name = NoName
    /\ undefined = "no" => ListedSoFar

(* fuse_write writes where it has just seeked to; the file that             *)
(* fuse_truncate creates again is not there.                                *)
Prepared ==
    /\ handler.at = "transfer" =>
          ret.call = "sfs_fseek" /\ fdt[handler.fd].read_write_ptr \in Seeks
    /\ handler.at = "reopen" => ~does_file_exist(handler.file)

FuseInv ==
    /\ HandlerOK /\ Listings /\ ListingComplete
    /\ undefined = "no" => OneDescriptor /\ Prepared
=============================================================================
