------------------------------- MODULE Volume -------------------------------
(***************************************************************************)
(* What a mounted file system does for the programs that use it, one step  *)
(* for each request of the kernel: only create, write, truncate and unlink *)
(* change a file, and when the server process ends nothing is lost but a   *)
(* file it was truncating.                                                 *)
(***************************************************************************)
EXTENDS Integers

CONSTANTS Names, NoName,
          Lengths,            \* of requests
          Positions           \* their offsets, as ints

VARIABLES size,               \* of each file, or -1
          truncating          \* the file being truncated, or NoName

volumeVars == <<size, truncating>>

VolumeInit == size = [n \in Names |-> -1] /\ truncating = NoName

Create(n) ==
    /\ size[n] = -1
    /\ size' = [size EXCEPT ![n] = 0]
    /\ UNCHANGED truncating

(* A full disk, or a hole in the file, may cut it short.  From 2 GiB on it  *)
(* is the position that the offset's lower 32 bits give.                    *)
Write(n) ==
    /\ size[n] >= 0
    /\ \E offset \in Positions, length \in Lengths : \E written \in 1 .. length :
          size' = [size EXCEPT ![n] = IF @ > offset + written THEN @ ELSE offset + written]
    /\ UNCHANGED truncating

Unlink(n) ==
    /\ size[n] >= 0
    /\ size' = [size EXCEPT ![n] = -1]
    /\ UNCHANGED truncating

(* Whatever the size asked for.                                             *)
Truncate(n) ==
    /\ size[n] >= 0
    /\ size' = [size EXCEPT ![n] = 0]
    /\ truncating' = n

Truncated == truncating' = NoName /\ UNCHANGED size

ServerEnds ==
    /\ truncating # NoName
    /\ size' = [size EXCEPT ![truncating] = -1]
    /\ truncating' = NoName

VolumeNext ==
    \/ \E n \in Names : Create(n) \/ Write(n) \/ Unlink(n) \/ Truncate(n)
    \/ Truncated \/ ServerEnds

VolumeSpec == VolumeInit /\ [][VolumeNext]_volumeVars
=============================================================================
