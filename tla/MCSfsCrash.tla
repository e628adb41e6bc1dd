----------------------------- MODULE MCSfsCrash -----------------------------
(* Instances of SfsCrash for TLC.                                           *)
EXTENDS SfsCrash, TLC

(* The state without the last result, which no action reads.                *)
Memory == <<fdt, others, interrupted, torn>>

NameSymmetry == Permutations(Names \ LongNames)
=============================================================================
