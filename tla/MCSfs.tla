------------------------------- MODULE MCSfs -------------------------------
(* Instances of Sfs for TLC: names are model values, interchangeable in     *)
(* every safety property.                                                   *)
EXTENDS SfsFiles, SfsInvariants, TLC

(* The state without the last result, which no action reads: TLC explores   *)
(* each state once, and still judges every step with its result.  (A call   *)
(* that repeats the result and changes nothing a property sees is a stutter *)
(* and passes as one.)                                                      *)
Memory == <<fdt, others>>

NameSymmetry == Permutations(Names \ LongNames)
=============================================================================
