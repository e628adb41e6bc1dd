------------------------------- MODULE MCSut -------------------------------
(* Instances of Sut for TLC: tasks are model values, interchangeable in     *)
(* every safety property.                                                   *)
EXTENDS SutFcfs, TLC

TaskSymmetry == Permutations(Tasks)
=============================================================================
