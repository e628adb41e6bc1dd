------------------------------- MODULE MCFuse -------------------------------
(* Instances of Fuse for TLC.                                               *)
EXTENDS FuseInvariants
=============================================================================
