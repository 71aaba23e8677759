---------------------------- MODULE MCUintQueue -----------------------------
(* Instances of UintQueue for TLC.                                         *)
EXTENDS UintQueue, TLC

ThreadSymmetry == Permutations(Threads)
=============================================================================
