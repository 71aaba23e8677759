--------------------------- MODULE MCReadThreads ----------------------------
(* Instances of ReadThreads for TLC.                                       *)
EXTENDS ReadThreads, TLC

ReaderSymmetry == Permutations(Readers)
=============================================================================
