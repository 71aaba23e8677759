--------------------------- MODULE MCWriteThreads ---------------------------
(* Instances of WriteThreads for TLC.                                      *)
EXTENDS WriteThreads
=============================================================================
