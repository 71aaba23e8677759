--------------------------- MODULE MCLockedQueue ----------------------------
(* Instances of LockedQueue for TLC.                                       *)
EXTENDS LockedQueue
=============================================================================
