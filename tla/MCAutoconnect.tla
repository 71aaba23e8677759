---------------------------- MODULE MCAutoconnect ---------------------------
(* Instances of Autoconnect for TLC.                                       *)
EXTENDS Autoconnect, TLC

Symmetry == Permutations(Procs) \cup Permutations(Ports)
=============================================================================
