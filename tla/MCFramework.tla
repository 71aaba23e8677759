----------------------------- MODULE MCFramework ----------------------------
(* Instances of Framework for TLC.  Two objects of class "mesh" compete    *)
(* for one instance and one set of message types.                          *)
EXTENDS Framework, TLC

CONSTANTS s1, m1, m2

KindsOfApps == (s1 :> "system") @@ (m1 :> "mesh") @@ (m2 :> "mesh")

Symmetry == Permutations(Callers) \cup Permutations(Dispatchers) \cup Permutations({m1, m2})
=============================================================================
