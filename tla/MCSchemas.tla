------------------------------ MODULE MCSchemas -----------------------------
(* Instances of Schemas for TLC: nothing, one field or everything filled   *)
(* in, and everything but the formats, which no C++ program can read.      *)
EXTENDS Schemas

MCFieldSets == {{}, Options, Options \ {"supportedFormats"}} \cup {{f} : f \in Options}
MCAssets == [assetName : {"a", "b"}, assetUuid : {"u", NONE}]
MCParcels ==
    {[path |-> "p", name |-> "a", uuid |-> "u", type |-> "mesh", take_file_ownership |-> TRUE],
     [path |-> "q", name |-> "", uuid |-> "", type |-> "mesh", take_file_ownership |-> FALSE]}
=============================================================================
