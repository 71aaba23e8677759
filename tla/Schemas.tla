------------------------------- MODULE Schemas -------------------------------
(***************************************************************************)
(* The mesh exchange of the feature modules and the JSON documents it uses *)
(* (module-cpp: features/sendmesh.cpp, schemas/; module-qt:                *)
(* features/sendmesh.cpp; module-python: features/meshimport.py).  An      *)
(* exporter asks an importer how it wants an asset (request), gets a       *)
(* configuration (mesh_export_schema), and sends the asset (send_to).  The *)
(* exporter is a C++ program, the importer C++ or Python.                  *)
(*                                                                         *)
(* A document is a function from keys to JSON values; JNULL is null.  An   *)
(* object has a value per field, NONE where an optional is empty.  One     *)
(* message is on its way at a time, and arrives (Handshake and             *)
(* WriteThreads have the delivery).                                        *)
(***************************************************************************)
EXTENDS Naturals, Sequences

CONSTANTS
    FieldSets,   \* which optional fields an importer fills in
    Assets,      \* what requests are about: [assetName, assetUuid]
    Parcels,     \* assets to send: send_to_schema objects
    Importers,   \* subset of {"cpp", "python"}
    MaxRounds,   \* bound of the model: requests
    NONE, JNULL

(* The tables of enumeration names; the C++ ones come first.               *)
Names ==
    [colorFormat |-> <<"None", "Vertex", "Texture">>,
     colorEncoding |-> <<"Linear", "SRGB">>,
     axisConvention |-> <<"ForceYUp_XRight_mZForward", "ForceZUp_XRight_YForward">>,
     unit |-> <<"Millimeters", "Centimeters", "Meters", "Kilometers", "Inches", "Feet", "Yards", "Miles">>,
     topology |-> <<"Triangles", "Quads">>,
     supportedFormats |-> <<"fbx", "glb", "gltf", "igs", "jt", "obj", "step", "stl", "stp", "usd",
                            "usda", "usdz", "usdc">>]
PyNames == [Names EXCEPT !.colorFormat[1] = "NoColorFormat"]

Enums == DOMAIN Names \ {"supportedFormats"}
Bools == {"allowNegativeTransforms", "allowInstances", "flattenHierarchy", "requestUv", "enableUdims"}
Options == Enums \cup Bools \cup {"supportedFormats"}
Fields == Options \cup {"assetName", "assetUuid"}

ASSUME SchemasAssumption ==
    /\ FieldSets \subseteq SUBSET Options
    /\ Importers \subseteq {"cpp", "python"}
    /\ MaxRounds \in Nat
    /\ NONE \notin BOOLEAN /\ NONE \notin Nat /\ JNULL \notin BOOLEAN
    /\ \A a \in Assets : /\ a = [assetName |-> a.assetName, assetUuid |-> a.assetUuid]
                         /\ a.assetName \notin {NONE, JNULL} /\ a.assetUuid # JNULL
    /\ \A p \in Parcels :
        p = [path |-> p.path, name |-> p.name, uuid |-> p.uuid, type |-> p.type,
             take_file_ownership |-> p.take_file_ownership]

VARIABLES
    stage,     \* step of the exchange
    asset,     \* the asset of the round
    peer,      \* the importer of the round
    wire,      \* the document on its way
    request,   \* the importer's send_mesh_config_request_schema
    reply,     \* the configuration the importer filled in
    config,    \* the exporter's mesh_export_schema
    parcel,    \* the importer's send_to_schema
    sending,   \* the parcel sent
    used,      \* history: whether config and request were used before
    rounds

exchangeVars == <<stage, asset, peer, wire, request, reply, config, parcel, sending, used, rounds>>

Empty == [f \in Fields |-> IF f = "assetName" THEN "" ELSE NONE]
NoAsset == [assetName |-> "", assetUuid |-> NONE]
NoParcel == [path |-> "", name |-> "", uuid |-> "", type |-> "", take_file_ownership |-> FALSE]

ExchangeInit ==
    /\ stage = "ready" /\ asset = NoAsset /\ peer = "cpp"
    /\ wire = <<>> /\ request = NoAsset /\ reply = Empty /\ config = Empty
    /\ parcel = NoParcel /\ sending = NoParcel
    /\ used = FALSE /\ rounds = 0

-----------------------------------------------------------------------------
(* Conversions in C++                                                      *)

RequestSerialize_NoUuid(r) == [f \in {"assetName"} |-> r[f]]

RequestSerialize(r) == [f \in {"assetName"} \cup {g \in {"assetUuid"} : r[g] # NONE} |-> r[f]]

(* asString of null is empty.                                              *)
AsString(v) == IF v = JNULL THEN "" ELSE v

(* A key that is not there leaves the optional field as it was.            *)
RequestDeserialize(r, doc) ==
    [assetName |-> IF "assetName" \in DOMAIN doc THEN AsString(doc["assetName"]) ELSE "",
     assetUuid |-> IF "assetUuid" \in DOMAIN doc THEN AsString(doc["assetUuid"]) ELSE r.assetUuid]

(* An array gets its elements one by one, so an empty one is not written.  *)
Written(o) == {f \in Fields : o[f] # NONE /\ (f = "supportedFormats" => o[f] # <<>>)}

Serialize(o) ==
    [f \in Written(o) |->
        IF f \in Enums THEN Names[f][o[f]]
        ELSE IF f = "supportedFormats" THEN [i \in DOMAIN o[f] |-> Names[f][o[f][i]]]
        ELSE o[f]]

(* Deserialize assigns assetName and assetUuid, then the formats: it asks  *)
(* the end of the array for its index (undefined by itself), empties the   *)
(* optional and asks for its value, which throws.                          *)
Throws(doc) == "supportedFormats" \in DOMAIN doc

(* getKeyFromValue dereferences end() for a string that is no name.        *)
IsName(f, s) == \E i \in DOMAIN Names[f] : Names[f][i] = s
getKeyFromValue(f, s) == CHOOSE i \in DOMAIN Names[f] : Names[f][i] = s
Undefined(doc) == ~Throws(doc) /\ \E f \in Enums \cap DOMAIN doc : ~IsName(f, doc[f])

DeserializeField_Swapped(o, f, doc) ==
    IF f \notin DOMAIN doc THEN (IF f = "assetName" THEN "" ELSE o[f])
    ELSE IF f \in Enums THEN getKeyFromValue(f, doc[f])
    ELSE IF f \in Bools
        THEN (IF f = "flattenHierarchy" /\ "allowInstances" \in DOMAIN doc
              THEN doc["allowInstances"] # JNULL /\ ~doc["allowInstances"]
              ELSE doc[f] # JNULL /\ doc[f])
    ELSE AsString(doc[f])

DeserializeField(o, f, doc) ==
    IF f \notin DOMAIN doc THEN (IF f = "assetName" THEN "" ELSE o[f])
    ELSE IF f \in Enums THEN getKeyFromValue(f, doc[f])
    ELSE IF f \in Bools THEN doc[f] # JNULL /\ doc[f]
    ELSE AsString(doc[f])

Deserialize(o, doc) ==
    [f \in Fields |->
        IF Throws(doc) /\ f \notin {"assetName", "assetUuid"}
        THEN (IF f = "supportedFormats" THEN NONE ELSE o[f])
        ELSE DeserializeField(o, f, doc)]

(* send_to_schema: every field is written, and every field is assigned, a  *)
(* default if its key is missing.                                          *)
SendToSerialize(p) ==
    [k \in {"path", "name", "uuid", "type", "take_file_ownership"} |-> p[k]]

SendToDeserialize(doc) ==
    [k \in DOMAIN NoParcel |-> IF k \in DOMAIN doc THEN doc[k] ELSE NoParcel[k]]

-----------------------------------------------------------------------------
(* Conversions in Python: MeshImportMessageSchema                          *)

(* The attributes in the order of their assignment.                        *)
PyOrder ==
    <<"assetName", "assetUuid", "supportedFormats", "colorFormat", "colorEncoding",
      "allowNegativeTransforms", "allowInstances", "flattenHierarchy", "axisConvention", "unit",
      "topology", "requestUv", "enableUdims">>

(* Enum[...] raises for a missing or unknown name.                         *)
PyFails(f, json) ==
    /\ f \in Enums
    /\ f \notin DOMAIN json \/ \A i \in DOMAIN PyNames[f] : PyNames[f][i] # json[f]

(* __init__ stops at the first attribute that fails, prints the error, and *)
(* keeps what it has; is_valid only prints.  get() gives None for what is  *)
(* missing, and only the formats are then skipped.                         *)
PyInit(json) ==
    LET reached == {i \in DOMAIN PyOrder : \A j \in 1 .. i : ~PyFails(PyOrder[j], json)}
        attrs == {PyOrder[i] : i \in reached}
    IN [f \in {g \in attrs : g = "supportedFormats" => g \in DOMAIN json} |->
            IF f \in DOMAIN json THEN json[f] ELSE JNULL]

(* The importer's program adds what it wants to the request it got.        *)
PyReply(req, wanted) ==
    PyInit([f \in DOMAIN req \cup wanted |->
        IF f \in DOMAIN req THEN req[f]
        ELSE IF f \in Enums THEN PyNames[f][1]
        ELSE IF f = "supportedFormats" THEN <<"fbx">> ELSE TRUE])

(* SendAssetMessageSchema looks for id, which nobody writes, and makes up  *)
(* an identifier instead.                                                  *)
PySendAsset(json) == [k \in DOMAIN NoParcel |-> IF k = "uuid" THEN "uuid4" ELSE json[k]]

-----------------------------------------------------------------------------
(* The exchange                                                            *)

Advance(from, to) == stage = from /\ stage' = to

SendRequest(a, importer) ==
    /\ Advance("ready", "requested")
    /\ rounds < MaxRounds /\ rounds' = rounds + 1
    /\ asset' = a /\ peer' = importer
    /\ wire' = RequestSerialize(a)
    /\ UNCHANGED <<request, reply, config, parcel, sending, used>>

(* A configuration with the first or with the last value of every field.   *)
Filled(r, wanted, last) ==
    [f \in Fields |->
        IF f \in {"assetName", "assetUuid"} THEN r[f]
        ELSE IF f \notin wanted THEN NONE
        ELSE IF f \in Enums THEN (IF last THEN Len(Names[f]) ELSE 1)
        ELSE IF f = "supportedFormats" THEN (IF last THEN <<13, 1>> ELSE <<>>)
        ELSE last]

(* The request is read into a new object, and answered.                    *)
ReplyCpp(wanted, last) ==
    /\ peer = "cpp"
    /\ Advance("requested", "replied")
    /\ request' = RequestDeserialize(NoAsset, wire)
    /\ reply' = Filled(request', wanted, last)
    /\ wire' = Serialize(reply')
    /\ UNCHANGED <<asset, peer, config, parcel, sending, used, rounds>>

ReplyPython(wanted) ==
    /\ peer = "python"
    /\ Advance("requested", "replied")
    /\ wire' = PyReply(PyInit(wire), wanted)
    /\ UNCHANGED <<asset, peer, request, reply, config, parcel, sending, used, rounds>>

(* The exporter reads the answer into a new object, or into the one of the *)
(* round before.                                                           *)
Receive(object) ==
    /\ ~Undefined(wire)
    /\ Advance("replied", IF Throws(wire) THEN "thrown" ELSE "configured")
    /\ config' = Deserialize(object, wire)
    /\ UNCHANGED <<asset, peer, wire, request, reply, parcel, sending, rounds>>

ReceiveNew == Receive(Empty) /\ used' = FALSE
ReceiveAgain == Receive(config) /\ used' = TRUE

(* The exporter is left with an arbitrary value, or dies.                  *)
ReceiveUndefined ==
    /\ Undefined(wire)
    /\ Advance("replied", "undefined")
    /\ UNCHANGED <<asset, peer, wire, request, reply, config, parcel, sending, used, rounds>>

(* The message was no JSON: the object is left alone.                      *)
ReceiveNoJson ==
    /\ Advance("replied", "ready")
    /\ UNCHANGED <<asset, peer, wire, request, reply, config, parcel, sending, used, rounds>>

SendLoad(p) ==
    /\ Advance("configured", "loading")
    /\ sending' = p
    /\ wire' = SendToSerialize(p)
    /\ UNCHANGED <<asset, peer, request, reply, config, parcel, used, rounds>>

ReceiveLoad ==
    /\ peer = "cpp"
    /\ Advance("loading", "ready")
    /\ parcel' = SendToDeserialize(wire)
    /\ UNCHANGED <<asset, peer, wire, request, reply, config, sending, used, rounds>>

(* recv_load_mesh only prints.  An importer's program makes an object of   *)
(* the parsed document, or calls from_string, which passes four arguments  *)
(* to a constructor of one and raises TypeError.                           *)
ReceiveLoadPython ==
    /\ peer = "python"
    /\ Advance("loading", "ready")
    /\ parcel' \in {PySendAsset(wire), parcel}
    /\ UNCHANGED <<asset, peer, wire, request, reply, config, sending, used, rounds>>

(* The callback that got the exception ends the exchange of the round.     *)
GiveUp ==
    /\ stage \in {"thrown", "undefined"}
    /\ stage' = "ready"
    /\ UNCHANGED <<asset, peer, wire, request, reply, config, parcel, sending, used, rounds>>

ExchangeNext ==
    \/ \E a \in Assets, importer \in Importers : SendRequest(a, importer)
    \/ \E wanted \in FieldSets, last \in BOOLEAN : ReplyCpp(wanted, last)
    \/ \E wanted \in FieldSets : ReplyPython(wanted)
    \/ ReceiveNew \/ ReceiveAgain \/ ReceiveUndefined \/ ReceiveNoJson
    \/ \E p \in Parcels : SendLoad(p)
    \/ ReceiveLoad \/ ReceiveLoadPython \/ GiveUp

ExchangeSpec == ExchangeInit /\ [][ExchangeNext]_exchangeVars

-----------------------------------------------------------------------------
(* Properties *)

\* An answer is about the asset that was asked for, whichever language wrote
\* it and however much of it could be read (sendmeshschema.h:115-118: the
\* identifier is "added here to prevent losing context"): the fields of the
\* asset are handled before anything that can fail.  A Python importer turns
\* a missing identifier into an empty one, and an object that is used again
\* keeps the old one where none is sent.
RightAsset ==
    stage \in {"configured", "thrown"} =>
        /\ config.assetName = asset.assetName
        /\ \/ config.assetUuid = asset.assetUuid
           \/ asset.assetUuid = NONE /\ (peer = "python" \/ used)

\* What a C++ program makes of another one's documents: a configuration read
\* into a new object has every field but supportedFormats as it was filled in,
\* and a parcel arrives as it was sent, also in an object that held another
\* one (sendmeshschema.cpp:85-259, sendtoschema.cpp:26-59).  supportedFormats
\* is never read back: an answer that can be read had no formats in it, and
\* the field stays empty.  Nothing is said of parcels to Python importers,
\* whose reader loses the identifier or raises (meshimport.py:189, :205).
Understood ==
    /\ stage = "configured" /\ peer = "cpp" /\ ~used =>
        /\ \A f \in Fields \ {"supportedFormats"} : config[f] = reply[f]
        /\ reply["supportedFormats"] \in {NONE, <<>>} /\ config["supportedFormats"] = NONE
    /\ stage = "ready" /\ peer = "cpp" /\ wire = sending => parcel = sending

\* sendmeshschema.h:40: "Functions to convert take from this class to Jsoncpp
\* and vice versa": what a C++ program wrote, a C++ program can read.
ReadsItsOwn == ~(stage = "thrown" /\ peer = "cpp")

=============================================================================
