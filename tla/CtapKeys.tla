------------------------------ MODULE CtapKeys ------------------------------
(***************************************************************************)
(* encode_cbor and decode_cbor: the root map of a CTAP2 message leaves     *)
(* serde with text keys, gets integer labels by message type, is put in    *)
(* canonical order, and comes back the same way.  A value is its field's   *)
(* name (the value itself is opaque to this code), except the options of   *)
(* GetInfo and the parameters of credential management, whose nested maps  *)
(* are converted too.  A key is a pair: a label and "", or 0 and a text.   *)
(***************************************************************************)
EXTENDS Integers, Sequences, Functions, TLC

CONSTANTS
  None,
  Types,       \* the message types exchanged
  ReadBack,    \* those some part of the repository decodes with decode_cbor
  MaxForeign   \* bound: liberties a foreign platform takes with one message

VARIABLES
  sent,        \* the message encoded: its type and its fields' values
  wire,        \* the root map: a sequence of keys with values
  got,         \* what decode_cbor returned: the fields, or an error
  liberties,   \* liberties taken so far
  dropped      \* fields a foreign platform left out, relying on their default

vars == <<sent, wire, got, liberties, dropped>>

Num(n) == <<n, "">>
Text(s) == <<0, s>>

----------------------------------------------------------------------------
(* The structs: fields in serde's order; those that may be absent from the *)
(* map; those decoding insists on.                                         *)

Struct(fields, maybe, needed) == [fields |-> fields, maybe |-> maybe, needed |-> needed]

MakeCredentialRequest ==
  Struct(<<"clientDataHash", "rp", "user", "pubKeyCredParams", "excludeList", "extensions",
           "options", "pinUvAuthParam", "pinUvAuthProtocol", "enterpriseAttestation">>,
         {"extensions", "pinUvAuthParam", "pinUvAuthProtocol", "enterpriseAttestation"},
         {"clientDataHash", "rp", "user", "pubKeyCredParams"})

GetAssertionRequest ==
  Struct(<<"rpId", "allowList", "clientDataHash", "extensions", "options", "pinUvAuthParam",
           "pinUvAuthProtocol", "uv">>,
         {"extensions", "pinUvAuthParam", "pinUvAuthProtocol", "uv"}, {"rpId", "clientDataHash"})

MakeCredentialResponse ==
  Struct(<<"fmt", "authData", "attStmt", "extensions">>, {"extensions"}, {"fmt", "authData", "attStmt"})

GetAssertionResponse ==
  Struct(<<"credential", "authData", "signature", "user", "numberOfCredentials", "extensions">>,
         {"credential", "user", "numberOfCredentials", "extensions"}, {"authData", "signature"})

GetInfoResponse ==
  Struct(<<"versions", "extensions", "aaguid", "options", "pinUvAuthProtocols", "max_msg_size",
           "max_cred_blob_length", "max_credential_id_length", "max_credential_count",
           "firmware_version", "algorithms", "security", "maxLargeBlobDataSize">>,
         {"security", "maxLargeBlobDataSize"},
         {"versions", "extensions", "aaguid", "options", "max_cred_blob_length",
          "max_credential_id_length", "max_credential_count", "firmware_version", "algorithms"})

BioEnrollRequest == Struct(<<"subCommand", "subCommandParams">>, {"subCommandParams"}, {"subCommand"})
BioEnrollResponse ==
  Struct(<<"fingerprintKind", "maxEnrollments">>, {}, {"fingerprintKind", "maxEnrollments"})

EnumerateRPsResponse == Struct(<<"rp", "rpHash", "totalRPs">>, {}, {"rp", "rpHash", "totalRPs"})

CredentialManagementRequest ==
  Struct(<<"subCommand", "subCommandParams", "pinUvAuthProtocol", "pinUvAuthParam">>,
         {"subCommandParams", "pinUvAuthProtocol", "pinUvAuthParam"}, {"subCommand"})

CredsMetadataResponse ==
  Struct(<<"existingResidentCredentialsCount", "maxPossibleRemainingResidentCredentialsCount">>, {},
         {"existingResidentCredentialsCount", "maxPossibleRemainingResidentCredentialsCount"})
EnumerateRpsEntryResponse ==
  Struct(<<"rp", "rpIDHash", "totalRPs">>, {}, {"rp", "rpIDHash", "totalRPs"})
EnumerateCredentialsEntryResponse ==
  Struct(<<"user", "credentialId", "publicKey", "totalCredentials", "credProtect", "largeBlobKey">>,
         {"credProtect", "largeBlobKey"}, {"user", "credentialId", "publicKey", "totalCredentials"})

LargeBlobsRequest ==
  Struct(<<"offset", "get", "set", "length", "pinUvAuthParam", "pinUvAuthProtocol">>,
         {"get", "set", "length", "pinUvAuthParam", "pinUvAuthProtocol"}, {"offset"})

StructOf ==
  [MakeCredentialRequest |-> MakeCredentialRequest, GetAssertionRequest |-> GetAssertionRequest,
   MakeCredentialResponse |-> MakeCredentialResponse, GetAssertionResponse |-> GetAssertionResponse,
   GetInfoResponse |-> GetInfoResponse, BioEnrollRequest |-> BioEnrollRequest,
   BioEnrollResponse |-> BioEnrollResponse, EnumerateRPsResponse |-> EnumerateRPsResponse,
   CredentialManagementRequest |-> CredentialManagementRequest,
   CredsMetadataResponse |-> CredsMetadataResponse,
   EnumerateRpsEntryResponse |-> EnumerateRpsEntryResponse,
   EnumerateCredentialsEntryResponse |-> EnumerateCredentialsEntryResponse,
   LargeBlobsRequest |-> LargeBlobsRequest]

Fields(type) == Range(StructOf[type].fields)

----------------------------------------------------------------------------
(* The labels. *)

\* The labels of a name that its message type does not settle.
ctap_key_to_int ==
  [clientDataHash |-> 1, rp |-> 2, user |-> 3, pubKeyCredParams |-> 4, excludeList |-> 5,
   extensions |-> 6, options |-> 7, pinUvAuthParam |-> 8, pinUvAuthProtocol |-> 9,
   enterpriseAttestation |-> 10, rpId |-> 1, allowList |-> 3, credential |-> 1, authData |-> 2,
   signature |-> 3, numberOfCredentials |-> 5, versions |-> 1, aaguid |-> 3, maxMsgSize |-> 5,
   pinUvAuthProtocols |-> 6, algorithms |-> 10, fmt |-> 1, attStmt |-> 3, subCommandParams |-> 3]

\* The names of each type by label, as decoding has them.
Table ==
  [MakeCredentialRequest |->
     <<"clientDataHash", "rp", "user", "pubKeyCredParams", "excludeList", "extensions", "options",
       "pinUvAuthParam", "pinUvAuthProtocol", "enterpriseAttestation">>,
   GetAssertionRequest |->
     <<"rpId", "clientDataHash", "allowList", "extensions", "options", "pinUvAuthParam",
       "pinUvAuthProtocol">>,
   MakeCredentialResponse |-> <<"fmt", "authData", "attStmt", "extensions">>,
   GetAssertionResponse |->
     <<"credential", "authData", "signature", "user", "numberOfCredentials", "extensions">>,
   GetInfoResponse |->
     <<"versions", "extensions", "aaguid", "options", "maxMsgSize", "pinUvAuthProtocols",
       "max_credential_count", "max_credential_id_length", "", "algorithms",
       "maxLargeBlobDataSize", "", "", "firmware_version", "max_cred_blob_length">>,
   BioEnrollRequest |-> <<"", "subCommand", "subCommandParams">>,
   BioEnrollResponse |-> <<"", "fingerprintKind", "maxEnrollments">>,
   EnumerateRPsResponse |-> <<"rp", "rpHash", "totalRPs">>,
   CredentialManagementRequest |->
     <<"subCommand", "subCommandParams", "pinUvAuthProtocol", "pinUvAuthParam">>,
   CredsMetadataResponse |->
     <<"existingResidentCredentialsCount", "maxPossibleRemainingResidentCredentialsCount">>,
   EnumerateRpsEntryResponse |-> <<"", "", "rp", "rpIDHash", "totalRPs">>,
   EnumerateCredentialsEntryResponse |->
     <<"", "", "", "", "", "user", "credentialId", "publicKey", "totalCredentials", "credProtect",
       "largeBlobKey">>,
   LargeBlobsRequest |-> <<>>]

\* Encoding settles these names by type and leaves the others to ctap_key_to_int.  The
\* labels it settles are the ones of the table, except in two messages.
Settled(type) ==
  CASE type = "MakeCredentialRequest" -> {}
    [] type = "MakeCredentialResponse" -> {"fmt"}
    [] type = "GetAssertionResponse" -> {"credential", "signature", "user"}
    [] type = "GetInfoResponse" -> Fields(type) \ {"pinUvAuthProtocols", "algorithms", "security"}
    [] type = "GetAssertionRequest" -> Fields(type) \ {"uv"}
    [] type = "LargeBlobsRequest" -> {}
    [] OTHER -> Fields(type)

LabelInTable(type, name) ==
  IF type = "GetInfoResponse" /\ name = "max_msg_size" THEN 5
  ELSE CHOOSE n \in DOMAIN Table[type] : Table[type][n] = name

Label(type, name) ==
  IF name \in Settled(type) THEN Num(LabelInTable(type, name))
  ELSE IF name \in DOMAIN ctap_key_to_int THEN Num(ctap_key_to_int[name]) ELSE Text(name)

\* Mutant: a label past the table is taken for its last entry.
Name_mutant(type, key) ==
  LET table == Table[type]
      n == IF key[1] > Len(table) THEN Len(table) ELSE key[1]
  IN  IF n > 0 /\ table[n] # "" THEN Text(table[n]) ELSE key

Name(type, key) ==
  IF key[1] = 0 THEN key
  ELSE IF key[1] \in DOMAIN Table[type] /\ Table[type][key[1]] # "" THEN Text(Table[type][key[1]])
  ELSE key

----------------------------------------------------------------------------
(* The nested maps. *)

\* GetInfo's options are a list of names in memory and flags on the wire, clientPin
\* being spelled out as false next to pinUvAuthToken.
OptionFlags(names) ==
  LET told == names \cup (IF "pinUvAuthToken" \in names THEN {"clientPin"} ELSE {})
  IN  [n \in told |-> n \in names]
OptionNames(flags) == {n \in DOMAIN flags : flags[n]}

ParamNames == <<"rpIDHash", "credentialId", "user">>
ParamLabels(names) == {n \in DOMAIN ParamNames : ParamNames[n] \in names}
NamesOfParams(labels) == {ParamNames[n] : n \in labels}

IsOptions(type, name) == type = "GetInfoResponse" /\ name = "options"
IsParams(type, name) == type = "CredentialManagementRequest" /\ name = "subCommandParams"

ToWire(type, name, value) ==
  IF IsOptions(type, name) THEN OptionFlags(value)
  ELSE IF IsParams(type, name) THEN ParamLabels(value) ELSE value
FromWire(type, name, value) ==
  IF IsOptions(type, name) THEN OptionNames(value)
  ELSE IF IsParams(type, name) THEN NamesOfParams(value) ELSE value

----------------------------------------------------------------------------
(* Encoding and decoding. *)

\* The canonical order of the text keys in use, shorter first.
TextOrder == <<"x", "uv", "get", "set", "length", "offset", "security">>
Position(s) == IF s \in Range(TextOrder) THEN CHOOSE i \in DOMAIN TextOrder : TextOrder[i] = s ELSE 99

\* Integers (one byte) come before texts.
Before(a, b) ==
  IF a[1] # 0 /\ b[1] # 0 THEN a[1] < b[1]
  ELSE IF a[1] = 0 /\ b[1] = 0 THEN Position(a[2]) < Position(b[2]) ELSE a[1] # 0

Entry(type, name, value) == [key |-> Label(type, name), value |-> ToWire(type, name, value)]

canonicalize_cbor(entries) == SortSeq(entries, LAMBDA a, b : Before(a.key, b.key))

\* A field that is absent was skipped or null and is not in the map.
encode_cbor(type, values) ==
  LET present == SelectSeq(StructOf[type].fields, LAMBDA f : f \in DOMAIN values)
  IN  canonicalize_cbor([i \in DOMAIN present |-> Entry(type, present[i], values[present[i]])])

\* What serde then does: a key that is still an integer, a field twice or a needed field
\* missing is an error; an unknown text is skipped; a field may be left to its default.
Deserialize(type, entries) ==
  LET known == {i \in DOMAIN entries : entries[i].key[1] = 0 /\ entries[i].key[2] \in Fields(type)}
      names == {entries[i].key[2] : i \in known}
      at(f) == CHOOSE i \in known : entries[i].key[2] = f
  IN  IF \/ \E i \in DOMAIN entries : entries[i].key[1] # 0
         \/ \E i, j \in known : i < j /\ entries[i].key = entries[j].key
         \/ ~(StructOf[type].needed \subseteq names)
      THEN None
      ELSE [f \in names |-> entries[at(f)].value]

decode_cbor(type, entries) ==
  Deserialize(type, [i \in DOMAIN entries |->
    LET name == Name(type, entries[i].key)
    IN  [key |-> name, value |-> FromWire(type, IF name[1] = 0 THEN name[2] ELSE "", entries[i].value)]])

----------------------------------------------------------------------------

\* The values a field may have; opaque ones are their own name.
ValuesOf(type, f) ==
  IF IsOptions(type, f) THEN SUBSET {"rk", "clientPin", "pinUvAuthToken"}
  ELSE IF IsParams(type, f) THEN (SUBSET Range(ParamNames)) \ {{}}
  ELSE {f}

Init == sent = None /\ wire = <<>> /\ got = None /\ liberties = 0 /\ dropped = {}

\* A party that uses this code encodes a message.
Encode ==
  /\ sent = None
  /\ \E type \in Types : \E absent \in SUBSET StructOf[type].maybe :
       LET present == Fields(type) \ absent
           nested == {f \in present : IsOptions(type, f) \/ IsParams(type, f)}
       IN  \E v \in UNION {ValuesOf(type, f) : f \in nested} \cup {{}} :
             /\ \A f \in nested : v \in ValuesOf(type, f)
             /\ nested = {} => v = {}
             /\ LET values == [f \in present |-> IF f \in nested THEN v ELSE f]
                IN  /\ sent' = [type |-> type, values |-> values]
                    /\ wire' = encode_cbor(type, values)
  /\ UNCHANGED <<got, liberties, dropped>>

\* A foreign platform leaves out a field that has a default, adds a key nobody knows, or
\* repeats a field under its text name.
Foreign ==
  /\ sent # None /\ got = None /\ liberties < MaxForeign
  /\ liberties' = liberties + 1
  /\ \/ \E i \in DOMAIN wire :
          LET name == Name(sent.type, wire[i].key)[2]
          IN  /\ name \in Fields(sent.type) \ StructOf[sent.type].needed
              /\ wire' = SubSeq(wire, 1, i - 1) \o SubSeq(wire, i + 1, Len(wire)) /\ dropped' = dropped \cup {name}
     \/ \E key \in {Num(20), Text("x")} :
          wire' = Append(wire, [key |-> key, value |-> "x"]) /\ UNCHANGED dropped
     \/ \E f \in DOMAIN sent.values :
          /\ ~IsOptions(sent.type, f) /\ ~IsParams(sent.type, f)
          /\ wire' = Append(wire, [key |-> Text(f), value |-> f]) /\ UNCHANGED dropped
  /\ UNCHANGED <<sent, got>>

Decode ==
  /\ sent # None /\ got = None /\ sent.type \in ReadBack
  /\ got' = [fields |-> decode_cbor(sent.type, wire)]
  /\ UNCHANGED <<sent, wire, liberties, dropped>>

Next == Encode \/ Foreign \/ Decode

Spec == Init /\ [][Next]_vars

----------------------------------------------------------------------------

ConstantsOK == ReadBack \subseteq Types /\ Types \subseteq DOMAIN StructOf /\ MaxForeign \in Nat

\* Keys are labels or texts; what was decoded are fields of the type.
TypeOK ==
  /\ sent # None => sent.type \in Types /\ DOMAIN sent.values \subseteq Fields(sent.type)
  /\ \A i \in DOMAIN wire : wire[i].key[1] \in 0 .. 23
  /\ got # None /\ got.fields # None => DOMAIN got.fields \subseteq Fields(sent.type)

\* An encoded message has each key once and in CTAP2's canonical order: no two fields of
\* a message share a label although the labels come from two tables (root_ctap_keys,
\* canonicalize_cbor).
WireCanonical ==
  liberties = 0 => \A i \in 1 .. Len(wire) - 1 : Before(wire[i].key, wire[i + 1].key)

\* A message read with decode_cbor is the message that encode_cbor wrote, nested maps
\* included, although writing and reading label by different tables.  Two fields are known
\* to differ: the extensions of a MakeCredentialResponse (written 6, read at 4) and the
\* max_msg_size of GetInfo (written 5, read as maxMsgSize).
ReadsBack ==
  liberties = 0 /\ got # None
    /\ ~(sent.type = "MakeCredentialResponse" /\ "extensions" \in DOMAIN sent.values) =>
      got.fields = Restrict(sent.values, DOMAIN sent.values \ {"max_msg_size"})

\* Whatever a foreign platform writes, what is decoded has every needed field, and each
\* field has the value written for it: a label is never taken for another field, a
\* repeated field never picks one (root_ctap_keys, the derived Deserialize).
NeverMistaken ==
  got # None /\ got.fields # None =>
    /\ StructOf[sent.type].needed \subseteq DOMAIN got.fields
    /\ \A f \in DOMAIN got.fields : f \in DOMAIN sent.values /\ got.fields[f] = sent.values[f]
    /\ DOMAIN sent.values \ (dropped \cup {"max_msg_size"}) \subseteq DOMAIN got.fields
=============================================================================
