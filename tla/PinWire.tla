------------------------------- MODULE PinWire -------------------------------
(***************************************************************************)
(* The wire form of authenticatorClientPIN.  A request is an array, whose  *)
(* optional items are compacted and handed out by sub-command, or a map    *)
(* with integer or text keys; each handler then asks for the fields it     *)
(* needs.  An item has a kind and the field the platform meant it for; the *)
(* values themselves are opaque, except the COSE key, which is a map of    *)
(* its own.                                                                *)
(***************************************************************************)
EXTENDS Integers, Sequences, Functions

CONSTANTS
  None,
  MaxFaults    \* bound: items of the wrong kind, short or reordered

VARIABLES
  asked,       \* the sub-command, the form, the fields put on the wire, and whether
               \* the permissions asked for are bound to a relying party
  wire,        \* the entries: a key and an item, in order
  got,         \* the decoded request and whether its handler served it
  faults

vars == <<asked, wire, got, faults>>

----------------------------------------------------------------------------
(* Items. *)

\* The fields in the order of the array.  Positions 7 and 8 are reserved.
ClientPinRequest ==
  <<"pinProtocol", "subCommand", "keyAgreement", "pinAuth", "newPinEnc", "pinHashEnc",
    "reserved", "reserved", "permissions", "rpId">>
Names == Range(ClientPinRequest) \ {"reserved"}

\* The kind of item each field is read from: value_to_u8, value_to_bytes, value_to_text,
\* and a map for the key.
KindOf ==
  [pinProtocol |-> "int", subCommand |-> "int", keyAgreement |-> "map", pinAuth |-> "bytes",
   newPinEnc |-> "bytes", pinHashEnc |-> "bytes", permissions |-> "int", rpId |-> "text"]

\* COSE_Key entries: a label with an integer, or with the bytes of a coordinate.
CoseInt(label, n) == [label |-> label, kind |-> "int", v |-> n, len |-> 0]
CoseBytes(label, coordinate) == [label |-> label, kind |-> "bytes", v |-> coordinate, len |-> 32]
X == 100
Y == 200

\* The key as this code writes it.
to_cose_value ==
  <<CoseBytes(-3, Y), CoseBytes(-2, X), CoseInt(-1, 1), CoseInt(1, 2), CoseInt(3, -25)>>

Item(f, sub) ==
  [kind |-> KindOf[f], of |-> f, n |-> IF f = "subCommand" THEN sub ELSE 0,
   cose |-> IF f = "keyAgreement" THEN to_cose_value ELSE <<>>]
Null == [kind |-> "null", of |-> "", n |-> 0, cose |-> <<>>]

\* The last entry with a label and a kind, or None.
LastOf(entries, label, kind) ==
  LET at == {i \in DOMAIN entries : entries[i].label = label /\ entries[i].kind = kind}
  IN  IF at = {} THEN None ELSE entries[CHOOSE i \in at : \A j \in at : j <= i]

\* An EC2 key on P-256 with two coordinates of 32 bytes, or an error (None).
from_cose_value(entries) ==
  LET kty == LastOf(entries, 1, "int")
      crv == LastOf(entries, -1, "int")
      x == LastOf(entries, -2, "bytes")
      y == LastOf(entries, -3, "bytes")
  IN  IF None \notin {kty, crv, x, y} /\ kty.v = 2 /\ crv.v = 1 /\ x.len = 32 /\ y.len = 32
      THEN [x |-> x.v, y |-> y.v] ELSE None

----------------------------------------------------------------------------
(* Decoding. *)

Reads(f, item) ==
  item.kind = KindOf[f] /\ (f = "keyAgreement" => from_cose_value(item.cose) # None)

\* Items handed to fields, in order: an item that cannot be read is an error (None), a
\* field given twice keeps the last.
Assign(pairs) ==
  IF \E i \in DOMAIN pairs : ~Reads(pairs[i].field, pairs[i].item) THEN None
  ELSE LET fields == {pairs[i].field : i \in DOMAIN pairs}
           last(f) == CHOOSE i \in DOMAIN pairs :
                        pairs[i].field = f /\ \A j \in DOMAIN pairs : pairs[j].field = f => j <= i
       IN  [f \in fields |-> pairs[last(f)].item]

\* The order in which each sub-command hands out the optional items of an array.
Order(sub, rest) ==
  CASE sub = 3 -> <<"keyAgreement", "pinAuth", "newPinEnc">>
    [] sub = 4 -> <<"keyAgreement", "pinAuth", "newPinEnc", "pinHashEnc">>
    [] sub = 5 -> <<"keyAgreement", "pinHashEnc">>
                    \o (IF Len(rest) <= 2 THEN <<>>
                        ELSE IF rest[3].kind = "text" THEN <<"rpId">> ELSE <<"permissions">>)
    [] sub = 6 -> <<"keyAgreement", "permissions", "rpId">>
    [] sub = 9 -> <<"keyAgreement", "pinHashEnc", "permissions", "rpId">>
    [] OTHER -> <<>>

Pair(f, item) == [field |-> f, item |-> item]
Given(items, i) == i <= Len(items) /\ items[i].kind # "null"

decode_request_from_array(items) ==
  LET first == (IF Given(items, 1) THEN <<Pair("pinProtocol", items[1])>> ELSE <<>>)
                 \o (IF Given(items, 2) THEN <<Pair("subCommand", items[2])>> ELSE <<>>)
      rest == SelectSeq(SubSeq(items, 3, Len(items)), LAMBDA i : i.kind # "null")
      order == Order(IF Given(items, 2) THEN items[2].n ELSE 0, rest)
      taken == IF Len(rest) < Len(order) THEN Len(rest) ELSE Len(order)
  IN  Assign(first \o [k \in 1 .. taken |-> Pair(order[k], rest[k])])

\* The labels of the map are the positions of the array; text keys are the names.
decode_request_from_map(entries) ==
  Assign([i \in DOMAIN entries |->
    Pair(IF entries[i].key = 0 THEN entries[i].name ELSE ClientPinRequest[entries[i].key],
         entries[i].item)])

decode_client_pin_request(form, entries) ==
  IF form = "array" THEN decode_request_from_array([i \in DOMAIN entries |-> entries[i].item])
  ELSE decode_request_from_map(entries)

----------------------------------------------------------------------------
(* The handlers' own checks, as far as they look at the fields. *)

SubCommands == {1, 2, 3, 4, 5, 6, 7, 9}

\* The fields each handler asks for, validate_protocol included.
Needed(sub, scoped) ==
  CASE sub \in {1, 7} -> {}
    [] sub = 2 -> {"pinProtocol"}
    [] sub = 3 -> {"pinProtocol", "keyAgreement", "pinAuth", "newPinEnc"}
    [] sub = 4 -> {"pinProtocol", "keyAgreement", "pinAuth", "newPinEnc", "pinHashEnc"}
    [] sub = 5 -> {"pinProtocol", "keyAgreement", "pinHashEnc"}
    [] sub = 6 -> {"pinProtocol", "permissions", "keyAgreement"}
                    \cup (IF scoped THEN {"rpId"} ELSE {})
    [] sub = 9 -> {"pinProtocol", "permissions", "keyAgreement", "pinHashEnc"}
                    \cup (IF scoped THEN {"rpId"} ELSE {})

\* getPinToken refuses a request that names permissions or a relying party.
Refused(sub) == IF sub = 5 THEN {"permissions", "rpId"} ELSE {}

handle_client_pin(request) ==
  /\ request # None
  /\ "subCommand" \in DOMAIN request
  /\ LET sub == request["subCommand"].n
     IN  /\ sub \in SubCommands
         /\ Needed(sub, asked.scoped) \subseteq DOMAIN request
         /\ Refused(sub) \cap DOMAIN request = {}

----------------------------------------------------------------------------

\* The fields a platform may send with a sub-command.
Sendable(sub) ==
  Needed(sub, TRUE) \cup {"pinProtocol"} \cup (IF sub = 5 THEN {"permissions", "rpId"} ELSE {})

\* The platform's three ways of writing a request.
AsArray(fields, sub) ==
  LET last == CHOOSE i \in DOMAIN ClientPinRequest :
                /\ ClientPinRequest[i] \in fields
                /\ \A j \in DOMAIN ClientPinRequest : ClientPinRequest[j] \in fields => j <= i
  IN  [i \in 1 .. last |->
         [key |-> 0, name |-> "", item |-> IF ClientPinRequest[i] \in fields
                                           THEN Item(ClientPinRequest[i], sub) ELSE Null]]
AsMap(fields, sub, text) ==
  LET labels == SelectSeq([i \in DOMAIN ClientPinRequest |-> i],
                          LAMBDA i : ClientPinRequest[i] \in fields)
  IN  [i \in DOMAIN labels |->
         [key |-> IF text THEN 0 ELSE labels[i], name |-> ClientPinRequest[labels[i]],
          item |-> Item(ClientPinRequest[labels[i]], sub)]]

Init == asked = None /\ wire = <<>> /\ got = None /\ faults = 0

Ask ==
  /\ asked = None
  /\ \E sub \in SubCommands, form \in {"array", "labels", "names"}, scoped \in BOOLEAN :
       \E optional \in SUBSET (Sendable(sub) \ {"subCommand"}) :
         LET fields == optional \cup {"subCommand"}
         IN  /\ asked' = [sub |-> sub, form |-> form, fields |-> fields, scoped |-> scoped]
             /\ wire' = IF form = "array" THEN AsArray(fields, sub)
                        ELSE AsMap(fields, sub, form = "names")
  /\ UNCHANGED <<got, faults>>

\* An item arrives with a kind no field takes, its coordinates arrive short, or its
\* entries in another order.
Garble ==
  /\ asked # None /\ got = None /\ faults < MaxFaults
  /\ \E i \in DOMAIN wire :
       /\ wire[i].item.kind # "null"
       /\ \/ wire' = [wire EXCEPT ![i].item.kind = "bool"]
          \/ \E e \in DOMAIN wire[i].item.cose : wire' = [wire EXCEPT ![i].item.cose[e].len = 31]
          \/ wire' = [wire EXCEPT ![i].item.cose = [j \in DOMAIN @ |-> @[Len(@) + 1 - j]]]
  /\ faults' = faults + 1
  /\ UNCHANGED <<asked, got>>

Serve ==
  /\ asked # None /\ got = None
  /\ LET request == decode_client_pin_request(asked.form, wire)
     IN  got' = [request |-> request, served |-> handle_client_pin(request)]
  /\ UNCHANGED <<asked, wire, faults>>

Next == Ask \/ Garble \/ Serve

Spec == Init /\ [][Next]_vars

----------------------------------------------------------------------------

ConstantsOK == MaxFaults \in Nat

\* A decoded request has fields of the request only.
TypeOK ==
  /\ faults \in 0 .. MaxFaults
  /\ got # None /\ got.request # None => DOMAIN got.request \subseteq Names

\* A request that has every field its sub-command asks for is read the same from an
\* array, a map with labels and a map with names (decode_client_pin_request).
FormsAgree ==
  got # None /\ faults = 0 /\ Needed(asked.sub, TRUE) \subseteq asked.fields =>
    \/ asked.sub \in {1, 2, 7} /\ asked.form = "array"
    \/ Refused(asked.sub) \cap asked.fields # {} /\ ~got.served
    \/ got.request = [f \in asked.fields |-> Item(f, asked.sub)]

\* Compaction never turns an incomplete request into a complete one: a handler serves
\* only what was sent for it, each field read from its own item and the key from its own
\* coordinates; a field it must refuse is seen in every form, although an array shifts
\* the items after one that is missing (decode_request_from_array, handle_get_pin_token).
NeverShifted ==
  got # None /\ got.served =>
    /\ Needed(asked.sub, asked.scoped) \subseteq asked.fields
    /\ asked.sub = 5 => asked.fields \cap {"permissions", "rpId"} = {}
    /\ \A f \in DOMAIN got.request : got.request[f].of = f
    /\ "keyAgreement" \in DOMAIN got.request =>
         from_cose_value(got.request["keyAgreement"].cose) = [x |-> X, y |-> Y]
=============================================================================
