-------------------------------- MODULE Apdu --------------------------------
(***************************************************************************)
(* The byte formats of the card side: command APDUs in their short and     *)
(* extended forms, read by the router's Apdu::parse and by the older       *)
(* ApduCommand::parse of the CCID transport; the TLV lists of OATH; and    *)
(* PIV's PUT DATA object with its BER length.  Bytes run from 0 to Base-1, *)
(* so that a length or an Le of one byte overflows after a few bytes.  The *)
(* transport may cut bytes off the end or leave some behind.               *)
(***************************************************************************)
EXTENDS Integers, Sequences, Functions

CONSTANTS
  None,
  Base,        \* bound: the number of byte values, 256 in the code
  MaxData,     \* bound: bytes of command data
  Tags,        \* TLV tags a request may carry, as bytes
  MaxCert,     \* MAX_CERT_LEN
  MaxDamage    \* bound: bytes lost or left over

VARIABLES
  sent,        \* the format and the value the host encoded, or None
  raw,         \* the bytes
  got,         \* what the reader made of them: a value, or None when refused
  legacy,      \* what ApduCommand::parse made of them
  damage,
  read

vars == <<sent, raw, got, legacy, damage, read>>

Bytes == 0 .. Base - 1
Datas(n) == UNION {[1..k -> {0, 1}] : k \in 0..n}

----------------------------------------------------------------------------
(* Command APDUs.  Four header bytes, then lengths and data. *)

Header == <<0, 0, 0, 0>>
Command(data, le) == [data |-> data, le |-> le]
le_from_byte(b) == IF b = 0 THEN Base ELSE b
le_from_pair(hi, lo) == IF Base * hi + lo = 0 THEN Base * Base ELSE Base * hi + lo
Pair(n) == <<(n \div Base) % Base, n % Base>>

\* The forms of ISO 7816-4 that stand for a command.
ShortForms(c) ==
  IF Len(c.data) >= Base \/ (c.le # None /\ c.le > Base) THEN {}
  ELSE LET lc == IF c.data = <<>> THEN <<>> ELSE <<Len(c.data)>> \o c.data
       IN  IF c.le = None THEN {Header \o lc}
           ELSE {Header \o lc \o <<c.le % Base>>}
                \union (IF c.data = <<>> THEN {Header \o <<0, c.le % Base>>} ELSE {})
ExtendedForms(c) ==
  LET body == <<0>> \o Pair(Len(c.data)) \o c.data
  IN  IF c.le = None THEN IF c.data = <<>> THEN {} ELSE {Header \o body}
      ELSE {Header \o body \o Pair(c.le)}
           \union (IF c.data = <<>> THEN {Header \o <<0>> \o Pair(c.le)} ELSE {})
Forms(c) == ShortForms(c) \union ExtendedForms(c)
Body(bytes) == SubSeq(bytes, Len(Header) + 1, Len(bytes))

\* Mutant: bytes left after the data are dropped.
parse_extended_mutant(bytes) ==
  LET lc == Base * bytes[6] + bytes[7]
      n == Len(bytes)
  IN  IF n < 7 + lc THEN None
      ELSE Command(SubSeq(bytes, 8, 7 + lc),
                   IF n - (7 + lc) < 2 THEN None ELSE le_from_pair(bytes[n - 1], bytes[n]))

\* Apdu::parse, a zero after the header and at least seven bytes.
parse_extended(bytes) ==
  LET lc == Base * bytes[6] + bytes[7]
      n == Len(bytes)
      data == SubSeq(bytes, 8, 7 + lc)
  IN  IF n = 7 THEN Command(<<>>, le_from_pair(bytes[6], bytes[7]))
      ELSE IF n < 7 + lc THEN None
      ELSE IF n = 7 + lc THEN Command(data, None)
      ELSE IF n = 7 + lc + 2 THEN Command(data, le_from_pair(bytes[n - 1], bytes[n]))
      ELSE None

parse_short(bytes) ==
  LET lc == bytes[5]
      n == Len(bytes)
      data == SubSeq(bytes, 6, 5 + lc)
  IN  IF n < 5 + lc THEN None
      ELSE IF n = 5 + lc THEN Command(data, None)
      ELSE IF n = 5 + lc + 1 THEN Command(data, le_from_byte(bytes[n])) ELSE None

parse(bytes) ==
  LET n == Len(bytes)
  IN  IF n < 4 THEN None
      ELSE IF n = 4 THEN Command(<<>>, None)
      ELSE IF n = 5 THEN Command(<<>>, le_from_byte(bytes[5]))
      ELSE IF bytes[5] # 0 THEN parse_short(bytes)
      ELSE IF n = 6 THEN Command(<<>>, le_from_byte(bytes[6]))
      ELSE parse_extended(bytes)

\* The older parser: whatever is not a short form is a block of data.
ApduCommand_parse(bytes) ==
  LET n == Len(bytes)
      lc == bytes[5]
  IN  IF n < 4 THEN None
      ELSE IF n = 4 THEN Command(<<>>, None)
      ELSE IF n = 5 THEN Command(<<>>, le_from_byte(bytes[5]))
      ELSE IF lc > 0 /\ 5 + lc <= n
      THEN Command(SubSeq(bytes, 6, 5 + lc), IF n > 5 + lc THEN le_from_byte(bytes[6 + lc]) ELSE None)
      ELSE Command(SubSeq(bytes, 5, n), None)

----------------------------------------------------------------------------
(* TLV lists. *)

push_tlv(out, tlv) == out \o <<tlv.tag, Len(tlv.value)>> \o tlv.value

\* The list from a position on, or None when it is cut short.
parse_tlvs(data) ==
  LET n == Len(data)
      from[pos \in 1 .. n + 1] ==
        IF pos > n THEN <<>>
        ELSE IF n - pos + 1 < 2 \/ pos + 1 + data[pos + 1] > n THEN None
        ELSE LET end == pos + 1 + data[pos + 1]
                 rest == from[end + 1]
             IN  IF rest = None THEN None
                 ELSE <<[tag |-> data[pos], value |-> SubSeq(data, pos + 2, end)]>> \o rest
  IN  from[1]

take_tag(tlvs, tag) ==
  LET with == SelectSeq(tlvs, LAMBDA t : t.tag = tag)
  IN  [found |-> IF with = <<>> THEN None ELSE with[1].value, bad |-> Len(with) > 1]

require_no_remaining_tlvs(tlvs, known) == \A i \in DOMAIN tlvs : tlvs[i].tag \in known

\* A handler takes each tag it knows and wants nothing left.
Arguments(data) ==
  LET tlvs == parse_tlvs(data)
  IN  IF tlvs = None THEN None
      ELSE IF \E tag \in Tags : take_tag(tlvs, tag).bad THEN None
      ELSE IF ~require_no_remaining_tlvs(tlvs, Tags) THEN None
      ELSE [tag \in Tags |-> take_tag(tlvs, tag).found]

----------------------------------------------------------------------------
(* PUT DATA: a tag of three bytes, a BER length, the certificate. *)

slot_tag == <<1, 1, 0>>
Long1 == Base - 2     \* 0x81
Long2 == Base - 1     \* 0x82
BerForms(n) ==
  (IF n < Long1 THEN {<<n>>} ELSE {}) \union (IF n < Base THEN {<<Long1, n>>} ELSE {})
  \union {<<Long2>> \o Pair(n)}

\* Where the length ends, 0 when the data is too short for it, and what it says.
BerHead(data) ==
  LET end == IF Len(data) < 4 THEN 7 ELSE IF data[4] < Long1 THEN 4 ELSE IF data[4] = Long1 THEN 5 ELSE 6
  IN  IF Len(data) < end THEN 0 ELSE end
BerLength(data) ==
  CASE BerHead(data) = 4 -> data[4] [] BerHead(data) = 5 -> data[5]
    [] OTHER -> Base * data[5] + data[6]

parse_put_data(data) ==
  IF BerHead(data) = 0 \/ SubSeq(data, 1, 3) # slot_tag THEN None
  ELSE IF BerLength(data) \notin 1..MaxCert \/ Len(data) # BerHead(data) + BerLength(data) THEN None
  ELSE SubSeq(data, BerHead(data) + 1, Len(data))

----------------------------------------------------------------------------

Init == sent = None /\ raw = <<>> /\ got = None /\ legacy = None /\ damage = 0 /\ read = FALSE

Encode(format, value, bytes) ==
  /\ sent = None
  /\ sent' = [format |-> format, value |-> value, short |-> format = "apdu" /\ bytes \in ShortForms(value)]
  /\ raw' = bytes
  /\ UNCHANGED <<got, legacy, damage, read>>

EncodeApdu ==
  \E data \in Datas(MaxData), le \in {None} \union 1..Base + 1 \union {Base * Base} :
    \E bytes \in Forms(Command(data, le)) : Encode("apdu", Command(data, le), bytes)

EncodeTlvs ==
  \E n \in 0..3 : \E tags \in [1..n -> Tags \union {0}], values \in [1..n -> {<<>>, <<0>>, <<1, 1>>}] :
    LET tlvs == [i \in 1..n |-> [tag |-> tags[i], value |-> values[i]]]
        bytes[i \in 0..n] == IF i = 0 THEN <<>> ELSE push_tlv(bytes[i - 1], tlvs[i])
    IN  Encode("tlv", tlvs, bytes[n])

EncodeCert ==
  \E cert \in Datas(MaxData) : \E ber \in BerForms(Len(cert)) :
    Encode("cert", cert, slot_tag \o ber \o cert)

Damage ==
  /\ sent # None /\ ~read /\ damage < MaxDamage
  /\ damage' = damage + 1
  /\ \/ raw # <<>> /\ raw' = SubSeq(raw, 1, Len(raw) - 1)
     \/ \E b \in {0, 1} : raw' = Append(raw, b)
  /\ UNCHANGED <<sent, got, legacy, read>>

Read ==
  /\ sent # None /\ ~read
  /\ read' = TRUE
  /\ got' = CASE sent.format = "apdu" -> parse(raw)
              [] sent.format = "tlv" -> Arguments(raw)
              [] OTHER -> parse_put_data(raw)
  /\ legacy' = IF sent.format = "apdu" THEN ApduCommand_parse(raw) ELSE None
  /\ UNCHANGED <<sent, raw, damage>>

Next == EncodeApdu \/ EncodeTlvs \/ EncodeCert \/ Damage \/ Read

Spec == Init /\ [][Next]_vars

ConstantsOK ==
  /\ Base \in Nat /\ Base >= 4 /\ MaxData < Base * Base /\ MaxCert < Base * Base
  /\ Tags \subseteq Bytes \ {0}

----------------------------------------------------------------------------
(* Properties. *)

\* A command is read as it was meant in every form that stands for it, and bytes lost or
\* left over are refused or happen to be a form of exactly what is read: no byte of a
\* command is ignored (Apdu::parse).
CommandAsSent ==
  read /\ sent.format = "apdu" =>
    /\ damage = 0 => got = sent.value
    /\ got # None => \E form \in Forms(got) : Body(raw) = Body(form)

\* The transport's older parser agrees with the router's on every undamaged short form but
\* one: an empty Lc before Le, which it takes for data.
ParsersAgree ==
  read /\ sent.format = "apdu" /\ sent.short /\ damage = 0
    /\ ~(Len(raw) = 6 /\ raw[5] = 0) => legacy = got

\* An OATH request is served with the value of the only TLV of each tag, all of its bytes
\* used: a repeated, unknown or cut TLV refuses it (parse_tlvs, take_tag).
TlvsReadOnce ==
  read /\ sent.format = "tlv" =>
    LET once(tag) == SelectSeq(sent.value, LAMBDA t : t.tag = tag)
        clean == \A i \in DOMAIN sent.value : sent.value[i].tag \in Tags /\ Len(once(sent.value[i].tag)) = 1
    IN  /\ damage = 0 => (got # None <=> clean)
        /\ damage = 0 /\ got # None =>
             \A tag \in Tags : got[tag] = IF once(tag) = <<>> THEN None ELSE once(tag)[1].value
        /\ got # None => Len(raw) = SumFunction([tag \in Tags |-> IF got[tag] = None THEN 0 ELSE 2 + Len(got[tag])])

\* A certificate is stored as sent, in every length form, and one whose bytes do not match
\* its length is refused (parse_put_data).
CertificateAsSent ==
  read /\ sent.format = "cert" =>
    /\ damage = 0 /\ Len(sent.value) \in 1..MaxCert => got = sent.value
    /\ got # None => Len(got) \in 1..MaxCert /\ \E ber \in BerForms(Len(got)) : raw = slot_tag \o ber \o got

\* Type invariant.
TypeOK ==
  /\ \A i \in DOMAIN raw : raw[i] \in Bytes
  /\ damage \in 0..MaxDamage /\ read \in BOOLEAN
  /\ sent = None \/ sent.format \in {"apdu", "tlv", "cert"}
=============================================================================
