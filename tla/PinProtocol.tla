---------------------------- MODULE PinProtocol ----------------------------
(***************************************************************************)
(* PIN/UV protocols one and two: key agreement, key derivation, encryption *)
(* and authentication, and the ClientPIN exchanges that carry a PIN under  *)
(* them.  The primitives are perfect: a derived key is the term that made  *)
(* it, a cipher block is the key, the IV and the plaintext encrypted so    *)
(* far, and anything decrypted out of place is noise.  Lengths are real    *)
(* but scaled: BlockLen bytes for 16, PadLen for 64.                       *)
(***************************************************************************)
EXTENDS Integers, Sequences

CONSTANTS
  None,
  Pins,        \* the PINs a user may type: bytes, the last one not zero
  BlockLen,    \* AES_BLOCK_LEN, and PIN_HASH_LEN, which is one block
  PadLen,      \* PIN_PAD_LEN
  PIN_MIN_LENGTH, PIN_MAX_LENGTH,
  PIN_MAX_RETRIES, PIN_BLOCK_THRESHOLD,
  MaxKeys,     \* bound: agreement keys announced
  MaxAsks,     \* bound: requests made
  MaxFaults    \* bound: requests changed on the way

VARIABLES
  device,      \* agreement key (0: none), retained secret, PIN hash, tries, fails, token
  made,        \* agreement keys announced so far
  platform,    \* the key it heard, the secret of its last token exchange
  wire,        \* the request on its way, or None; it may arrive more than once
  asks, faults,
  last,        \* what the last step handled: the request, the device before, the reply
  chosen,      \* the PIN typed in the last accepted set or change
  accepts      \* how often the request on the wire was accepted

vars == <<device, made, platform, wire, asks, faults, last, chosen, accepts>>

----------------------------------------------------------------------------
(* Primitives. *)

\* A secret is a sequence of 32-byte keys: one for protocol one, two for protocol two.
hkdf_sha256(z, info) == [by |-> info, z |-> z]
kdf(version, z) ==
  IF version = 1 THEN <<[by |-> "SHA-256", z |-> z]>>
  ELSE <<hkdf_sha256(z, "CTAP2 HMAC key"), hkdf_sha256(z, "CTAP2 AES key")>>

\* Cipher blocks.  ps is the plaintext from the IV up to this block.
NoKey == [by |-> "none", z |-> <<0, 0>>]
Iv(n) == [k |-> NoKey, iv |-> n, ps |-> <<>>]
Stub == Iv(-1)      \* bytes that do not fill a block
Noise == [i \in 1..BlockLen |-> 9]

Blocks(data) ==
  [i \in 1..Len(data) \div BlockLen |-> SubSeq(data, (i - 1) * BlockLen + 1, i * BlockLen)]

aes256_cbc_encrypt(k, iv, data) ==
  LET ps == Blocks(data)
  IN  [i \in DOMAIN ps |-> [k |-> k, iv |-> iv.iv, ps |-> SubSeq(ps, 1, i)]]

\* A block gives its plaintext back only under its key and after its own predecessor.
Follows(c, prev) ==
  /\ prev.iv = c.iv
  /\ prev.ps = SubSeq(c.ps, 1, Len(c.ps) - 1)
  /\ prev.k = IF Len(c.ps) = 1 THEN NoKey ELSE c.k
Plain(k, prev, c) ==
  IF c.k = k /\ c.ps # <<>> /\ Follows(c, prev) THEN c.ps[Len(c.ps)] ELSE Noise

\* The bytes of blocks.
Joined(blocks) ==
  [j \in 1 .. Len(blocks) * BlockLen |->
     blocks[((j - 1) \div BlockLen) + 1][((j - 1) % BlockLen) + 1]]

aes256_cbc_decrypt(k, iv, ct) ==
  IF \E i \in DOMAIN ct : ct[i] = Stub THEN None
  ELSE Joined([i \in DOMAIN ct |-> Plain(k, IF i = 1 THEN iv ELSE ct[i - 1], ct[i])])

encrypt(version, secret, nonce, plain) ==
  IF Len(secret) # version \/ Len(plain) % BlockLen # 0 THEN None
  ELSE IF version = 1 THEN aes256_cbc_encrypt(secret[1], Iv(0), plain)
  ELSE <<Iv(nonce)>> \o aes256_cbc_encrypt(secret[2], Iv(nonce), plain)

decrypt(version, secret, ct) ==
  IF Len(secret) # version THEN None
  ELSE IF version = 1 THEN aes256_cbc_decrypt(secret[1], Iv(0), ct)
  ELSE IF ct = <<>> \/ Head(ct) = Stub THEN None
  ELSE aes256_cbc_decrypt(secret[2], Head(ct), Tail(ct))

strip_zero_padding(data) ==
  LET live == {i \in DOMAIN data : data[i] # 0}
  IN  IF live = {} THEN None
      ELSE SubSeq(data, 1, CHOOSE i \in live : \A j \in live : j <= i)

decrypt_exact(version, secret, ct, expected) ==
  LET plain == decrypt(version, secret, ct)
  IN  IF plain = None \/ Len(plain) < expected THEN None ELSE SubSeq(plain, 1, expected)

\* Protocol one truncates the tag to 16 bytes.
authenticate(version, key, message) ==
  [k |-> key[1], message |-> message, len |-> IF version = 1 THEN 16 ELSE 32]

verify(version, key, message, tag) == tag = authenticate(version, key, message)

zero_pad_to_64(pin) == [i \in 1..PadLen |-> IF i <= Len(pin) THEN pin[i] ELSE 0]

\* LEFT(SHA-256(pin), 16): one block, whose last byte is zero for some PINs.
Digest(pin) ==
  LET of[n \in 0..Len(pin)] == IF n = 0 THEN Len(pin) ELSE 4 * of[n - 1] + pin[n]
  IN  of
sha256(pin) ==
  [i \in 1..BlockLen |->
     IF i = 1 THEN 100 + Digest(pin)[Len(pin)]
     ELSE IF Len(pin) = PIN_MAX_LENGTH THEN 0 ELSE 1]

\* pinUvAuthToken: 32 random bytes, two blocks, told apart by their number.
Token(n) == [i \in 1..2 * BlockLen |-> 10 + n]

----------------------------------------------------------------------------
(* The platform, which uses the same protocol. *)

NoDevice == [key |-> 0, secret |-> None, hash |-> <<>>, tries |-> PIN_MAX_RETRIES,
             fails |-> 0, token |-> None]

Ops == {"set", "change", "token", "current"}
NoRequest ==
  [op |-> "none", version |-> 1, peer |-> 0, onCurve |-> TRUE, newPinEnc |-> <<>>,
   pinHashEnc |-> <<>>, pinAuth |-> None, heard |-> 0, secret |-> <<>>, old |-> <<>>,
   new |-> <<>>, spoiled |-> FALSE]

ValidPins == {pin \in Pins : Len(pin) \in PIN_MIN_LENGTH..PIN_MAX_LENGTH}
NothingHandled == [request |-> NoRequest, before |-> NoDevice, ok |-> FALSE, reply |-> None]

\* The device is new, or a PIN was set before.
Init ==
  /\ chosen \in {<<>>} \union ValidPins
  /\ device = [NoDevice EXCEPT !.hash = IF chosen = <<>> THEN <<>> ELSE sha256(chosen)]
  /\ made = 0 /\ asks = 0 /\ faults = 0
  /\ platform = [heard |-> 0, secret |-> None]
  /\ wire = None
  /\ last = NothingHandled
  /\ accepts = 0

\* A request of the platform: the old PIN by its hash, the new one padded, both under
\* the secret agreed with the key it heard; currentPIN is padded under the secret that
\* brought the platform its token.
Request(op, version, old, new) ==
  LET n == asks + 1
      secret == IF op = "current" THEN platform.secret[1]
                ELSE kdf(version, <<platform.heard, n>>)
      hashEnc == IF op \in {"change", "token"}
                 THEN encrypt(version, secret, 2 * n, sha256(old)) ELSE <<>>
      pinEnc == IF op = "token" THEN <<>>
                ELSE encrypt(version, secret, 2 * n + 1,
                             zero_pad_to_64(IF op = "current" THEN old ELSE new))
  IN  [op |-> op, version |-> version, peer |-> n, onCurve |-> TRUE,
       newPinEnc |-> pinEnc, pinHashEnc |-> hashEnc,
       pinAuth |-> IF op \in {"set", "change"}
                   THEN authenticate(version, secret, pinEnc \o hashEnc) ELSE None,
       heard |-> platform.heard, secret |-> secret, old |-> old, new |-> new,
       spoiled |-> FALSE]

Ask(op, version, old, new) ==
  /\ asks < MaxAsks
  /\ IF op = "current" THEN platform.secret # None /\ platform.secret[2] = version
     ELSE platform.heard # 0
  /\ asks' = asks + 1
  /\ wire' = Request(op, version, old, new)
  /\ accepts' = 0
  /\ last' = NothingHandled
  /\ UNCHANGED <<device, made, platform, faults, chosen>>

\* What may become of a request on its way.
Changed(m) ==
  {[m EXCEPT !.onCurve = FALSE], [m EXCEPT !.version = 3 - m.version]}
  \union (IF m.pinHashEnc = <<>> THEN {}
          ELSE {[m EXCEPT !.pinHashEnc = Append(@, Stub)],
                [m EXCEPT !.pinHashEnc = Append(@, Iv(0))]})
  \union (IF m.newPinEnc = <<>> THEN {}
          ELSE {[m EXCEPT !.newPinEnc = SubSeq(@, 1, Len(@) - 1)], [m EXCEPT !.newPinEnc = Tail(@)]})
  \union (IF m.pinAuth = None THEN {} ELSE {[m EXCEPT !.pinAuth.len = 48 - @]})

Change ==
  /\ wire # None /\ ~wire.spoiled /\ wire.op # "current"
  /\ faults < MaxFaults
  /\ faults' = faults + 1
  /\ \E m \in Changed(wire) : wire' = [m EXCEPT !.spoiled = TRUE]
  /\ last' = NothingHandled
  /\ UNCHANGED <<device, made, platform, asks, chosen, accepts>>

----------------------------------------------------------------------------
(* The authenticator. *)

\* getKeyAgreement, on behalf of this platform or of another one.
handle_get_key_agreement(ours) ==
  /\ made < MaxKeys
  /\ made' = made + 1
  /\ device' = [device EXCEPT !.key = made + 1]
  /\ platform' = IF ours THEN [platform EXCEPT !.heard = made + 1] ELSE platform
  /\ last' = NothingHandled
  /\ UNCHANGED <<wire, asks, faults, chosen, accepts>>

\* The key is spent by the agreement; without one the code makes a key nobody heard of.
perform_key_agreement(m) ==
  IF m.onCurve THEN kdf(m.version, <<device.key, m.peer>>) ELSE None

\* Mutant: the key serves again.
take_pin_agreement_key_mutant(d) == d
take_pin_agreement_key(d) == [d EXCEPT !.key = 0]

is_pin_blocked(d) == d.fails >= PIN_BLOCK_THRESHOLD
decrement_pin_retries(d) == [d EXCEPT !.tries = IF @ = 0 THEN 0 ELSE @ - 1]
reset_pin_retries(d) == [d EXCEPT !.tries = PIN_MAX_RETRIES, !.fails = 0]
register_pin_failure(d) == [d EXCEPT !.fails = @ + 1]

Reply(m, ok, after, reply) ==
  /\ device' = after
  /\ last' = [request |-> m, before |-> device, ok |-> ok, reply |-> reply]
  /\ accepts' = IF ok THEN accepts + 1 ELSE accepts
  /\ UNCHANGED <<made, wire, asks, faults>>
Refuse(m, after) == Reply(m, FALSE, after, None) /\ UNCHANGED <<platform, chosen>>

\* The new PIN the message carries, or None when it is refused.
NewPin(m, secret) ==
  LET padded == decrypt(m.version, secret, m.newPinEnc)
      pin == IF padded = None \/ Len(padded) # PadLen THEN None ELSE strip_zero_padding(padded)
  IN  IF pin = None \/ Len(pin) \notin PIN_MIN_LENGTH..PIN_MAX_LENGTH THEN None ELSE pin

handle_set_pin(m) ==
  LET secret == perform_key_agreement(m)
      after == take_pin_agreement_key(device)
      pin == NewPin(m, secret)
      served == /\ secret # None
                /\ verify(m.version, secret, m.newPinEnc, m.pinAuth)
                /\ pin # None
  IN  /\ m.op = "set"
      /\ IF device.hash # <<>> THEN Refuse(m, device)
         ELSE IF ~served THEN Refuse(m, after)
         ELSE /\ Reply(m, TRUE, [reset_pin_retries(after) EXCEPT
                                   !.hash = sha256(pin), !.token = None], None)
              /\ chosen' = m.new
              /\ UNCHANGED platform

decrypt_pin_hash(m, secret) == decrypt_exact(m.version, secret, m.pinHashEnc, BlockLen)

handle_change_pin(m) ==
  LET secret == perform_key_agreement(m)
      spent == take_pin_agreement_key(device)
      counted == decrement_pin_retries(spent)
      right == reset_pin_retries(counted)
      pin == NewPin(m, secret)
  IN  /\ m.op = "change"
      /\ IF device.hash = <<>> \/ device.tries = 0 \/ is_pin_blocked(device) THEN Refuse(m, device)
         ELSE IF secret = None THEN Refuse(m, spent)
         ELSE IF ~verify(m.version, secret, m.newPinEnc \o m.pinHashEnc, m.pinAuth)
           THEN Refuse(m, spent)
         ELSE IF decrypt_pin_hash(m, secret) # device.hash
           THEN Refuse(m, register_pin_failure(counted))
         ELSE IF pin = None THEN Refuse(m, right)
         ELSE /\ Reply(m, TRUE, [right EXCEPT !.hash = sha256(pin), !.token = None], None)
              /\ chosen' = m.new
              /\ UNCHANGED platform

\* The token goes out under the agreed secret, which the device retains.
issue_pin_uv_auth_token(d, m, secret) ==
  [d EXCEPT !.token = Token(m.peer), !.secret = <<secret, m.version>>]

handle_get_pin_token_common(m) ==
  LET secret == perform_key_agreement(m)
      spent == take_pin_agreement_key(device)
      counted == decrement_pin_retries(spent)
  IN  /\ m.op = "token"
      /\ IF device.hash = <<>> \/ device.tries = 0 \/ is_pin_blocked(device) THEN Refuse(m, device)
         ELSE IF secret = None THEN Refuse(m, spent)
         ELSE IF decrypt_pin_hash(m, secret) # device.hash
           THEN Refuse(m, register_pin_failure(counted))
         ELSE /\ Reply(m, TRUE, issue_pin_uv_auth_token(reset_pin_retries(counted), m, secret),
                       encrypt(m.version, secret, 2 * m.peer, Token(m.peer)))
              /\ platform' = [platform EXCEPT !.secret = <<m.secret, m.version>>]
              /\ UNCHANGED chosen

\* currentPIN of setMinPINLength: the retained secret is spent, no attempt is counted.
verify_current_pin(m) ==
  LET padded == decrypt(device.secret[2], device.secret[1], m.newPinEnc)
      pin == IF padded = None THEN None ELSE strip_zero_padding(padded)
      spent == [device EXCEPT !.secret = None]
  IN  /\ m.op = "current"
      /\ IF device.secret = None THEN Refuse(m, device)
         ELSE IF pin = None THEN Refuse(m, spent)
         ELSE IF sha256(pin) # device.hash THEN Refuse(m, spent)
         ELSE Reply(m, TRUE, spent, None) /\ UNCHANGED <<platform, chosen>>

Deliver ==
  /\ wire # None
  /\ \/ handle_set_pin(wire) \/ handle_change_pin(wire)
     \/ handle_get_pin_token_common(wire) \/ verify_current_pin(wire)

PowerCycle ==
  /\ device # [NoDevice EXCEPT !.hash = device.hash, !.tries = device.tries]
  /\ device' = [NoDevice EXCEPT !.hash = device.hash, !.tries = device.tries]
  /\ last' = NothingHandled
  /\ UNCHANGED <<made, platform, wire, asks, faults, chosen, accepts>>

Next ==
  \/ \E ours \in BOOLEAN : handle_get_key_agreement(ours)
  \/ \E v \in {1, 2}, new \in Pins : Ask("set", v, <<>>, new)
  \/ \E v \in {1, 2}, old \in ValidPins, new \in Pins : Ask("change", v, old, new)
  \/ \E v \in {1, 2}, old \in ValidPins, op \in {"token", "current"} : Ask(op, v, old, <<>>)
  \/ Change
  \/ Deliver
  \/ PowerCycle

Spec == Init /\ [][Next]_vars

ConstantsOK ==
  /\ BlockLen \in Nat \ {0} /\ PadLen \in Nat /\ PIN_MIN_LENGTH \in Nat /\ PIN_MAX_LENGTH \in Nat
  /\ PIN_MAX_RETRIES \in Nat /\ PIN_BLOCK_THRESHOLD \in Nat
  /\ MaxKeys \in Nat /\ MaxAsks \in Nat /\ MaxFaults \in Nat
  /\ None \notin Seq(Nat)
  /\ \A v \in {1, 2}, key \in 0..MaxKeys, n \in 0..MaxAsks :
       kdf(v, <<key, n>>) # None /\ <<kdf(v, <<key, n>>), v>> # None
  /\ PadLen % BlockLen = 0 /\ PadLen > BlockLen
  /\ Pins \subseteq Seq(Nat)
  /\ 0 < PIN_MIN_LENGTH /\ PIN_MIN_LENGTH <= PIN_MAX_LENGTH /\ PIN_MAX_LENGTH < PadLen
  /\ \A pin \in Pins : pin # <<>> /\ Len(pin) <= PadLen /\ pin[Len(pin)] # 0

----------------------------------------------------------------------------
(* Properties. *)

\* The PIN the device holds is the one that was typed, inside the length limits, and it
\* came in a request nobody changed, made for the key the device announced last
\* (handle_set_pin, handle_change_pin: verify before decrypt).
PinAsTyped ==
  /\ device.hash # <<>> =>
       /\ device.hash = sha256(chosen)
       /\ Len(chosen) \in PIN_MIN_LENGTH..PIN_MAX_LENGTH
  /\ last.ok /\ last.request.op \in {"set", "change"} =>
       ~last.request.spoiled /\ last.request.heard = last.before.key

\* An unchanged request with the right PIN for the current key is served, whatever the
\* hash ends in, and the platform reads the token the device keeps.
RightPinServed ==
  LET m == last.request
      d == last.before
      open == m.op = "none" \/ (d.tries > 0 /\ ~is_pin_blocked(d))
      agreed == ~m.spoiled /\ m.heard = d.key /\ d.key # 0
      good == Len(m.new) \in PIN_MIN_LENGTH..PIN_MAX_LENGTH
      knows == d.hash # <<>> /\ d.hash = sha256(m.old)
  IN  /\ m.op = "set" /\ agreed /\ d.hash = <<>> /\ good => last.ok
      /\ m.op = "change" /\ agreed /\ open /\ knows /\ good => last.ok
      /\ m.op = "token" /\ agreed /\ open /\ knows => last.ok
      /\ m.op = "current" /\ knows /\ d.secret = <<m.secret, m.version>> => last.ok
      /\ m.op = "token" /\ last.ok /\ ~m.spoiled =>
           decrypt(m.version, m.secret, last.reply) = Token(m.peer)

\* A request that arrives again, after its reply was lost, is not served again: the key
\* it was made for is spent (PinAgreementKey, single use).
ServedOnce == accepts <= 1

\* Type invariant.
TypeOK ==
  /\ device.key \in 0..MaxKeys /\ device.tries \in 0..PIN_MAX_RETRIES /\ device.fails \in Nat
  /\ device.hash = <<>> \/ Len(device.hash) = BlockLen
  /\ device.secret = None \/ device.secret[2] = Len(device.secret[1])
  /\ made \in 0..MaxKeys /\ asks \in 0..MaxAsks /\ faults \in 0..MaxFaults
  /\ platform.heard \in 0..made
  /\ last.ok \in BOOLEAN /\ accepts \in Nat
  /\ wire = None \/ wire.op \in Ops
=============================================================================
