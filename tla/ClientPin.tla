------------------------------ MODULE ClientPin ------------------------------
(***************************************************************************)
(* authenticatorClientPIN with the PIN part of authenticatorConfig and of  *)
(* Reset: the stored PIN and its retry counters, the volatile lock-out,    *)
(* the key agreement and the pinUvAuthToken.                               *)
(*                                                                         *)
(* A handler runs to its end before the next command, but the power may go *)
(* between two of its writes to storage, so a handler that writes more     *)
(* than once is cut into steps (pc), one per write.  Requests that return  *)
(* an error before changing anything are not steps.  Cryptography is ideal:*)
(* a request made with a key the authenticator no longer holds fails its   *)
(* MAC, and decrypts to no PIN at all.                                     *)
(***************************************************************************)
EXTENDS Integers

CONSTANTS Pins, PinLength,      \* candidate PINs and their lengths
          NoPin, NoToken,
          PinMinLength, PinMaxLength,               \* 4 and 63 in the code
          PinMaxRetries, PinBlockThreshold,         \* 8 and 3 in the code
          UvMaxRetries,                             \* 8 in the code
          MinLengths,           \* values newMinPINLength may take
          BuiltinUv,            \* capability "uv" and a verifier are present
          StoreFaults,          \* storage writes and deletes may fail
          SortedKeys,           \* the backend lists its keys in order
          DirectApi             \* the simulator's JSON route to trait ClientPin

ASSUME PinLengthAssumption == PinLength \in [Pins -> Nat]
ASSUME NoPinAssumption == NoPin \notin Pins
ASSUME LimitAssumption ==
    /\ PinMinLength \in Nat /\ PinMaxLength \in Nat
    /\ PinMaxRetries \in Nat \ {0} /\ PinBlockThreshold \in Nat \ {0}
    /\ UvMaxRetries \in Nat \ {0}
    /\ MinLengths \subseteq PinMinLength .. PinMaxLength
ASSUME SwitchAssumption ==
    /\ BuiltinUv \in BOOLEAN /\ StoreFaults \in BOOLEAN
    /\ SortedKeys \in BOOLEAN /\ DirectApi \in BOOLEAN

VARIABLES
    \* persistent, in the StorageEngine
    pin_hash,           \* client_pin_hash: the PIN it is the hash of, or NoPin
    pin_retries,        \* client_pin_retries, PinMaxRetries when absent
    uv_retries,         \* sys:uv_retries, UvMaxRetries when absent
    force_change_pin,   \* sys:cfg_force_change_pin
    min_pin_length,     \* sys:cfg_min_pin_length, PinMinLength when absent
    \* volatile, in Ctap2Authenticator
    pin_failures,       \* pin_failures_since_reset
    pin_uv_auth_token,
    pin_agreement_key,  \* the key announced by getKeyAgreement is unused
    pin_shared_secret,  \* the secret of the last issued token is unused
    \* the running handler
    pc, req,
    \* ghosts
    wrong,              \* failed comparisons with this PIN since one succeeded
    demanded            \* a PIN change was demanded and has not happened

persistent == <<pin_hash, pin_retries, uv_retries, force_change_pin, min_pin_length>>
volatile == <<pin_failures, pin_uv_auth_token, pin_agreement_key, pin_shared_secret>>
ghosts == <<wrong, demanded>>
vars == <<persistent, volatile, pc, req, ghosts>>

Permissions == {"mc_ga", "acfg"}
Tokens == [permissions : (SUBSET Permissions) \ {{}}, bound : BOOLEAN,
           via : {"pin", "uv"}, pin : Pins \cup {NoPin}]
\* What is left to do of a getPinToken or changePIN request.
Requests == [kind : {"token", "change", "direct", "none"}, pin : Pins \cup {NoPin},
             readable : BOOLEAN, new_pin : Pins \cup {NoPin},
             permissions : SUBSET Permissions, bound : BOOLEAN]
Request(kind, p, readable, new_pin, permissions, bound) ==
    [kind |-> kind, pin |-> p, readable |-> readable, new_pin |-> new_pin,
     permissions |-> permissions, bound |-> bound]
NoRequest == Request("none", NoPin, FALSE, NoPin, {}, FALSE)
ResetKeys == {"hash", "retries", "force", "min", "uv"}
Clearing == [kind : {"clear"}, left : SUBSET ResetKeys]
Forcing == [kind : {"force"}, force : BOOLEAN]

TypeOK ==
    /\ pin_hash \in Pins \cup {NoPin}
    /\ pin_retries \in 0 .. PinMaxRetries /\ uv_retries \in 0 .. UvMaxRetries
    /\ force_change_pin \in BOOLEAN /\ min_pin_length \in Nat
    /\ pin_failures \in Nat
    /\ pin_uv_auth_token \in Tokens \cup {NoToken}
    /\ pin_agreement_key \in BOOLEAN /\ pin_shared_secret \in BOOLEAN
    /\ pc \in {"idle", "verify", "new_pin", "set_retries", "late", "set_force",
              "uv_failed", "clear"}
    /\ req \in Requests \cup Clearing \cup Forcing
    /\ wrong \in Nat /\ demanded \in BOOLEAN

----------------------------------------------------------------------------
\* A write that the code does not check, or checks: the new value or, when
\* storage may fail, the old one.
Stored(new, old) == {new} \cup (IF StoreFaults THEN {old} ELSE {})

saturating_sub(n) == IF n > 0 THEN n - 1 ELSE 0
\* Ghost counters stop one past their limit.
Count(n, limit) == IF n > limit THEN n ELSE n + 1

is_pin_set == pin_hash # NoPin
is_pin_blocked_mutant == pin_failures > PinBlockThreshold
is_pin_blocked == pin_failures >= PinBlockThreshold
ValidLength(p) == PinLength[p] >= PinMinLength /\ PinLength[p] <= PinMaxLength

Init ==
    /\ pin_hash = NoPin /\ pin_retries = PinMaxRetries /\ uv_retries = UvMaxRetries
    /\ force_change_pin = FALSE /\ min_pin_length = PinMinLength
    /\ pin_failures = 0 /\ pin_uv_auth_token = NoToken
    /\ pin_agreement_key = FALSE /\ pin_shared_secret = FALSE
    /\ pc = "idle" /\ req = NoRequest
    /\ wrong = 0 /\ demanded = FALSE

Done == pc' = "idle" /\ req' = NoRequest

----------------------------------------------------------------------------
(* authenticatorClientPIN *)

handle_get_key_agreement ==
    /\ pc = "idle"
    /\ pin_agreement_key' = TRUE
    /\ UNCHANGED <<persistent, pin_failures, pin_uv_auth_token, pin_shared_secret,
                   pc, req, ghosts>>

\* The agreement key is consumed and the request then fails: a point off the
\* curve, a MAC that does not verify, a new PIN of a bad length in setPIN.
FailAfterKeyAgreement ==
    /\ pc = "idle" /\ pin_agreement_key
    /\ is_pin_set => pin_retries > 0 /\ ~is_pin_blocked
    /\ pin_agreement_key' = FALSE
    /\ UNCHANGED <<persistent, pin_failures, pin_uv_auth_token, pin_shared_secret,
                   pc, req, ghosts>>

\* Ctap2Authenticator::set_pin, first write; its callers differ in what they check.
set_pin(p) ==
    /\ ValidLength(p)
    /\ \/ /\ pin_hash' = p /\ pc' = "set_retries"
          /\ wrong' = 0 /\ demanded' = FALSE
       \/ /\ StoreFaults
          /\ UNCHANGED <<pin_hash, pc, wrong, demanded>>
    /\ UNCHANGED <<pin_retries, uv_retries, force_change_pin, min_pin_length,
                   pin_failures, pin_uv_auth_token, pin_shared_secret, req>>

\* handle_set_pin with the announced key and a valid MAC.
handle_set_pin_mutant(p) ==
    /\ pc = "idle" /\ pin_agreement_key
    /\ pin_agreement_key' = FALSE
    /\ set_pin(p)
handle_set_pin(p) ==
    /\ pc = "idle" /\ ~is_pin_set /\ pin_agreement_key
    /\ pin_agreement_key' = FALSE
    /\ set_pin(p)

\* set_pin, second write: reset_pin_retries, then the token is dropped.
SetPinRetries_mutant ==
    /\ pc = "set_retries"
    /\ pin_failures' = 0 /\ pin_retries' \in Stored(pin_retries + 1, pin_retries)
    /\ pin_uv_auth_token' = NoToken
    /\ Done
    /\ UNCHANGED <<pin_hash, uv_retries, force_change_pin, min_pin_length,
                   pin_agreement_key, pin_shared_secret, ghosts>>
SetPinRetries ==
    /\ pc = "set_retries"
    /\ pin_failures' = 0 /\ pin_retries' \in Stored(PinMaxRetries, pin_retries)
    /\ pin_uv_auth_token' = NoToken
    /\ Done
    /\ UNCHANGED <<pin_hash, uv_retries, force_change_pin, min_pin_length,
                   pin_agreement_key, pin_shared_secret, ghosts>>

\* The common start of changePIN and getPinToken: the checks, the agreement
\* (readable: with the announced key, not a stale one) and the decrement.
TakeAttempt_mutant(r) ==
    /\ pc = "idle" /\ is_pin_set /\ pin_retries > 0 /\ ~is_pin_blocked
    /\ r.readable => pin_agreement_key
    /\ pin_agreement_key' = FALSE
    /\ pc' = "verify" /\ req' = r
    /\ UNCHANGED <<persistent, pin_failures, pin_uv_auth_token, pin_shared_secret, ghosts>>
TakeAttempt(r) ==
    /\ pc = "idle" /\ is_pin_set /\ pin_retries > 0 /\ ~is_pin_blocked
    /\ r.readable => pin_agreement_key
    /\ pin_agreement_key' = FALSE
    /\ pin_retries' \in Stored(saturating_sub(pin_retries), pin_retries)
    /\ pc' = "verify" /\ req' = r
    /\ UNCHANGED <<pin_hash, uv_retries, force_change_pin, min_pin_length,
                   pin_failures, pin_uv_auth_token, pin_shared_secret, ghosts>>

\* changePIN verifies its MAC first, so only a readable request gets this far.
handle_change_pin(p, new_pin) ==
    TakeAttempt(Request("change", p, TRUE, new_pin, {}, FALSE))

handle_get_pin_token_common(p, readable, permissions, bound) ==
    /\ ~force_change_pin
    /\ TakeAttempt(Request("token", p, readable, NoPin, permissions, bound))

\* getPinToken has fixed permissions and no RP; with permissions, mc and ga need one.
handle_get_pin_token(p, readable) ==
    handle_get_pin_token_common(p, readable, {"mc_ga"}, FALSE)
handle_get_pin_token_with_permissions(p, readable, permissions, bound) ==
    /\ permissions # {} /\ ("mc_ga" \in permissions => bound)
    /\ handle_get_pin_token_common(p, readable, permissions, bound)

issue_pin_uv_auth_token(permissions, bound, via) ==
    /\ pin_uv_auth_token' = [permissions |-> permissions, bound |-> bound,
                             via |-> via, pin |-> pin_hash]
    /\ pin_shared_secret' = TRUE

\* verify_decrypted_pin_hash succeeds; reset_pin_retries; a token is issued, or
\* changePIN goes on to the new PIN.
PinVerified ==
    /\ pc = "verify" /\ req.readable /\ req.pin = pin_hash
    /\ pin_failures' = 0 /\ pin_retries' \in Stored(PinMaxRetries, pin_retries)
    /\ wrong' = 0
    /\ IF req.kind = "token"
       THEN issue_pin_uv_auth_token(req.permissions, req.bound, "pin") /\ Done
       ELSE pc' = "new_pin" /\ UNCHANGED <<req, pin_uv_auth_token, pin_shared_secret>>
    /\ UNCHANGED <<pin_hash, uv_retries, force_change_pin, min_pin_length,
                   pin_agreement_key, demanded>>

\* register_pin_failure
PinRefused ==
    /\ pc = "verify" /\ ~(req.readable /\ req.pin = pin_hash)
    /\ pin_failures' = pin_failures + 1
    /\ wrong' = Count(wrong, PinMaxRetries)
    /\ Done
    /\ UNCHANGED <<persistent, pin_uv_auth_token, pin_agreement_key, pin_shared_secret,
                   demanded>>

\* The end of changePIN: NoPin stands for a plaintext that is not 64 bytes or a
\* PIN of a bad length.  The token goes before the write, except in the trait's
\* change_pin, where it goes after it and only if the write succeeded.
NewPin_mutant ==
    /\ pc = "new_pin"
    /\ pin_hash' \in IF req.new_pin = NoPin THEN {pin_hash} ELSE Stored(req.new_pin, pin_hash)
    /\ demanded' = (demanded /\ pin_hash' = pin_hash)
    /\ Done
    /\ UNCHANGED <<pin_retries, uv_retries, force_change_pin, min_pin_length, volatile,
                   wrong>>
NewPin ==
    /\ pc = "new_pin"
    /\ \/ /\ req.new_pin = NoPin
          /\ UNCHANGED <<pin_hash, pin_uv_auth_token, demanded>>
       \/ /\ req.new_pin # NoPin
          /\ pin_hash' = req.new_pin /\ pin_uv_auth_token' = NoToken
          /\ demanded' = (demanded /\ req.new_pin = pin_hash)
       \/ /\ req.new_pin # NoPin /\ StoreFaults
          /\ pin_uv_auth_token' = IF req.kind = "change" THEN NoToken ELSE pin_uv_auth_token
          /\ UNCHANGED <<pin_hash, demanded>>
    /\ Done
    /\ UNCHANGED <<pin_retries, uv_retries, force_change_pin, min_pin_length,
                   pin_failures, pin_agreement_key, pin_shared_secret, wrong>>

----------------------------------------------------------------------------
(* getPinUvAuthTokenUsingUvWithPermissions *)

\* perform_builtin_uv succeeds, and only then are rpId and the key agreement
\* looked at: the request may still fail with the agreement key kept or consumed.
handle_get_uv_token(permissions, bound) ==
    /\ pc = "idle" /\ BuiltinUv /\ uv_retries > 0
    /\ uv_retries' \in Stored(UvMaxRetries, uv_retries)
    /\ \/ UNCHANGED volatile
       \/ /\ "mc_ga" \in permissions => bound
          /\ pin_agreement_key' = FALSE
          /\ \/ issue_pin_uv_auth_token(permissions, bound, "uv")
             \/ UNCHANGED <<pin_uv_auth_token, pin_shared_secret>>
          /\ UNCHANGED pin_failures
    /\ UNCHANGED <<pin_hash, pin_retries, force_change_pin, min_pin_length, pc, req, ghosts>>

\* ... or the verifier refuses, and the attempt is counted afterwards.
UvRefused ==
    /\ pc = "idle" /\ BuiltinUv /\ uv_retries > 0
    /\ pc' = "uv_failed"
    /\ UNCHANGED <<persistent, volatile, req, ghosts>>

decrement_uv_retries ==
    /\ pc = "uv_failed"
    /\ uv_retries' \in Stored(saturating_sub(uv_retries), uv_retries)
    /\ Done
    /\ UNCHANGED <<pin_hash, pin_retries, force_change_pin, min_pin_length, volatile, ghosts>>

----------------------------------------------------------------------------
(* authenticatorConfig: setMinPINLength *)

\* verify_pin_uv_auth_for_operation with the acfg permission and no RP.
Authorized == pin_uv_auth_token # NoToken /\ "acfg" \in pin_uv_auth_token.permissions
              /\ ~pin_uv_auth_token.bound

\* handle_set_min_pin_length, first write: the minimum.  With currentPIN the
\* shared secret is consumed and the PIN compared; without it (NoPin) a change
\* of PIN cannot be demanded.
handle_set_min_pin_length(current_pin, new_min, force) ==
    /\ pc = "idle" /\ is_pin_set /\ Authorized
    /\ IF current_pin = NoPin
       THEN ~force /\ UNCHANGED pin_shared_secret
       ELSE pin_shared_secret /\ pin_shared_secret' = FALSE
    /\ \/ /\ current_pin \in {NoPin, pin_hash}
          /\ min_pin_length' = new_min
          /\ pc' = "set_force" /\ req' = [kind |-> "force", force |-> force]
       \/ /\ StoreFaults \/ current_pin \notin {NoPin, pin_hash}
          /\ UNCHANGED <<min_pin_length, pc, req>>
    /\ UNCHANGED <<pin_hash, pin_retries, uv_retries, force_change_pin, pin_failures,
                   pin_uv_auth_token, pin_agreement_key, ghosts>>

\* ... and the last: the flag is stored or deleted.
StoreForceChange ==
    /\ pc = "set_force"
    /\ force_change_pin' \in Stored(req.force, force_change_pin)
    /\ demanded' = (IF force_change_pin' = req.force THEN req.force ELSE demanded)
    /\ Done
    /\ UNCHANGED <<pin_hash, pin_retries, uv_retries, min_pin_length, volatile, wrong>>

----------------------------------------------------------------------------
(* Reset: StorageEngine::clear deletes key after key, ignoring errors *)

handle_reset ==
    /\ pc = "idle"
    /\ pc' = "clear" /\ req' = [kind |-> "clear", left |-> ResetKeys]
    /\ UNCHANGED <<persistent, volatile, ghosts>>

\* client_pin_hash < client_pin_retries < sys:cfg_* < sys:uv_retries
Rank == [hash |-> 1, retries |-> 2, force |-> 3, min |-> 4, uv |-> 5]

ClearKey(k) ==
    /\ pc = "clear" /\ k \in req.left
    /\ SortedKeys => \A other \in req.left : Rank[k] <= Rank[other]
    /\ req' = [req EXCEPT !.left = @ \ {k}]
    /\ \/ /\ pin_hash' = IF k = "hash" THEN NoPin ELSE pin_hash
          /\ wrong' = IF k = "hash" THEN 0 ELSE wrong
          /\ pin_retries' = IF k = "retries" THEN PinMaxRetries ELSE pin_retries
          /\ force_change_pin' = (IF k = "force" THEN FALSE ELSE force_change_pin)
          /\ demanded' = (IF k = "force" THEN FALSE ELSE demanded)
          /\ min_pin_length' = IF k = "min" THEN PinMinLength ELSE min_pin_length
          /\ uv_retries' = IF k = "uv" THEN UvMaxRetries ELSE uv_retries
       \/ StoreFaults /\ UNCHANGED <<persistent, ghosts>>
    /\ UNCHANGED <<volatile, pc>>

FinishReset ==
    /\ pc = "clear" /\ req.left = {}
    /\ pin_failures' = 0 /\ pin_uv_auth_token' = NoToken
    /\ pin_agreement_key' = FALSE /\ pin_shared_secret' = FALSE
    /\ Done
    /\ UNCHANGED <<persistent, ghosts>>

----------------------------------------------------------------------------
(* The simulator's JSON route calls the methods of trait ClientPin directly. *)

DirectSetPin(p) == DirectApi /\ pc = "idle" /\ set_pin(p) /\ UNCHANGED pin_agreement_key

verify_pin(p) ==
    /\ DirectApi /\ pc = "idle" /\ is_pin_set /\ ~is_pin_blocked
    /\ \/ /\ p = pin_hash
          /\ pin_failures' = 0 /\ pin_retries' \in Stored(PinMaxRetries, pin_retries)
          /\ wrong' = 0 /\ pc' = "idle"
       \/ /\ p # pin_hash
          /\ wrong' = Count(wrong, PinMaxRetries) /\ pc' = "late"
          /\ UNCHANGED <<pin_failures, pin_retries>>
    /\ UNCHANGED <<pin_hash, uv_retries, force_change_pin, min_pin_length,
                   pin_uv_auth_token, pin_agreement_key, pin_shared_secret, req, demanded>>

\* Bound: change_pin has no lock-out, so its failures are explored to one past it.
MaxDirectFailures == PinBlockThreshold + 1

change_pin(p, new_pin) ==
    /\ DirectApi /\ pc = "idle" /\ is_pin_set /\ ValidLength(new_pin)
    /\ \/ /\ p = pin_hash
          /\ pin_failures' = 0 /\ pin_retries' \in Stored(PinMaxRetries, pin_retries)
          /\ wrong' = 0 /\ pc' = "new_pin"
          /\ req' = Request("direct", p, TRUE, new_pin, {}, FALSE)
       \/ /\ p # pin_hash /\ pin_failures < MaxDirectFailures
          /\ wrong' = Count(wrong, PinMaxRetries) /\ pc' = "late"
          /\ UNCHANGED <<pin_failures, pin_retries, req>>
    /\ UNCHANGED <<pin_hash, uv_retries, force_change_pin, min_pin_length,
                   pin_uv_auth_token, pin_agreement_key, pin_shared_secret,
                   demanded>>

\* Both count the failure only after the comparison.
DirectFailure ==
    /\ pc = "late"
    /\ pin_retries' \in Stored(saturating_sub(pin_retries), pin_retries)
    /\ pin_failures' = pin_failures + 1
    /\ Done
    /\ UNCHANGED <<pin_hash, uv_retries, force_change_pin, min_pin_length,
                   pin_uv_auth_token, pin_agreement_key, pin_shared_secret, ghosts>>

----------------------------------------------------------------------------
\* Power is lost and comes back: a new Ctap2Authenticator on the same storage.
PowerCycle ==
    /\ pin_failures' = 0 /\ pin_uv_auth_token' = NoToken
    /\ pin_agreement_key' = FALSE /\ pin_shared_secret' = FALSE
    /\ Done
    /\ UNCHANGED <<persistent, ghosts>>

ClientPinCommand ==
    \/ handle_get_key_agreement \/ FailAfterKeyAgreement
    \/ \E p \in Pins : handle_set_pin(p)
    \/ \E p \in Pins, new_pin \in {q \in Pins : ValidLength(q)} \cup {NoPin} :
          handle_change_pin(p, new_pin)
    \/ \E p \in Pins, readable \in BOOLEAN :
          \/ handle_get_pin_token(p, readable)
          \/ \E permissions \in SUBSET Permissions, bound \in BOOLEAN :
                handle_get_pin_token_with_permissions(p, readable, permissions, bound)
    \/ \E permissions \in (SUBSET Permissions) \ {{}}, bound \in BOOLEAN :
          handle_get_uv_token(permissions, bound)
    \/ UvRefused

ConfigCommand ==
    \E p \in Pins \cup {NoPin}, new_min \in MinLengths, force \in BOOLEAN :
        handle_set_min_pin_length(p, new_min, force)

HandlerStep ==
    \/ SetPinRetries \/ PinVerified \/ PinRefused \/ NewPin
    \/ StoreForceChange \/ decrement_uv_retries \/ DirectFailure
    \/ \E k \in ResetKeys : ClearKey(k)
    \/ FinishReset

DirectCommand ==
    \E p \in Pins : \/ DirectSetPin(p) \/ verify_pin(p)
                    \/ \E new_pin \in Pins : change_pin(p, new_pin)

Next == ClientPinCommand \/ ConfigCommand \/ handle_reset \/ HandlerStep
        \/ DirectCommand \/ PowerCycle

Spec == Init /\ [][Next]_vars

----------------------------------------------------------------------------
\* Guesses are paid for: between commands, however guesses, restarts, resets and losses
\* of power are mixed, the failed comparisons since the last success never
\* exceed the attempts taken from the persistent counter (trait ClientPin: the
\* counter is decremented before the verification, so that a power loss in the
\* middle grants no extra attempt).
BoundedGuessing == pc = "idle" => wrong + pin_retries <= PinMaxRetries

\* Within one power cycle the lock-out of pin_failures_since_reset lets at most
\* PIN_BLOCK_THRESHOLD comparisons fail in a row, over changePIN and both
\* getPinToken commands together.
SessionLockout == pin_failures <= PinBlockThreshold

\* Between commands, a token issued for a PIN is only alive while that PIN is
\* the stored one: changing or resetting the PIN ends it.
TokenOfCurrentPin ==
    pc = "idle" /\ pin_uv_auth_token # NoToken /\ pin_uv_auth_token.via = "pin"
        => pin_uv_auth_token.pin = pin_hash

\* A stored PIN is only replaced by another right after it was itself verified
\* (set_pin: "Falha se ja houver PIN configurado").
ReplacedOnlyAfterVerified ==
    [][is_pin_set /\ pin_hash' \notin {pin_hash, NoPin} => pc = "new_pin"]_vars

\* The demand of setMinPINLength lasts until the PIN has been changed, and no
\* longer ("PIN precisa ser trocado antes de emitir um novo token").
DemandEndsWithChange == pc = "idle" /\ force_change_pin => demanded
=============================================================================
