--------------------------- MODULE ClientPinProofs ---------------------------
(***************************************************************************)
(* Proofs about ClientPin for every set of PINs and every limit.           *)
(*                                                                         *)
(* Type correctness holds whatever the switches.  BoundedGuessing and      *)
(* SessionLockout hold for the wire protocol on storage that does not fail *)
(* (Wire): Budget is their inductive strengthening, which says what each   *)
(* half-done handler still owes.  That a token ends with its PIN holds     *)
(* also when writes fail and PINs are set by the direct route (Faulty).    *)
(***************************************************************************)
EXTENDS MCClientPin, TLAPS

USE PinLengthAssumption, NoPinAssumption, LimitAssumption, SwitchAssumption

\* The running handler's request has the shape its next step expects.
RequestShape ==
    /\ pc \in {"verify", "new_pin"} => req \in Requests
    /\ pc = "verify" => req.kind \in {"token", "change"}
    /\ pc = "verify" /\ req.kind = "token" => req.permissions # {}
    /\ pc = "clear" => req \in Clearing
    /\ pc = "set_force" => req \in Forcing

Typed == TypeOK /\ RequestShape

----------------------------------------------------------------------------
LEMMA NoRequestType == NoRequest \in Requests
  BY DEF NoRequest, Request, Requests

LEMMA StoredIn ==
  ASSUME NEW S, NEW a \in S, NEW b \in S, NEW x \in Stored(a, b)
  PROVE  x \in S
  BY DEF Stored

LEMMA SubType ==
  ASSUME NEW m \in Nat, NEW n \in 0 .. m
  PROVE  saturating_sub(n) \in 0 .. m
  BY DEF saturating_sub

LEMMA CountType ==
  ASSUME NEW n \in Nat, NEW limit \in Nat
  PROVE  Count(n, limit) \in Nat /\ Count(n, limit) <= n + 1
  BY DEF Count

LEMMA OneMore ==
  ASSUME NEW w \in Nat, NEW x \in Nat, NEW n \in Nat, NEW max \in Nat, w + n < max, x <= w + 1
  PROVE  x + n <= max
  OBVIOUS

LEMMA LimitTypes ==
  /\ 0 \in Nat /\ PinMinLength \in Nat /\ PinMaxRetries \in Nat
  /\ PinMaxRetries \in 0 .. PinMaxRetries /\ UvMaxRetries \in 0 .. UvMaxRetries
  OBVIOUS

LEMMA InitTyped == Init => Typed
<1> SUFFICES ASSUME Init PROVE Typed
  OBVIOUS
<1>1. pin_retries \in 0 .. PinMaxRetries /\ uv_retries \in 0 .. UvMaxRetries
  BY DEF Init
<1>2. min_pin_length \in Nat /\ pin_failures \in Nat /\ wrong \in Nat
  BY DEF Init
<1>3. req \in Requests
  BY NoRequestType DEF Init
<1> QED
  BY <1>1, <1>2, <1>3, Zenon DEF Init, Typed, TypeOK, RequestShape

LEMMA AttemptTyped ==
  ASSUME Typed, NEW r \in Requests, TakeAttempt(r), r.kind \in {"token", "change"},
         r.kind = "token" => r.permissions # {}
  PROVE  Typed'
<1>1. pin_retries' \in 0 .. PinMaxRetries
  BY StoredIn, SubType DEF TakeAttempt, Typed, TypeOK
<1>2. TypeOK'
  BY <1>1, Zenon DEF TakeAttempt, Typed, TypeOK, ghosts
<1>3. RequestShape'
  BY DEF TakeAttempt, RequestShape
<1> QED
  BY <1>2, <1>3 DEF Typed

LEMMA SetPinTyped ==
  ASSUME Typed, NEW p \in Pins, pc = "idle", set_pin(p), pin_agreement_key' \in BOOLEAN
  PROVE  Typed'
<1>1. wrong' \in Nat
  BY DEF set_pin, Typed, TypeOK
<1> QED
  BY <1>1, Zenon DEF set_pin, Typed, TypeOK, RequestShape

LEMMA CommandTyped == Typed /\ ClientPinCommand => Typed'
<1> SUFFICES ASSUME Typed, ClientPinCommand PROVE Typed'
  OBVIOUS
<1>1. CASE handle_get_key_agreement
  BY <1>1, Zenon DEF handle_get_key_agreement, Typed, TypeOK, RequestShape, persistent, ghosts
<1>1a. CASE FailAfterKeyAgreement
  BY <1>1a, Zenon DEF FailAfterKeyAgreement, Typed, TypeOK, RequestShape, persistent, ghosts
<1>2. ASSUME NEW p \in Pins, handle_set_pin(p) PROVE Typed'
  BY <1>2, SetPinTyped, Zenon DEF handle_set_pin
<1>3. ASSUME NEW p \in Pins, NEW new_pin \in {q \in Pins : ValidLength(q)} \cup {NoPin},
             handle_change_pin(p, new_pin)
      PROVE  Typed'
  <2>1. Request("change", p, TRUE, new_pin, {}, FALSE) \in Requests
    BY DEF Request, Requests
  <2>2. Request("change", p, TRUE, new_pin, {}, FALSE).kind = "change"
    BY DEF Request
  <2> QED  BY <1>3, <2>1, <2>2, AttemptTyped DEF handle_change_pin
<1>4. ASSUME NEW p \in Pins, NEW readable \in BOOLEAN, NEW permissions \in SUBSET Permissions,
             NEW bound \in BOOLEAN, permissions # {},
             handle_get_pin_token_common(p, readable, permissions, bound)
      PROVE  Typed'
  <2> DEFINE r == Request("token", p, readable, NoPin, permissions, bound)
  <2>1. r \in Requests
    BY DEF Request, Requests
  <2>2. r.kind = "token" /\ r.permissions = permissions
    BY DEF Request
  <2>3. TakeAttempt(r)
    BY <1>4 DEF handle_get_pin_token_common
  <2> QED  BY <1>4, <2>1, <2>2, <2>3, AttemptTyped
<1>5. ASSUME NEW p \in Pins, NEW readable \in BOOLEAN, handle_get_pin_token(p, readable)
      PROVE  Typed'
  BY <1>4, <1>5 DEF handle_get_pin_token, Permissions
<1>6. ASSUME NEW p \in Pins, NEW readable \in BOOLEAN, NEW permissions \in SUBSET Permissions,
             NEW bound \in BOOLEAN,
             handle_get_pin_token_with_permissions(p, readable, permissions, bound)
      PROVE  Typed'
  BY <1>4, <1>6 DEF handle_get_pin_token_with_permissions
<1>7. ASSUME NEW permissions \in (SUBSET Permissions) \ {{}}, NEW bound \in BOOLEAN,
             handle_get_uv_token(permissions, bound)
      PROVE  Typed'
  <2>1. uv_retries' \in 0 .. UvMaxRetries
    BY <1>7 DEF handle_get_uv_token, Stored, Typed, TypeOK
  <2>2. ASSUME issue_pin_uv_auth_token(permissions, bound, "uv")
        PROVE  pin_uv_auth_token' \in Tokens
    BY <2>2 DEF issue_pin_uv_auth_token, Typed, TypeOK, Tokens
  <2>3. /\ pin_uv_auth_token' \in Tokens \cup {NoToken} /\ pin_shared_secret' \in BOOLEAN
        /\ pin_agreement_key' \in BOOLEAN /\ pin_failures' \in Nat
    BY <1>7, <2>2, Zenon DEF handle_get_uv_token, issue_pin_uv_auth_token, volatile, Typed, TypeOK
  <2> QED
    BY <1>7, <2>1, <2>3, Zenon DEF handle_get_uv_token, Typed, TypeOK, RequestShape, ghosts
<1>8. CASE UvRefused
  BY <1>8 DEF UvRefused, Typed, TypeOK, RequestShape, persistent, volatile, ghosts
<1> QED
  BY <1>1, <1>1a, <1>2, <1>3, <1>5, <1>6, <1>7, <1>8 DEF ClientPinCommand

LEMMA ConfigTyped == Typed /\ ConfigCommand => Typed'
<1> SUFFICES ASSUME Typed, NEW p \in Pins \cup {NoPin}, NEW new_min \in MinLengths,
                    NEW force \in BOOLEAN, handle_set_min_pin_length(p, new_min, force)
             PROVE  Typed'
  BY DEF ConfigCommand
<1>1. new_min \in Nat
  OBVIOUS
<1>2. [kind |-> "force", force |-> force] \in Forcing
  BY DEF Forcing
<1>3. min_pin_length' \in Nat
  BY <1>1 DEF handle_set_min_pin_length, Typed, TypeOK
<1>4. pin_shared_secret' \in BOOLEAN
  BY Zenon DEF handle_set_min_pin_length, Typed, TypeOK
<1>5. CASE pc' = "set_force" /\ req' \in Forcing
  BY <1>3, <1>4, <1>5, Zenon
     DEF handle_set_min_pin_length, Typed, TypeOK, RequestShape, ghosts
<1>6. CASE UNCHANGED <<min_pin_length, pc, req>>
  BY <1>4, <1>6, Zenon
     DEF handle_set_min_pin_length, Typed, TypeOK, RequestShape, ghosts
<1> QED
  BY <1>2, <1>5, <1>6 DEF handle_set_min_pin_length

LEMMA ResetTyped == Typed /\ handle_reset => Typed'
<1> SUFFICES ASSUME Typed, handle_reset PROVE Typed'
  OBVIOUS
<1>1. req' \in Clearing
  BY DEF handle_reset, Clearing
<1> QED
  BY <1>1, Zenon
     DEF handle_reset, Typed, TypeOK, RequestShape, persistent, volatile, ghosts

LEMMA PowerCycleTyped == Typed /\ PowerCycle => Typed'
<1> SUFFICES ASSUME Typed, PowerCycle PROVE Typed'
  OBVIOUS
<1>1. pin_failures' \in Nat /\ req' \in Requests
  BY NoRequestType DEF PowerCycle, Done
<1> QED
  BY <1>1, Zenon DEF PowerCycle, Done, Typed, TypeOK, RequestShape, persistent, ghosts

LEMMA HandlerTyped == Typed /\ HandlerStep => Typed'
<1> SUFFICES ASSUME Typed, HandlerStep PROVE Typed'
  OBVIOUS
<1>0. ASSUME Done PROVE pc' = "idle" /\ req' \in Requests
  BY <1>0, NoRequestType DEF Done
<1>1. CASE SetPinRetries
  <2>1. pin_failures' \in Nat /\ pin_retries' \in 0 .. PinMaxRetries
    BY <1>1 DEF SetPinRetries, Stored, Typed, TypeOK
  <2> QED  BY <1>0, <1>1, <2>1, Zenon DEF SetPinRetries, Typed, TypeOK, RequestShape, ghosts
<1>2. CASE PinVerified
  <2>1. pin_failures' \in Nat /\ pin_retries' \in 0 .. PinMaxRetries /\ wrong' \in Nat
    BY <1>2 DEF PinVerified, Stored, Typed, TypeOK
  <2>2. req \in Requests
    BY <1>2 DEF PinVerified, Typed, RequestShape
  <2>3. CASE req.kind = "token"
    <3>1. pin_uv_auth_token' \in Tokens
      BY <1>2, <2>2, <2>3
         DEF PinVerified, issue_pin_uv_auth_token, Typed, TypeOK, RequestShape, Requests, Tokens
    <3> QED
      BY <1>0, <1>2, <2>1, <2>3, <3>1, Zenon
         DEF PinVerified, issue_pin_uv_auth_token, Typed, TypeOK, RequestShape
  <2>4. CASE req.kind # "token"
    BY <1>2, <2>1, <2>2, <2>4, Zenon DEF PinVerified, Typed, TypeOK, RequestShape
  <2> QED  BY <2>3, <2>4
<1>3. CASE PinRefused
  <2>1. pin_failures' \in Nat /\ wrong' \in Nat
    BY <1>3, CountType DEF PinRefused, Typed, TypeOK
  <2> QED  BY <1>0, <1>3, <2>1, Zenon DEF PinRefused, Typed, TypeOK, RequestShape, persistent
<1>4. CASE NewPin
  <2>1. pin_hash' \in Pins \cup {NoPin}
    BY <1>4 DEF NewPin, Typed, TypeOK, RequestShape, Requests
  <2>2. pin_uv_auth_token' \in Tokens \cup {NoToken}
    BY <1>4 DEF NewPin, Typed, TypeOK
  <2>3. demanded' \in BOOLEAN
    BY <1>4, Zenon DEF NewPin, Typed, TypeOK
  <2> QED  BY <1>0, <1>4, <2>1, <2>2, <2>3, Zenon DEF NewPin, Typed, TypeOK, RequestShape
<1>5. CASE StoreForceChange
  <2>1. req.force \in BOOLEAN
    BY <1>5 DEF StoreForceChange, Typed, RequestShape, Forcing
  <2>2. force_change_pin' \in BOOLEAN /\ demanded' \in BOOLEAN
    BY <1>5, <2>1, Zenon DEF StoreForceChange, Stored, Typed, TypeOK
  <2> QED
    BY <1>0, <1>5, <2>2, Zenon DEF StoreForceChange, Typed, TypeOK, RequestShape, volatile
<1>6. CASE decrement_uv_retries
  <2>1. uv_retries' \in 0 .. UvMaxRetries
    BY <1>6, SubType DEF decrement_uv_retries, Stored, Typed, TypeOK
  <2> QED
    BY <1>0, <1>6, <2>1, Zenon
       DEF decrement_uv_retries, Typed, TypeOK, RequestShape, volatile, ghosts
<1>7. CASE DirectFailure
  <2>1. pin_failures' \in Nat /\ pin_retries' \in 0 .. PinMaxRetries
    BY <1>7, SubType DEF DirectFailure, Stored, Typed, TypeOK
  <2> QED  BY <1>0, <1>7, <2>1, Zenon DEF DirectFailure, Typed, TypeOK, RequestShape, ghosts
<1>8. ASSUME NEW k \in ResetKeys, ClearKey(k) PROVE Typed'
  <2>1. pc' = "clear" /\ req' \in Clearing
    BY <1>8 DEF ClearKey, Typed, RequestShape, Clearing
  <2>2. /\ pin_retries' \in 0 .. PinMaxRetries /\ uv_retries' \in 0 .. UvMaxRetries
        /\ min_pin_length' \in Nat /\ wrong' \in Nat
    BY <1>8, LimitTypes, Zenon DEF ClearKey, Typed, TypeOK, persistent, ghosts
  <2>3. /\ pin_hash' \in Pins \cup {NoPin} /\ force_change_pin' \in BOOLEAN
        /\ demanded' \in BOOLEAN
    BY <1>8, Zenon DEF ClearKey, Typed, TypeOK, persistent, ghosts
  <2> QED
    BY <1>8, <2>1, <2>2, <2>3, Zenon DEF ClearKey, Typed, TypeOK, RequestShape, volatile
<1>9. CASE FinishReset
  <2>1. pin_failures' \in Nat
    BY <1>9 DEF FinishReset
  <2> QED
    BY <1>0, <1>9, <2>1, Zenon DEF FinishReset, Typed, TypeOK, RequestShape, persistent, ghosts
<1> QED
  BY <1>1, <1>2, <1>3, <1>4, <1>5, <1>6, <1>7, <1>8, <1>9 DEF HandlerStep

LEMMA DirectTyped == Typed /\ DirectCommand => Typed'
<1> SUFFICES ASSUME Typed, DirectCommand PROVE Typed'
  OBVIOUS
<1>1. ASSUME NEW p \in Pins, DirectSetPin(p) PROVE Typed'
  <2>1. pin_agreement_key' \in BOOLEAN
    BY <1>1, Zenon DEF DirectSetPin, Typed, TypeOK
  <2> QED  BY <1>1, <2>1, SetPinTyped DEF DirectSetPin
<1>2. ASSUME NEW p \in Pins, verify_pin(p) PROVE Typed'
  <2>1. pin_failures' \in Nat /\ pin_retries' \in 0 .. PinMaxRetries /\ wrong' \in Nat
    <3>1. pin_failures' \in Nat
      BY <1>2, LimitTypes, Zenon DEF verify_pin, Typed, TypeOK
    <3>2. wrong' \in Nat
      BY <1>2, LimitTypes, CountType DEF verify_pin, Typed, TypeOK
    <3>3. pin_retries' \in Stored(PinMaxRetries, pin_retries) \/ pin_retries' = pin_retries
      BY <1>2, Zenon DEF verify_pin
    <3> QED  BY <3>1, <3>2, <3>3, LimitTypes, StoredIn DEF Typed, TypeOK
  <2> QED  BY <1>2, <2>1, Zenon DEF verify_pin, Typed, TypeOK, RequestShape
<1>3. ASSUME NEW p \in Pins, NEW new_pin \in Pins, change_pin(p, new_pin) PROVE Typed'
  <2>1. pin_failures' \in Nat /\ pin_retries' \in 0 .. PinMaxRetries /\ wrong' \in Nat
    <3>1. pin_failures' \in Nat
      BY <1>3, LimitTypes, Zenon DEF change_pin, Typed, TypeOK
    <3>2. wrong' \in Nat
      BY <1>3, LimitTypes, CountType DEF change_pin, Typed, TypeOK
    <3>3. pin_retries' \in Stored(PinMaxRetries, pin_retries) \/ pin_retries' = pin_retries
      BY <1>3, Zenon DEF change_pin
    <3> QED  BY <3>1, <3>2, <3>3, LimitTypes, StoredIn DEF Typed, TypeOK
  <2>2. Request("direct", p, TRUE, new_pin, {}, FALSE) \in Requests
    BY DEF Request, Requests
  <2> QED  BY <1>3, <2>1, <2>2, Zenon DEF change_pin, Typed, TypeOK, RequestShape
<1> QED
  BY <1>1, <1>2, <1>3 DEF DirectCommand

LEMMA NextTyped == Typed /\ [Next]_vars => Typed'
<1>1. Typed /\ UNCHANGED vars => Typed'
  BY Zenon DEF vars, persistent, volatile, ghosts, Typed, TypeOK, RequestShape
<1> QED
  BY <1>1, CommandTyped, ConfigTyped, ResetTyped, HandlerTyped, DirectTyped, PowerCycleTyped
     DEF Next

\* Every command, every step of a handler cut short by a loss of power, and every
\* failed write leaves the stored counters within PIN_MAX_RETRIES and UV_MAX_RETRIES
\* and the session state well formed: the counters never wrap.
THEOREM TypeCorrect == Spec => []TypeOK
<1>1. Spec => []Typed
  BY InitTyped, NextTyped, PTL DEF Spec
<1> QED
  BY <1>1, PTL DEF Typed

----------------------------------------------------------------------------
\* The wire protocol only, on storage whose writes do not fail and whose keys
\* list in order.
Wire == ~StoreFaults /\ SortedKeys /\ ~DirectApi

\* What a half-done handler owes: one that is about to compare has already paid
\* and is not locked out; one that is about to refill the counter has no failed
\* comparison to its PIN.
Paid ==
    /\ wrong + pin_retries <= PinMaxRetries
    /\ pc = "verify" => wrong + pin_retries < PinMaxRetries
    /\ pc = "set_retries" => wrong = 0
    /\ pc = "clear" /\ "hash" \notin req.left => wrong = 0
    /\ pc # "late"
Unlocked ==
    /\ pin_failures <= PinBlockThreshold
    /\ pc = "verify" => pin_failures < PinBlockThreshold
Budget == Paid /\ Unlocked

LEMMA InitBudget == Init => Budget
  BY DEF Init, Budget, Paid, Unlocked

LEMMA AttemptBudget ==
  ASSUME Wire, Typed, Budget, NEW r, TakeAttempt(r)
  PROVE  Budget'
<1>1. pin_retries' = pin_retries - 1
  BY DEF TakeAttempt, Stored, saturating_sub, Wire, Typed, TypeOK
<1>2. UNCHANGED <<wrong, pin_failures>> /\ pc' = "verify" /\ pin_failures < PinBlockThreshold
  BY DEF TakeAttempt, ghosts, is_pin_blocked, Typed, TypeOK
<1> QED
  BY <1>1, <1>2 DEF Budget, Paid, Unlocked, Typed, TypeOK

\* Steps that touch neither the counters nor the ghost.
LEMMA SameBudget ==
  ASSUME Typed, Budget, UNCHANGED <<wrong, pin_retries, pin_failures>>,
         \/ UNCHANGED <<pc, req>>
         \/ pc' \in {"idle", "uv_failed", "set_force", "new_pin"}
         \/ pc' = "clear" /\ "hash" \in req'.left
  PROVE  Budget'
  BY DEF Budget, Paid, Unlocked, Typed, TypeOK

LEMMA CommandBudget == ASSUME Wire PROVE Typed /\ Budget /\ ClientPinCommand => Budget'
<1> SUFFICES ASSUME Typed, Budget, ClientPinCommand PROVE Budget'
  OBVIOUS
<1>1. CASE handle_get_key_agreement
  BY <1>1, SameBudget DEF handle_get_key_agreement, persistent, ghosts
<1>2. CASE FailAfterKeyAgreement
  BY <1>2, SameBudget DEF FailAfterKeyAgreement, persistent, ghosts
<1>3. ASSUME NEW p \in Pins, handle_set_pin(p) PROVE Budget'
  <2>1. pc' = "set_retries" /\ wrong' = 0 /\ UNCHANGED <<pin_retries, pin_failures>>
    BY <1>3 DEF handle_set_pin, set_pin, Wire
  <2> QED  BY <2>1 DEF Budget, Paid, Unlocked, Typed, TypeOK
<1>4. ASSUME NEW r, TakeAttempt(r) PROVE Budget'
  BY <1>4, AttemptBudget
<1>5. ASSUME NEW permissions, NEW bound, handle_get_uv_token(permissions, bound) PROVE Budget'
  BY <1>5, SameBudget DEF handle_get_uv_token, volatile, ghosts
<1>6. CASE UvRefused
  BY <1>6, SameBudget DEF UvRefused, persistent, volatile, ghosts
<1> QED
  BY <1>1, <1>2, <1>3, <1>4, <1>5, <1>6
     DEF ClientPinCommand, handle_change_pin, handle_get_pin_token,
         handle_get_pin_token_with_permissions, handle_get_pin_token_common

LEMMA HandlerBudget == ASSUME Wire PROVE Typed /\ Budget /\ HandlerStep => Budget'
<1> SUFFICES ASSUME Typed, Budget, HandlerStep PROVE Budget'
  OBVIOUS
<1> USE DEF Done
<1>1. CASE SetPinRetries
  <2>1. pin_retries' = PinMaxRetries /\ wrong' = 0 /\ pin_failures' = 0 /\ pc' = "idle"
    BY <1>1 DEF SetPinRetries, Stored, Wire, ghosts, Budget, Paid
  <2> QED  BY <2>1 DEF Budget, Paid, Unlocked
<1>2. CASE PinVerified
  <2>1. pin_retries' = PinMaxRetries /\ wrong' = 0 /\ pin_failures' = 0
    BY <1>2 DEF PinVerified, Stored, Wire
  <2>2. pc' \in {"idle", "new_pin"}
    BY <1>2 DEF PinVerified
  <2> QED  BY <2>1, <2>2 DEF Budget, Paid, Unlocked
<1>3. CASE PinRefused
  <2>1. wrong' \in Nat /\ wrong' <= wrong + 1
    BY <1>3, CountType DEF PinRefused, Typed, TypeOK
  <2>2. pin_failures' = pin_failures + 1 /\ pin_retries' = pin_retries /\ pc' = "idle"
        /\ pc = "verify"
    BY <1>3 DEF PinRefused, persistent
  <2>3. Paid'
    <3>1. wrong \in Nat /\ pin_retries \in Nat /\ PinMaxRetries \in Nat
      BY DEF Typed, TypeOK
    <3>2. wrong + pin_retries < PinMaxRetries
      BY <2>2 DEF Budget, Paid
    <3>3. wrong' + pin_retries' <= PinMaxRetries
      BY <2>1, <2>2, <3>1, <3>2, OneMore
    <3> QED  BY <2>2, <3>3 DEF Paid
  <2>4. Unlocked'
    BY <2>2 DEF Budget, Unlocked, Typed, TypeOK
  <2> QED  BY <2>3, <2>4 DEF Budget
<1>4. CASE NewPin
  BY <1>4, SameBudget DEF NewPin
<1>5. CASE StoreForceChange
  BY <1>5, SameBudget DEF StoreForceChange, volatile
<1>6. CASE decrement_uv_retries
  BY <1>6, SameBudget DEF decrement_uv_retries, volatile, ghosts
<1>7. CASE DirectFailure
  BY <1>7 DEF DirectFailure, Budget, Paid
<1>8. ASSUME NEW k \in ResetKeys, ClearKey(k) PROVE Budget'
  <2>1. pc = "clear" /\ pc' = "clear" /\ k \in req.left /\ req'.left = req.left \ {k}
        /\ pin_failures' = pin_failures
    BY <1>8 DEF ClearKey, volatile, Typed, RequestShape, Clearing
  <2>2. CASE k = "hash"
    <3>1. wrong' = 0 /\ pin_retries' = pin_retries
      BY <1>8, <2>2 DEF ClearKey, Wire
    <3> QED  BY <2>1, <3>1 DEF Budget, Paid, Unlocked, Typed, TypeOK
  <2>3. CASE k = "retries"
    <3>1. "hash" \notin req.left
      BY <1>8, <2>3 DEF ClearKey, Wire, Rank
    <3>2. wrong' = 0 /\ pin_retries' = PinMaxRetries
      BY <1>8, <2>1, <2>3, <3>1 DEF ClearKey, Wire, Budget, Paid
    <3> QED  BY <2>1, <3>2 DEF Budget, Paid, Unlocked
  <2>4. CASE k \notin {"hash", "retries"}
    <3>1. UNCHANGED <<wrong, pin_retries>>
      BY <1>8, <2>4 DEF ClearKey, Wire
    <3> QED  BY <2>1, <2>4, <3>1 DEF Budget, Paid, Unlocked
  <2> QED  BY <2>2, <2>3, <2>4
<1>9. CASE FinishReset
  <2>1. pin_failures' = 0 /\ pc' = "idle" /\ UNCHANGED <<wrong, pin_retries>>
    BY <1>9 DEF FinishReset, persistent, ghosts
  <2> QED  BY <2>1 DEF Budget, Paid, Unlocked
<1> QED
  BY <1>1, <1>2, <1>3, <1>4, <1>5, <1>6, <1>7, <1>8, <1>9 DEF HandlerStep

LEMMA NextBudget == ASSUME Wire PROVE Typed /\ Budget /\ [Next]_vars => Budget'
<1> SUFFICES ASSUME Typed, Budget, [Next]_vars PROVE Budget'
  OBVIOUS
<1>1. CASE ConfigCommand
  <2> PICK p \in Pins \cup {NoPin}, new_min \in MinLengths, force \in BOOLEAN :
            handle_set_min_pin_length(p, new_min, force)
    BY <1>1 DEF ConfigCommand
  <2>1. UNCHANGED <<wrong, pin_retries, pin_failures>>
    BY DEF handle_set_min_pin_length, ghosts
  <2>2. pc' = "set_force" \/ UNCHANGED <<pc, req>>
    BY DEF handle_set_min_pin_length
  <2> QED  BY <2>1, <2>2, SameBudget
<1>2. CASE handle_reset
  <2>1. pc' = "clear" /\ "hash" \in req'.left
    BY <1>2 DEF handle_reset, ResetKeys
  <2>2. UNCHANGED <<wrong, pin_retries, pin_failures>>
    BY <1>2 DEF handle_reset, persistent, volatile, ghosts
  <2> QED  BY <2>1, <2>2, SameBudget
<1>3. CASE PowerCycle
  <2>1. pin_failures' = 0 /\ pc' = "idle" /\ UNCHANGED <<wrong, pin_retries>>
    BY <1>3 DEF PowerCycle, Done, persistent, ghosts
  <2> QED  BY <2>1 DEF Budget, Paid, Unlocked
<1>4. CASE DirectCommand
  BY <1>4 DEF DirectCommand, DirectSetPin, verify_pin, change_pin, Wire
<1>5. CASE UNCHANGED vars
  BY <1>5, SameBudget DEF vars, persistent, volatile, ghosts
<1> QED
  BY <1>1, <1>2, <1>3, <1>4, <1>5, CommandBudget, HandlerBudget DEF Next

LEMMA AlwaysBudget == ASSUME Wire PROVE Spec => [](Typed /\ Budget)
<1>1. Init => Typed /\ Budget
  BY InitTyped, InitBudget
<1>2. Typed /\ Budget /\ [Next]_vars => (Typed /\ Budget)'
  BY NextTyped, NextBudget
<1> QED
  BY <1>1, <1>2, PTL DEF Spec

\* Over the wire, with any PINs and any limits, no interleaving of guesses, PIN
\* changes, resets and losses of power - between commands or in the middle of one -
\* buys a comparison that the persistent counter has not paid for.
THEOREM GuessingBounded == ASSUME Wire PROVE Spec => []BoundedGuessing
<1>1. Typed /\ Budget => BoundedGuessing
  BY DEF Budget, Paid, BoundedGuessing
<1> QED
  BY <1>1, AlwaysBudget, PTL

\* ... and at most PIN_BLOCK_THRESHOLD comparisons fail in one power cycle.
THEOREM LockoutHolds == ASSUME Wire PROVE Spec => []SessionLockout
<1>1. Typed /\ Budget => SessionLockout
  BY DEF Budget, Unlocked, SessionLockout
<1> QED
  BY <1>1, AlwaysBudget, PTL

----------------------------------------------------------------------------
\* Over the wire, whatever writes fail, a stored PIN is replaced by another one only in the
\* step that follows its verification: setPIN, a Reset cut short and the other handlers
\* never do it.
THEOREM ReplacementVerified == ASSUME ~DirectApi PROVE Spec => ReplacedOnlyAfterVerified
<1> DEFINE A == is_pin_set /\ pin_hash' \notin {pin_hash, NoPin} => pc = "new_pin"
<1>1. ASSUME Next PROVE A
  <2>1. CASE ClientPinCommand
    BY <2>1
    DEF ClientPinCommand, handle_get_key_agreement, FailAfterKeyAgreement, handle_set_pin,
        handle_change_pin, handle_get_pin_token, handle_get_pin_token_with_permissions,
        handle_get_pin_token_common, TakeAttempt, handle_get_uv_token, UvRefused, persistent
  <2>2. CASE ConfigCommand \/ handle_reset \/ PowerCycle
    BY <2>2 DEF ConfigCommand, handle_set_min_pin_length, handle_reset, PowerCycle, persistent
  <2>3. CASE HandlerStep
    <3>1. ASSUME NEW k \in ResetKeys, ClearKey(k) PROVE A
      BY <3>1 DEF ClearKey, persistent
    <3> QED
      BY <2>3, <3>1
      DEF HandlerStep, SetPinRetries, PinVerified, PinRefused, NewPin, StoreForceChange,
          decrement_uv_retries, DirectFailure, FinishReset, persistent
  <2>4. CASE DirectCommand
    BY <2>4 DEF DirectCommand, DirectSetPin, verify_pin, change_pin
  <2> QED
    BY <1>1, <2>1, <2>2, <2>3, <2>4 DEF Next
<1>2. [Next]_vars => [A]_vars
  BY <1>1
<1> QED
  BY <1>2, PTL DEF Spec, ReplacedOnlyAfterVerified

\* A token issued for a PIN is of the stored one, except while set_pin or a Reset is between
\* its writes; both drop the token when they end, as does a loss of power.
TokenKept ==
    x_pin_uv_auth_token # NoToken /\ x_pin_uv_auth_token.via = "pin"
        => x_pin_uv_auth_token.pin = x_pin_hash \/ x_pc \in {"set_retries", "clear"}

LEMMA TokenStep == TokenKept /\ [MCNext]_<<part, vars, x_vars>> => TokenKept'
<1> SUFFICES ASSUME TokenKept, [MCNext]_<<part, vars, x_vars>> PROVE TokenKept'
  OBVIOUS
<1> USE DEF TokenKept
\* Three shapes of step: nothing of the token changes, it goes, or a new one is issued.
<1>1. ASSUME UNCHANGED <<x_pin_uv_auth_token, x_pin_hash>>, x_pc \notin {"set_retries", "clear"}
             \/ x_pc' = x_pc
      PROVE  TokenKept'
  BY <1>1
<1>2. ASSUME x_pin_uv_auth_token' = NoToken PROVE TokenKept'
  BY <1>2
<1>3. ASSUME NEW permissions, NEW bound, NEW via \in {"pin", "uv"}, UNCHANGED x_pin_hash,
             Faulty!issue_pin_uv_auth_token(permissions, bound, via)
      PROVE  TokenKept'
  BY <1>3 DEF Faulty!issue_pin_uv_auth_token
<1>4. CASE Faulty!ClientPinCommand
  <2>1. ASSUME NEW p \in Pins, Faulty!handle_set_pin(p) PROVE TokenKept'
    BY <2>1 DEF Faulty!handle_set_pin, Faulty!set_pin
  <2>2. ASSUME NEW r, Faulty!TakeAttempt(r) PROVE TokenKept'
    BY <1>1, <2>2 DEF Faulty!TakeAttempt
  <2>3. ASSUME NEW permissions, NEW bound, Faulty!handle_get_uv_token(permissions, bound)
        PROVE  TokenKept'
    BY <1>1, <1>3, <2>3 DEF Faulty!handle_get_uv_token, Faulty!volatile
  <2>4. CASE Faulty!handle_get_key_agreement \/ Faulty!FailAfterKeyAgreement \/ Faulty!UvRefused
    BY <1>1, <2>4 DEF Faulty!handle_get_key_agreement, Faulty!FailAfterKeyAgreement,
                      Faulty!UvRefused, Faulty!persistent, Faulty!volatile
  <2> QED
    BY <1>4, <2>1, <2>2, <2>3, <2>4
    DEF Faulty!ClientPinCommand, Faulty!handle_change_pin, Faulty!handle_get_pin_token,
        Faulty!handle_get_pin_token_with_permissions, Faulty!handle_get_pin_token_common
<1>5. CASE Faulty!ConfigCommand \/ Faulty!handle_reset
  BY <1>1, <1>5 DEF Faulty!ConfigCommand, Faulty!handle_set_min_pin_length, Faulty!handle_reset,
                    Faulty!persistent, Faulty!volatile
<1>6. CASE Faulty!HandlerStep
  <2>1. CASE Faulty!SetPinRetries \/ Faulty!FinishReset
    BY <1>2, <2>1 DEF Faulty!SetPinRetries, Faulty!FinishReset
  <2>2. CASE Faulty!PinVerified
    BY <1>1, <1>3, <2>2 DEF Faulty!PinVerified
  <2>3. CASE \/ Faulty!PinRefused \/ Faulty!StoreForceChange \/ Faulty!decrement_uv_retries
             \/ Faulty!DirectFailure
    BY <1>1, <2>3 DEF Faulty!PinRefused, Faulty!StoreForceChange, Faulty!decrement_uv_retries,
                      Faulty!DirectFailure, Faulty!persistent, Faulty!volatile
  <2>4. CASE Faulty!NewPin
    BY <1>1, <1>2, <2>4 DEF Faulty!NewPin
  <2>5. ASSUME NEW k \in Faulty!ResetKeys, Faulty!ClearKey(k) PROVE TokenKept'
    BY <2>5 DEF Faulty!ClearKey, Faulty!volatile
  <2> QED
    BY <1>6, <2>1, <2>2, <2>3, <2>4, <2>5 DEF Faulty!HandlerStep
<1>7. CASE Faulty!DirectCommand
  <2>1. ASSUME NEW p \in Pins, Faulty!DirectSetPin(p) PROVE TokenKept'
    BY <2>1 DEF Faulty!DirectSetPin, Faulty!set_pin
  <2>2. ASSUME NEW p \in Pins, Faulty!verify_pin(p) PROVE TokenKept'
    BY <1>1, <2>2 DEF Faulty!verify_pin
  <2>3. ASSUME NEW p \in Pins, NEW new_pin \in Pins, Faulty!change_pin(p, new_pin) PROVE TokenKept'
    BY <1>1, <2>3 DEF Faulty!change_pin
  <2> QED
    BY <1>7, <2>1, <2>2, <2>3 DEF Faulty!DirectCommand
<1>8. CASE Faulty!PowerCycle
  BY <1>2, <1>8 DEF Faulty!PowerCycle
<1>9. CASE UNCHANGED x_vars
  BY <1>1, <1>9 DEF x_vars
<1> QED
  BY <1>4, <1>5, <1>6, <1>7, <1>8, <1>9 DEF MCNext, Faulty!Next

\* Whatever writes fail and by whichever route PINs are set, for any PINs and limits: a
\* token issued for a PIN does not outlive it (set_pin, clear_pin_uv_auth_token).
THEOREM TokenEndsWithPin == MCSpec => []FaultyTokenOfCurrentPin
<1>1. MCInit => TokenKept
  BY DEF MCInit, Faulty!Init, TokenKept
<1>2. TokenKept => FaultyTokenOfCurrentPin
  BY DEF TokenKept, FaultyTokenOfCurrentPin, Faulty!TokenOfCurrentPin
<1> QED
  BY <1>1, <1>2, TokenStep, PTL DEF MCSpec
=============================================================================
