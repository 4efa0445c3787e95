----------------------------- MODULE MCClientPin -----------------------------
(***************************************************************************)
(* ClientPin with a short and a long PIN, twice: over the wire with the    *)
(* code's limits and writes that do not fail (the state of this module's   *)
(* own), and with failing storage, built-in UV and the direct route (the   *)
(* variables x_).  One of the two runs, the other stays as it starts.      *)
(***************************************************************************)
EXTENDS ClientPin, TLC

CONSTANTS short, long,
          FaultyMaxRetries, FaultyThreshold     \* the limits of the second instance

MCPins == {short, long}
MCPinLength == short :> 4 @@ long :> 6
MCMinLengths == {4, 6}

VARIABLES part, x_pin_hash, x_pin_retries, x_uv_retries, x_force_change_pin, x_min_pin_length,
          x_pin_failures, x_pin_uv_auth_token, x_pin_agreement_key, x_pin_shared_secret,
          x_pc, x_req, x_wrong, x_demanded

x_vars == <<x_pin_hash, x_pin_retries, x_uv_retries, x_force_change_pin, x_min_pin_length,
            x_pin_failures, x_pin_uv_auth_token, x_pin_agreement_key, x_pin_shared_secret,
            x_pc, x_req, x_wrong, x_demanded>>

Faulty == INSTANCE ClientPin WITH
    PinMaxRetries <- FaultyMaxRetries, PinBlockThreshold <- FaultyThreshold,
    BuiltinUv <- TRUE, StoreFaults <- TRUE, SortedKeys <- FALSE, DirectApi <- TRUE,
    pin_hash <- x_pin_hash, pin_retries <- x_pin_retries, uv_retries <- x_uv_retries,
    force_change_pin <- x_force_change_pin, min_pin_length <- x_min_pin_length,
    pin_failures <- x_pin_failures, pin_uv_auth_token <- x_pin_uv_auth_token,
    pin_agreement_key <- x_pin_agreement_key, pin_shared_secret <- x_pin_shared_secret,
    pc <- x_pc, req <- x_req, wrong <- x_wrong, demanded <- x_demanded

MCInit == part \in {"wire", "faulty"} /\ Init /\ Faulty!Init

MCNext == \/ part = "wire" /\ Next /\ UNCHANGED <<part, x_vars>>
          \/ part = "faulty" /\ Faulty!Next /\ UNCHANGED <<part, vars>>

MCSpec == MCInit /\ [][MCNext]_<<part, vars, x_vars>>

\* A token never outlives the PIN it was issued for (set_pin_hash and
\* clear_pin_uv_auth_token), also when writes fail and PINs are set by the direct route.
FaultyTokenOfCurrentPin == Faulty!TokenOfCurrentPin
=============================================================================
