---------------------------- MODULE Registration ----------------------------
(***************************************************************************)
(* authenticatorMakeCredential as a whole: its gates, the choice of the    *)
(* algorithm, the stored credential and then the attestation statement,    *)
(* with the settings of authenticatorConfig it depends on (alwaysUv,       *)
(* enterprise attestation) and the Reset that erases them key by key.      *)
(*                                                                         *)
(* A credential is its algorithm.  Requests that are refused before        *)
(* anything is stored change nothing and are not actions: an empty rp id   *)
(* or client data hash, a pinUvAuthParam that does not verify, no user     *)
(* presence, no supported algorithm, a credBlob over 32 bytes, a malformed *)
(* hmac-secret input, an excluded credential.                              *)
(***************************************************************************)
EXTENDS Integers, Sequences

CONSTANTS MaxCreds,         \* credentials drawn
          Rps,              \* relying parties
          Supported,        \* algorithms this build generates keys for
          Requested,        \* lists of algorithms a platform asks for
          CertKeys,         \* algorithms of attestation keys
          MaxEnables,       \* enableEnterpriseAttestation commands
          MaxResets,
          None

Ids == 1 .. MaxCreds
Unbound == "unbound"        \* a token for any relying party
Flags == {"pin", "always_uv", "ep_pending"}
Formats == {"none", "self", "packed", "apple"}
Responses == [id : Ids, rp : Rps, alg : Supported, uv : BOOLEAN, always : BOOLEAN,
              fmt : Formats, x5c : BOOLEAN]
ConstantsOK ==
    /\ MaxCreds \in Nat /\ MaxEnables \in Nat /\ MaxResets \in Nat
    /\ -8 \in Supported /\ Requested \subseteq Seq(Int)
    /\ None \notin Rps \cup {Unbound}

VARIABLES kv, creds,        \* the backend: plain records, and the algorithm of each credential
          kv_store, credentials,    \* StorageEngine
          token,            \* pinUvAuthToken with mc and acfg: the rp it is bound to
          attestation,      \* attestation_format and the algorithm of attestation_cert, as the
                            \* firmware sets them at every start
          pc, req, left,    \* a running command, and the keys a Reset has still to delete
          answered,         \* ghost: the credentials whose response was sent
          response,         \* the last response
          enables, given,   \* ghosts: enterprise attestations allowed, given
          faulty, torn,     \* ghosts: a deletion failed; a Reset was cut short
          drawn, resets

ghosts == <<answered, enables, given, faulty, torn, resets>>
vars == <<kv, creds, kv_store, credentials, token, attestation, pc, req, left, response,
          drawn, ghosts>>

NoCreds == [c \in {} |-> 0]
Nothing == [kv |-> {}, creds |-> {}]

TypeOK ==
    /\ kv \subseteq Flags /\ kv_store \subseteq Flags
    /\ DOMAIN creds \subseteq Ids /\ DOMAIN credentials \subseteq Ids
    /\ \A c \in DOMAIN creds : creds[c] \in Supported
    /\ \A c \in DOMAIN credentials : credentials[c] \in Supported
    /\ token \in Rps \cup {Unbound, None} /\ left \in [kv : SUBSET Flags, creds : SUBSET Ids]
    /\ attestation \in [format : Formats, cert : CertKeys \cup {None}]
    /\ pc \in {"idle", "attest", "clear", "off"}
    /\ response \in Responses \cup {None} /\ answered \subseteq Ids
    /\ enables \in 0 .. MaxEnables /\ drawn \in 0 .. MaxCreds /\ resets \in 0 .. MaxResets

Init ==
    /\ kv = {} /\ creds = NoCreds /\ kv_store = {} /\ credentials = NoCreds
    /\ token = None /\ attestation \in [format : Formats, cert : CertKeys \cup {None}]
    /\ pc = "idle" /\ req = None /\ left = Nothing /\ response = None
    /\ answered = {} /\ enables = 0 /\ given = 0 /\ faulty = FALSE /\ torn = FALSE
    /\ drawn = 0 /\ resets = 0

----------------------------------------------------------------------------
(* The key-value store *)

\* retrieve(key).is_ok(): the backend, then the copy in RAM.
IsSet(f) == f \in kv \cup kv_store

\* store: the backend first.
store(f) == kv' = kv \cup {f} /\ kv_store' = kv_store \cup {f}

\* delete: an error of the backend is dropped and the key is still there.
delete(f) ==
    /\ kv_store' = kv_store \ {f}
    /\ \/ kv' = kv \ {f} /\ UNCHANGED faulty
       \/ f \in kv /\ UNCHANGED kv /\ faulty' = TRUE

----------------------------------------------------------------------------
(* MakeCredential, up to the stored credential *)

\* verify_pin_uv_auth_for_operation: the token of this session, for this relying party.
pin_authenticated(rp) == token \in {rp, Unbound}

\* A set PIN asks for the token when uv is requested; alwaysUv asks for the request of uv.
UvGate_mutant(uv, authenticated) == uv /\ IsSet("pin") => authenticated
UvGate(uv, authenticated) ==
    /\ uv /\ IsSet("pin") => authenticated
    /\ IsSet("always_uv") => uv

\* The first supported algorithm of the list, EdDSA for an empty one.
selected_alg(params) ==
    IF params = <<>> THEN -8
    ELSE LET i == CHOOSE i \in DOMAIN params :
                     params[i] \in Supported /\ \A j \in 1 .. i - 1 : params[j] \notin Supported
         IN  params[i]
HasAlgorithm(params) == params = <<>> \/ \E i \in DOMAIN params : params[i] \in Supported

\* A failed write stores nothing and ends the command.
Inserted(map, c, alg) == [d \in DOMAIN map \cup {c} |-> IF d = c THEN alg ELSE map[d]]
store_credential_mutant(c, alg) ==
    /\ credentials' = Inserted(credentials, c, alg)
    /\ creds' = Inserted(creds, c, alg) \/ UNCHANGED creds
store_credential(c, alg) ==
    /\ credentials' = Inserted(credentials, c, alg) /\ creds' = Inserted(creds, c, alg)

\* UV is claimed for a verification that took place, not for the option.
FlagUv(uv, authenticated) == authenticated

make_credential(rp, uv, auth, params) ==
    LET alg == selected_alg(params)
    IN  /\ pc = "idle" /\ drawn < MaxCreds
        /\ auth => pin_authenticated(rp)
        /\ UvGate(uv, auth) /\ HasAlgorithm(params)
        /\ drawn' = drawn + 1
        /\ store_credential(drawn', alg)
        /\ req' = [id |-> drawn', rp |-> rp, alg |-> alg, uv |-> FlagUv(uv, auth), auth |-> auth]
        /\ pc' = "attest"
        /\ UNCHANGED <<kv, kv_store, token, attestation, left, response, ghosts>>

----------------------------------------------------------------------------
(* ... and its attestation *)

\* The formats without an implementation are refused, the credential being stored already.
Implemented == {"none", "self", "packed"}

\* Keys of other algorithms have another form (a 32-byte seed for EdDSA, PKCS#8 for the
\* others) and do not sign.
sign_for_attestation(alg, key) == alg = key

\* PackedAttestation::generate signs with the certificate's key if there is one,
\* SelfAttestation::generate with the credential's.
SigningKey(fmt, alg) ==
    IF fmt = "packed" /\ attestation.cert # None THEN attestation.cert ELSE alg

\* consume_ep_pending: at most one statement for each permission.
consume_ep_pending ==
    IF IsSet("ep_pending") THEN delete("ep_pending") ELSE UNCHANGED <<kv, kv_store, faulty>>

effective_format == IF IsSet("ep_pending") THEN "packed" ELSE attestation.format

Attest ==
    /\ pc = "attest" /\ pc' = "idle" /\ req' = None
    /\ consume_ep_pending
    /\ IF /\ effective_format \in Implemented
          /\ effective_format # "none" =>
                sign_for_attestation(req.alg, SigningKey(effective_format, req.alg))
       THEN /\ response' = [id |-> req.id, rp |-> req.rp, alg |-> req.alg, uv |-> req.uv,
                            always |-> IsSet("always_uv"), fmt |-> effective_format,
                            x5c |-> effective_format = "packed" /\ attestation.cert # None]
            /\ answered' = answered \cup {req.id}
            /\ given' = IF effective_format # attestation.format THEN given + 1 ELSE given
       ELSE UNCHANGED <<response, answered, given>>
    /\ UNCHANGED <<creds, credentials, token, attestation, left, enables, torn, drawn, resets>>

----------------------------------------------------------------------------
(* Settings *)

Idle == pc = "idle" /\ UNCHANGED <<pc, req, left, response, drawn>>

\* ClientPIN sets the PIN, which ends the token, and issues one bound to a relying party or not.
SetPin ==
    /\ Idle /\ ~IsSet("pin") /\ store("pin") /\ token' = None
    /\ UNCHANGED <<creds, credentials, attestation, ghosts>>
IssueToken(rp) ==
    /\ Idle /\ IsSet("pin") /\ token' = rp
    /\ UNCHANGED <<kv, kv_store, creds, credentials, attestation, ghosts>>

\* authenticatorConfig names no relying party: a bound token is refused.
\* enableEnterpriseAttestation does not ask for a PIN, but for the token all the same.
EnableEnterpriseAttestation ==
    /\ Idle /\ token = Unbound /\ enables < MaxEnables
    /\ store("ep_pending") /\ enables' = enables + 1
    /\ UNCHANGED <<creds, credentials, token, attestation, answered, given, faulty, torn, resets>>

toggle_flag(f) ==
    /\ Idle /\ token = Unbound /\ IsSet("pin")
    /\ IF IsSet(f) THEN delete(f) ELSE store(f) /\ UNCHANGED faulty
    /\ UNCHANGED <<creds, credentials, token, attestation, answered, enables, given, torn, resets>>

----------------------------------------------------------------------------
(* Reset, key by key in any order, and loss of power *)

handle_reset ==
    /\ pc = "idle" /\ resets < MaxResets /\ pc' = "clear"
    /\ left' = [kv |-> kv, creds |-> DOMAIN creds]
    /\ answered' = {} /\ resets' = resets + 1
    /\ UNCHANGED <<kv, creds, kv_store, credentials, token, attestation, req, response,
                   enables, given, faulty, torn, drawn>>

ClearKey(f) ==
    /\ pc = "clear" /\ f \in left.kv
    /\ left' = [left EXCEPT !.kv = @ \ {f}] /\ kv' = kv \ {f}
    /\ UNCHANGED <<creds, kv_store, credentials, token, attestation, pc, req, response, drawn, ghosts>>

ClearCredential(c) ==
    /\ pc = "clear" /\ c \in left.creds
    /\ left' = [left EXCEPT !.creds = @ \ {c}]
    /\ creds' = [d \in DOMAIN creds \ {c} |-> creds[d]]
    /\ UNCHANGED <<kv, kv_store, credentials, token, attestation, pc, req, response, drawn, ghosts>>

FinishReset ==
    /\ pc = "clear" /\ left = Nothing /\ pc' = "idle"
    /\ kv_store' = {} /\ credentials' = NoCreds /\ token' = None
    /\ UNCHANGED <<kv, creds, attestation, req, left, response, drawn, ghosts>>

PowerLoss ==
    /\ pc # "off" /\ pc' = "off" /\ req' = None /\ left' = Nothing
    /\ kv_store' = {} /\ credentials' = NoCreds /\ token' = None
    /\ torn' = (torn \/ pc = "clear")
    /\ UNCHANGED <<kv, creds, attestation, response, answered, enables, given, faulty, drawn, resets>>

load_from_backend ==
    /\ pc = "off" /\ pc' = "idle" /\ credentials' = creds
    /\ UNCHANGED <<kv, creds, kv_store, token, attestation, req, left, response, drawn, ghosts>>

----------------------------------------------------------------------------
Next ==
    \/ \E rp \in Rps, uv, auth \in BOOLEAN, params \in Requested :
          make_credential(rp, uv, auth, params)
    \/ Attest \/ SetPin \/ EnableEnterpriseAttestation \/ toggle_flag("always_uv")
    \/ \E rp \in Rps \cup {Unbound} : IssueToken(rp)
    \/ handle_reset \/ (\E f \in Flags : ClearKey(f)) \/ (\E c \in Ids : ClearCredential(c))
    \/ FinishReset \/ PowerLoss \/ load_from_backend

Spec == Init /\ [][Next]_vars

----------------------------------------------------------------------------
\* A credential whose response was sent is in the backend, with the algorithm of the
\* response, until a Reset; over losses of power and failed registrations in between.
RegisteredIsStored ==
    /\ answered \subseteq DOMAIN creds
    /\ response # None /\ response.id \in answered => creds[response.id] = response.alg

\* The flag UV is set only by a command that showed a token of the PIN, bound to this
\* relying party or to none (the comment on flags in make_credential).
UvFlagHonest == pc = "attest" /\ req.uv => req.auth /\ IsSet("pin") /\ token \in {req.rp, Unbound}

\* With alwaysUv in force a registration was verified, unless a Reset was cut short
\* between the PIN and the setting.
AlwaysUvHonoured == response # None /\ response.always => response.uv \/ torn

\* Each enableEnterpriseAttestation is worth one enterprise statement at most, over losses
\* of power, unless the deletion of the flag failed (consume_ep_pending drops its error).
EnterpriseOnce == ~faulty => given <= enables
=============================================================================
