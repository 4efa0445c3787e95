----------------------------- MODULE Assertions -----------------------------
(***************************************************************************)
(* Ctap2Authenticator: MakeCredential, GetAssertion and the chain of       *)
(* GetNextAssertion it starts, with credProtect, alwaysUv, the hmac-secret *)
(* session, deleteCredential and Reset.                                    *)
(*                                                                         *)
(* Credentials are the numbers of their places in the engine's BTreeMap; a *)
(* credential's relying party, credProtect level and whether it has        *)
(* CredRandom secrets go with its place.  A command that ends in an error  *)
(* without a change of state is not a step, except that process_command    *)
(* then still ends the hmac-secret session (OtherCommand).                 *)
(***************************************************************************)
EXTENDS Naturals, Sequences, FiniteSets

CONSTANTS CredCount,                \* number of places for credentials
          Rps, NoRp,
          RpOf, Protect, HasSecret, \* of each credential
          Clients,                  \* values of clientDataHash
          AllowLists,               \* the allowLists explored
          None                      \* the value of an absent Option

Creds == 1 .. CredCount

VARIABLES
    \* persistent
    resident, pin_set, always_uv,
    \* volatile, in Ctap2Authenticator
    pin_uv_auth_token, pin_agreement_key,
    get_next_assertion_state, hmac_secret_session,
    \* Reset in progress: the keys that clear() still has to delete, or None
    clearing,
    \* the last assertion returned, None if the last command returned none
    response,
    \* ghosts: what the current chain has served, and whether a credential was
    \* created or deleted since it began; whether a Reset was cut short
    served, disturbed, torn

persistent == <<resident, pin_set, always_uv>>
volatile == <<pin_uv_auth_token, pin_agreement_key, get_next_assertion_state,
              hmac_secret_session>>
ghosts == <<served, disturbed>>
vars == <<persistent, volatile, clearing, response, ghosts, torn>>

Uses == {"mc_ga", "cm", "acfg"}
Tokens == [use : Uses, rp : Rps \cup {NoRp}]
Chains == [rp_id : Rps, allow_list : AllowLists, client_data_hash : Clients,
           uv : BOOLEAN, hmac : BOOLEAN, uv_satisfied : BOOLEAN, current_index : Creds]
Responses == [id : Creds, rp_id : Rps, listed : BOOLEAN, uv : BOOLEAN,
              secret : {"none", "with_uv", "without_uv"}, session : Clients \cup {None},
              client_data_hash : Clients, repeated : BOOLEAN]
\* clear() takes the keys in order: client_pin_* before cred:* before sys:cfg_*.
PinKey == 0
AlwaysUvKey == CredCount + 1
ResetKeys == PinKey .. AlwaysUvKey

\* Bound: an allowList has no more entries than there are credentials.  None is no
\* value that a field with it may have.
ConstantsOK ==
    /\ CredCount \in Nat
    /\ RpOf \in [Creds -> Rps] /\ Protect \in [Creds -> 1 .. 3]
    /\ HasSecret \in [Creds -> BOOLEAN] /\ NoRp \notin Rps
    /\ \A allow_list \in AllowLists :
          allow_list \in Seq(Creds) /\ Len(allow_list) <= CredCount
    /\ None \notin Clients /\ \A keys \in SUBSET ResetKeys : keys # None
    /\ None \notin Tokens /\ None \notin Chains /\ None \notin Responses

TypeOK ==
    /\ resident \subseteq Creds /\ pin_set \in BOOLEAN /\ always_uv \in BOOLEAN
    /\ pin_uv_auth_token \in Tokens \cup {None} /\ pin_agreement_key \in BOOLEAN
    /\ get_next_assertion_state \in Chains \cup {None}
    /\ hmac_secret_session \in Clients \cup {None}
    /\ clearing = None \/ clearing \subseteq ResetKeys
    /\ response \in Responses \cup {None}
    /\ served \subseteq Creds /\ disturbed \in BOOLEAN /\ torn \in BOOLEAN

Init ==
    /\ resident = {} /\ pin_set = FALSE /\ always_uv = FALSE
    /\ pin_uv_auth_token = None /\ pin_agreement_key = FALSE
    /\ get_next_assertion_state = None /\ hmac_secret_session = None
    /\ clearing = None /\ response = None
    /\ served = {} /\ disturbed = FALSE /\ torn = FALSE

----------------------------------------------------------------------------
\* process_command: any command but GetNextAssertion ends the hmac-secret session.
SessionOnEntry_mutant == hmac_secret_session
SessionOnEntry == None
process_command ==
    /\ clearing = None /\ hmac_secret_session' = SessionOnEntry
    /\ UNCHANGED torn

\* verify_pin_uv_auth_for_operation, with the MAC valid.
verify_pin_uv_auth_for_operation(use, rp) ==
    /\ pin_uv_auth_token # None /\ pin_uv_auth_token.use = use
    /\ pin_uv_auth_token.rp \in {NoRp, rp}

\* The gates MakeCredential and GetAssertion share.
UvGates(uv, pin_authenticated) ==
    /\ uv /\ pin_set => pin_authenticated
    /\ always_uv => uv

cred_protect_uv_satisfied(pin_authenticated) == pin_authenticated \/ always_uv

is_cred_protect_allowed_mutant(c, uv_satisfied, named) == uv_satisfied \/ Protect[c] < 3
is_cred_protect_allowed(c, uv_satisfied, named) ==
    uv_satisfied \/ Protect[c] = 1 \/ (Protect[c] = 2 /\ named)

\* The elements of a set of numbers in ascending order.
Ascending(S) ==
    CHOOSE s \in [1 .. Cardinality(S) -> S] : \A i, j \in DOMAIN s : i < j => s[i] < s[j]

\* Discovery by RP, in the order of the BTreeMap.
Discovered(rp, uv_satisfied) ==
    Ascending({c \in resident : RpOf[c] = rp /\ is_cred_protect_allowed(c, uv_satisfied, FALSE)})

\* The credentials an allowList names, in the list's order.
Named(rp, allow_list, uv_satisfied) ==
    LET places == Ascending({i \in DOMAIN allow_list :
                                /\ allow_list[i] \in resident /\ RpOf[allow_list[i]] = rp
                                /\ is_cred_protect_allowed(allow_list[i], uv_satisfied, TRUE)})
    IN  [k \in DOMAIN places |-> allow_list[places[k]]]

find_matching_credentials(rp, allow_list, uv_satisfied) ==
    IF allow_list = <<>> THEN Discovered(rp, uv_satisfied)
    ELSE Named(rp, allow_list, uv_satisfied)

\* GetAssertion's choice is the first of these: of the allowList, else of discovery.
Candidates(rp, allow_list, uv_satisfied) ==
    LET named == Named(rp, allow_list, uv_satisfied)
    IN  IF DOMAIN named # {} THEN named ELSE Discovered(rp, uv_satisfied)

Listed(c, allow_list) == \E i \in DOMAIN allow_list : allow_list[i] = c
ListedTwice(c, allow_list) ==
    \E i, j \in DOMAIN allow_list : i < j /\ allow_list[i] = c /\ allow_list[j] = c

----------------------------------------------------------------------------
make_credential(c, uv, pin_authenticated) ==
    /\ process_command
    /\ pin_authenticated => verify_pin_uv_auth_for_operation("mc_ga", RpOf[c])
    /\ UvGates(uv, pin_authenticated)
    /\ c \notin resident /\ resident' = resident \cup {c}
    /\ response' = None /\ disturbed' = TRUE
    /\ UNCHANGED <<pin_set, always_uv, pin_uv_auth_token, pin_agreement_key,
                   get_next_assertion_state, clearing, served>>

\* The CredRandom that an hmac-secret output is made with, if there is a session.
CredRandom(session, verified) ==
    CASE session = None -> "none"
      [] session # None /\ verified -> "with_uv"
      [] session # None /\ ~verified -> "without_uv"

Answer(c, rp, allow_list, client, uv, secret, session, repeated) ==
    [id |-> c, rp_id |-> rp, listed |-> Listed(c, allow_list),
     uv |-> uv, secret |-> secret, session |-> session, client_data_hash |-> client,
     repeated |-> repeated]

\* hmac-secret in GetAssertion: ignored for a credential without CredRandom, else
\* the agreement key is consumed and a session begins.
begin_session(c, hmac, client) ==
    IF hmac /\ HasSecret[c]
    THEN pin_agreement_key /\ pin_agreement_key' = FALSE
    ELSE UNCHANGED pin_agreement_key

get_assertion(rp, allow_list, client, uv, pin_authenticated, hmac) ==
    LET uv_satisfied == cred_protect_uv_satisfied(pin_authenticated)
        candidates   == Candidates(rp, allow_list, uv_satisfied)
        matching     == find_matching_credentials(rp, allow_list, uv_satisfied)
        c            == candidates[1]
        session      == IF hmac /\ HasSecret[c] THEN client ELSE None
        secret       == CredRandom(session, pin_authenticated)
    IN  /\ clearing = None
        /\ pin_authenticated => verify_pin_uv_auth_for_operation("mc_ga", rp)
        /\ UvGates(uv, pin_authenticated)
        /\ DOMAIN candidates # {}
        /\ begin_session(c, hmac, client)
        /\ response' = Answer(c, rp, allow_list, client, pin_authenticated, secret, session, FALSE)
        /\ IF Len(matching) > 1
           THEN /\ get_next_assertion_state' =
                      [rp_id |-> rp, allow_list |-> allow_list, client_data_hash |-> client,
                       uv |-> pin_authenticated, hmac |-> hmac, uv_satisfied |-> uv_satisfied,
                       current_index |-> 1]
                /\ hmac_secret_session' = IF session # None THEN session ELSE SessionOnEntry
                /\ served' = {c} /\ disturbed' = FALSE
           ELSE hmac_secret_session' = None /\ UNCHANGED <<get_next_assertion_state, ghosts>>
        /\ UNCHANGED <<persistent, pin_uv_auth_token, clearing, torn>>

\* hmac-secret fails after the agreement key was taken: saltAuth or the salts.
FailHmac ==
    /\ process_command
    /\ pin_agreement_key /\ pin_agreement_key' = FALSE
    /\ response' = None
    /\ UNCHANGED <<persistent, pin_uv_auth_token, get_next_assertion_state, clearing, ghosts>>

\* The chain moves on even when the counter cannot be stored and no assertion is
\* returned; it ends when no credential is left.
Advanced(chain) == [chain EXCEPT !.current_index = @ + 1]

EndChain == get_next_assertion_state' = None

handle_get_next_assertion ==
    LET chain    == get_next_assertion_state
        matching == find_matching_credentials(chain.rp_id, chain.allow_list, chain.uv_satisfied)
        next     == chain.current_index + 1
        c        == matching[next]
        session  == IF chain.hmac /\ HasSecret[c] THEN hmac_secret_session ELSE None
        secret   == CredRandom(session, chain.uv_satisfied)
    IN  /\ clearing = None /\ chain # None
        /\ \/ /\ next > Len(matching)
              /\ EndChain /\ hmac_secret_session' = None
              /\ response' = None /\ UNCHANGED served
           \/ /\ next <= Len(matching)
              /\ get_next_assertion_state' = Advanced(chain)
              /\ hmac_secret_session' = IF next < Len(matching) THEN hmac_secret_session ELSE None
              /\ \/ /\ response' = Answer(c, chain.rp_id, chain.allow_list, chain.client_data_hash,
                                           chain.uv, secret, session,
                                           c \in served /\ ~ListedTwice(c, chain.allow_list))
                    /\ served' = served \cup {c}
                 \/ response' = None /\ UNCHANGED served
        /\ UNCHANGED <<persistent, pin_uv_auth_token, pin_agreement_key, clearing, disturbed, torn>>

----------------------------------------------------------------------------
handle_cred_mgmt_delete_credential(c) ==
    /\ process_command
    /\ verify_pin_uv_auth_for_operation("cm", NoRp)
    /\ c \in resident /\ resident' = resident \ {c}
    /\ response' = None /\ disturbed' = TRUE
    /\ UNCHANGED <<pin_set, always_uv, pin_uv_auth_token, pin_agreement_key,
                   get_next_assertion_state, clearing, served>>

toggle_always_uv ==
    /\ process_command
    /\ pin_set /\ verify_pin_uv_auth_for_operation("acfg", NoRp)
    /\ always_uv' = ~always_uv
    /\ response' = None
    /\ UNCHANGED <<resident, pin_set, pin_uv_auth_token, pin_agreement_key,
                   get_next_assertion_state, clearing, ghosts>>

\* authenticatorClientPIN, as far as these commands depend on it: see ClientPin.
SetPin ==
    /\ process_command
    /\ ~pin_set /\ pin_set' = TRUE /\ pin_uv_auth_token' = None
    /\ response' = None
    /\ UNCHANGED <<resident, always_uv, pin_agreement_key, get_next_assertion_state,
                   clearing, ghosts>>

IssueToken(use, rp) ==
    /\ process_command
    /\ pin_set /\ pin_uv_auth_token' = [use |-> use, rp |-> rp]
    /\ response' = None
    /\ UNCHANGED <<persistent, pin_agreement_key, get_next_assertion_state, clearing, ghosts>>

handle_get_key_agreement ==
    /\ process_command
    /\ pin_agreement_key' = TRUE /\ response' = None
    /\ UNCHANGED <<persistent, pin_uv_auth_token, get_next_assertion_state, clearing, ghosts>>

\* GetInfo, Selection, a refused command, ...
OtherCommand ==
    /\ process_command
    /\ response' = None
    /\ UNCHANGED <<persistent, pin_uv_auth_token, pin_agreement_key,
                   get_next_assertion_state, clearing, ghosts>>

----------------------------------------------------------------------------
\* Reset: StorageEngine::clear deletes key after key; the session goes last.
handle_reset ==
    /\ process_command
    /\ clearing' = resident \cup {PinKey, AlwaysUvKey}
    /\ response' = None
    /\ UNCHANGED <<persistent, pin_uv_auth_token, pin_agreement_key,
                   get_next_assertion_state, ghosts>>

ClearKey(k) ==
    /\ clearing # None /\ k \in clearing /\ \A other \in clearing : k <= other
    /\ clearing' = clearing \ {k}
    /\ resident' = resident \ {k}
    /\ pin_set' = (pin_set /\ k # PinKey)
    /\ always_uv' = (always_uv /\ k # AlwaysUvKey)
    /\ UNCHANGED <<volatile, response, ghosts, torn>>

Forget ==
    /\ pin_uv_auth_token' = None /\ pin_agreement_key' = FALSE
    /\ get_next_assertion_state' = None /\ hmac_secret_session' = None
    /\ clearing' = None /\ response' = None
    /\ UNCHANGED <<persistent, ghosts>>

FinishReset == clearing = {} /\ Forget /\ torn' = FALSE

\* The power may go in the middle of a Reset, which is then not resumed.
PowerCycle == Forget /\ torn' = (torn \/ clearing # None)

Next ==
    \/ \E c \in Creds, uv, pin_authenticated \in BOOLEAN : make_credential(c, uv, pin_authenticated)
    \/ \E rp \in Rps, allow_list \in AllowLists, client \in Clients,
          uv, pin_authenticated, hmac \in BOOLEAN :
            get_assertion(rp, allow_list, client, uv, pin_authenticated, hmac)
    \/ FailHmac \/ handle_get_next_assertion
    \/ \E c \in Creds : handle_cred_mgmt_delete_credential(c)
    \/ toggle_always_uv \/ SetPin
    \/ \E rp \in Rps \cup {NoRp} : IssueToken("mc_ga", rp)
    \/ \E use \in {"cm", "acfg"} : IssueToken(use, NoRp)
    \/ handle_get_key_agreement \/ OtherCommand
    \/ handle_reset \/ (\E k \in ResetKeys : ClearKey(k)) \/ FinishReset
    \/ PowerCycle

Spec == Init /\ [][Next]_vars

----------------------------------------------------------------------------
\* credProtect: a level 3 credential is only ever asserted, first or chained, under
\* a verified pinUvAuthToken, and a level 2 one only so or when the request named
\* it, however the chain was interrupted (is_cred_protect_allowed: "nivel 3:
\* somente com UV valida").  A Reset cut short may leave alwaysUv on without a PIN,
\* and then nothing verifies.
ProtectedNeedsUv ==
    response # None /\ ~response.uv /\ ~torn =>
        \/ Protect[response.id] = 1
        \/ Protect[response.id] = 2 /\ response.listed

\* Whichever assertion of a chain carries it, an hmac-secret output is made with
\* CredRandomWithUV exactly when its UV flag is set ("O CredRandom segue a MESMA
\* selecao UV da assercao inicial"); again but for a Reset cut short.
SecretFollowsFlag ==
    response # None /\ response.secret # "none" /\ ~torn => (response.secret = "with_uv" <=> response.uv)

\* The hmac-secret session lives only inside the chain of the GetAssertion that began
\* it, so a chained output is never made with another request's salts (ADR-0022).
SessionInsideItsChain ==
    /\ hmac_secret_session # None =>
          /\ get_next_assertion_state # None
          /\ get_next_assertion_state.client_data_hash = hmac_secret_session
    /\ response # None => response.session \in {None, response.client_data_hash}

\* Unless credentials are created or deleted in between, a chain serves no credential
\* twice, but for one that its allowList names twice, whatever other commands interrupt
\* it, and it always answers for the relying party it was started for.
ChainServesOnce ==
    response # None => /\ RpOf[response.id] = response.rp_id
                       /\ response.repeated => disturbed

\* A chain serves no credential twice and stays with its relying party; its hmac-secret
\* session is its own and uses the secret its UV flag announces
\* (handle_get_next_assertion, hmac_secret_session).
ChainKeepsItsOwn ==
    TypeOK /\ ChainServesOnce /\ SessionInsideItsChain /\ SecretFollowsFlag
=============================================================================
