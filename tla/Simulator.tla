----------------------------- MODULE Simulator -----------------------------
(***************************************************************************)
(* The host simulator: one process with a CTAP2 authenticator and the      *)
(* applets behind a CardRouter, driven by JSON lines or raw CBOR frames.   *)
(* With --storage-path both sides have a StorageEngine of their own over   *)
(* the same file; without it both live in memory.                          *)
(*                                                                         *)
(* One applet stands for the four, with its whole state as one value.      *)
(* File errors are the subject of FileStore and StorageEngine.             *)
(***************************************************************************)
EXTENDS Integers, FiniteSets

CONSTANTS Values, Factory,  \* states of the applet; the one of a new applet
          Creds,            \* credential ids
          MaxCount,         \* bound on the signature counter
          Absent, None

Formats == {"none", "self", "packed", "u2f"}
\* -8 and -7: EdDSA and ES256.
Algorithms == {-8, -7}
ConstantsOK == /\ Factory \in Values /\ {Absent, None} \cap Values = {} /\ MaxCount \in Nat
               /\ Absent \notin BOOLEAN

VARIABLES storage_path,     \* --storage-path given
          raw,              \* --raw-cbor
          file,             \* the shared file: cred:*, client_pin_*, global_sign_count
                            \* (0: none), sys:*
          auth,             \* the authenticator: credentials, kv_store, attestation
          applet_storage,   \* kv_store of the applets' engine
          card_router,      \* the applet behind it: state and session
          running,
          enrolled, pinned, \* ghosts: what the host was told of credentials and PIN,
          seen,             \* and the last signature count (0: none)
          acked, wiped      \* ghosts: the applet's last acknowledged state; a CTAP2
                            \* Reset came after it

vars == <<storage_path, raw, file, auth, applet_storage, card_router, running,
          enrolled, pinned, seen, acked, wiped>>

NoFile == [cred |-> {}, pin |-> FALSE, count |-> 0, sys |-> Absent]
NewAuth(f) == [credentials |-> f.cred, pin |-> FALSE, count |-> 0, format |-> "none",
               cert |-> FALSE]

TypeOK ==
    /\ storage_path \in BOOLEAN /\ raw \in BOOLEAN /\ running \in BOOLEAN
    /\ file \in [cred : SUBSET Creds, pin : BOOLEAN, count : 0..MaxCount,
                 sys : Values \cup {Absent}]
    /\ auth \in [credentials : SUBSET Creds, pin : BOOLEAN, count : 0..MaxCount,
                 format : Formats, cert : BOOLEAN]
    /\ applet_storage \in Values \cup {Absent}
    /\ card_router \in [state : Values, session : BOOLEAN]
    /\ enrolled \subseteq Creds /\ pinned \in BOOLEAN /\ seen \in 0..MaxCount
    /\ acked \in Values /\ wiped \in BOOLEAN

----------------------------------------------------------------------------
(* Construction *)

\* retrieve: the backend first, then the copy in RAM.
retrieve(f, ram) == IF f # Absent THEN f ELSE ram

\* new_card_router_over: each applet loads its record, which the key derived from the
\* path opens in every process; without one it takes the factory state and stores it.
\* router_over is (the applet's state, the record, the copy in RAM).
Loaded(f, ram) ==
    LET found == retrieve(f, ram) IN IF found = Absent THEN Factory ELSE found
new_card_router_over(f, ram) ==
    LET s == Loaded(f, ram)
        store == retrieve(f, ram) = Absent
    IN  [router |-> [state |-> s, session |-> FALSE],
         sys |-> IF store /\ storage_path THEN s ELSE f,
         kv |-> IF store THEN s ELSE ram]

\* Simulator::new and with_storage_path: engines and applets over what the file holds.
with_storage_path ==
    LET over == new_card_router_over(file.sys, Absent)
    IN  /\ auth' = NewAuth(file)
        /\ card_router' = over.router /\ applet_storage' = over.kv
        /\ file' = [file EXCEPT !.sys = over.sys]

Init ==
    /\ storage_path \in BOOLEAN /\ raw \in BOOLEAN /\ running = FALSE
    /\ file = NoFile /\ auth = NewAuth(NoFile) /\ applet_storage = Absent
    /\ card_router = [state |-> Factory, session |-> FALSE]
    /\ enrolled = {} /\ pinned = FALSE /\ seen = 0 /\ acked = Factory /\ wiped = FALSE

\* Without a path the host starts from nothing, and knows it.
main ==
    /\ ~running /\ running' = TRUE /\ with_storage_path
    /\ enrolled' = IF storage_path THEN enrolled ELSE {}
    /\ pinned' = (storage_path /\ pinned)
    /\ seen' = (IF storage_path THEN seen ELSE 0)
    /\ acked' = (IF storage_path THEN acked ELSE Factory)
    /\ UNCHANGED <<storage_path, raw, wiped>>

\* End of input, a kill, or a panic: verify_assertion slices 37 bytes of an authData
\* it has not measured.
Exit == running /\ running' = FALSE
        /\ UNCHANGED <<storage_path, raw, file, auth, applet_storage, card_router,
                       enrolled, pinned, seen, acked, wiped>>

----------------------------------------------------------------------------
(* Operations of the JSON protocol; a raw frame reaches only process_command *)

Json == running /\ ~raw
AppletSide == <<applet_storage, card_router, acked>>

\* The certificate's key first, if its generation succeeds, then the format.
set_attestation_format(format) ==
    /\ Json
    /\ \/ auth' = [auth EXCEPT !.format = format, !.cert = @ \/ format = "packed"]
       \/ format = "packed" /\ UNCHANGED auth
    /\ UNCHANGED <<storage_path, raw, file, running, enrolled, pinned, seen, AppletSide, wiped>>

\* Whether the statement can be made: the packed key is an Ed25519 key whatever the
\* algorithm of the credential; the formats of no implementation are refused.
Attested(alg) ==
    CASE auth.format \in {"none", "self"} -> TRUE
      [] auth.format = "packed" -> auth.cert /\ alg = -8
      [] OTHER -> FALSE

\* The credential is stored before the statement is made: a failure leaves it stored
\* and the host without its id.
make_credential(c, alg) ==
    /\ running /\ c \notin auth.credentials /\ c \notin enrolled
    /\ auth' = [auth EXCEPT !.credentials = @ \cup {c}]
    /\ file' = IF storage_path THEN [file EXCEPT !.cred = @ \cup {c}] ELSE file
    /\ enrolled' = IF Attested(alg) THEN enrolled \cup {c} ELSE enrolled
    /\ UNCHANGED <<storage_path, raw, running, pinned, seen, AppletSide, wiped>>

\* get_assertion in JSON, for a credential named or found by its RP: the counter is
\* raised and stored (next_sign_count) before the answer shows it.
Count == IF file.count # 0 THEN file.count ELSE auth.count
get_assertion_mutant(c) ==
    /\ Json /\ c \in auth.credentials /\ Count < MaxCount
    /\ seen' = Count + 1 /\ auth' = [auth EXCEPT !.count = Count + 1]
    /\ UNCHANGED <<storage_path, raw, running, file, enrolled, pinned, AppletSide, wiped>>
get_assertion(c) ==
    /\ Json /\ c \in auth.credentials /\ Count < MaxCount
    /\ seen' = Count + 1
    /\ auth' = [auth EXCEPT !.count = Count + 1]
    /\ file' = IF storage_path THEN [file EXCEPT !.count = Count + 1] ELSE file
    /\ UNCHANGED <<storage_path, raw, running, enrolled, pinned, AppletSide, wiped>>

\* client_pin in JSON, setPIN and changePIN; get_info and the enumerations only read.
client_pin ==
    /\ Json /\ auth' = [auth EXCEPT !.pin = TRUE]
    /\ file' = IF storage_path THEN [file EXCEPT !.pin = TRUE] ELSE file
    /\ pinned' = TRUE
    /\ UNCHANGED <<storage_path, raw, running, enrolled, seen, AppletSide, wiped>>

\* process_command with authenticatorReset: StorageEngine::clear deletes every key of the
\* file, those of the applets too; nothing tells their engine.
process_command_reset ==
    /\ running
    /\ auth' = [auth EXCEPT !.credentials = {}, !.pin = FALSE, !.count = 0]
    /\ file' = NoFile
    /\ enrolled' = {} /\ pinned' = FALSE /\ seen' = 0 /\ wiped' = TRUE
    /\ UNCHANGED <<storage_path, raw, running, AppletSide>>

\* An APDU that opens a session, and one that changes the applet's state in it:
\* store writes the backend, then the copy in RAM.
apdu_verify ==
    /\ Json /\ card_router' = [card_router EXCEPT !.session = TRUE]
    /\ UNCHANGED <<storage_path, raw, file, auth, applet_storage, running,
                   enrolled, pinned, seen, acked, wiped>>
apdu(v) ==
    /\ Json /\ card_router.session
    /\ card_router' = [card_router EXCEPT !.state = v]
    /\ applet_storage' = v
    /\ file' = IF storage_path THEN [file EXCEPT !.sys = v] ELSE file
    /\ acked' = v /\ wiped' = FALSE
    /\ UNCHANGED <<storage_path, raw, auth, running, enrolled, pinned, seen>>

\* The operation "reset" is a restart, not a CTAP2 Reset: a new authenticator and a new
\* router over the same engine, or all new in memory.
reset ==
    /\ Json
    /\ auth' = NewAuth(file)
    /\ LET over == new_card_router_over(file.sys, IF storage_path THEN applet_storage ELSE Absent)
       IN  /\ card_router' = over.router /\ applet_storage' = over.kv
           /\ file' = [file EXCEPT !.sys = over.sys]
    /\ enrolled' = IF storage_path THEN enrolled ELSE {}
    /\ pinned' = (storage_path /\ pinned)
    /\ seen' = (IF storage_path THEN seen ELSE 0)
    /\ acked' = (IF storage_path THEN acked ELSE Factory)
    /\ UNCHANGED <<storage_path, raw, running, wiped>>

Next ==
    \/ main \/ Exit \/ client_pin \/ process_command_reset \/ apdu_verify \/ reset
    \/ \E format \in Formats : set_attestation_format(format)
    \/ \E c \in Creds, alg \in Algorithms : make_credential(c, alg)
    \/ \E c \in Creds : get_assertion(c)
    \/ \E v \in Values : apdu(v)

Spec == Init /\ [][Next]_vars

----------------------------------------------------------------------------
\* Every credential whose id the host holds is there, and the PIN is as the host set it,
\* over restarts and the operation "reset", whatever the applets do to the same file.
HostViewKept == running => /\ enrolled \subseteq auth.credentials
                           /\ retrieve(IF file.pin THEN TRUE ELSE Absent, auth.pin) = pinned

\* The next signature count is above the last one the host saw, over restarts and the
\* operation "reset", until a CTAP2 Reset or the memory of another process.
AssertionsCounted == running => Count >= seen

\* The applet shows its last acknowledged state, or the factory state once a CTAP2 Reset
\* has erased its record under it: never a state of before that (retrieve falls back on
\* the copy in RAM).
AppletViewKept == running => \/ card_router.state = acked
                             \/ wiped /\ storage_path /\ card_router.state = Factory

\* The format "packed" is never in force without a key to sign its statements.
PackedHasKey == auth.format = "packed" => auth.cert
=============================================================================
