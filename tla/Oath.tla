-------------------------------- MODULE Oath --------------------------------
(***************************************************************************)
(* OathApplet (YKOATH): credentials by name, with the counters of the HOTP *)
(* ones, and an access code that VALIDATE proves with a challenge, in RAM  *)
(* and as one encrypted record under "sys:oath".                           *)
(*                                                                         *)
(* Commands are cut before persist_state as in Piv.  Most of them take     *)
(* nothing back when the write fails: only CALCULATE does.  LIST,          *)
(* CALCULATE ALL, CALCULATE of a TOTP credential and refused commands      *)
(* change nothing; the mirror of the last response that SEND REMAINING     *)
(* reads is in CardRouter.                                                 *)
(*                                                                         *)
(* A secret is the PUT that brought it (secrets are numbered), a code is a *)
(* secret and a moving factor, an HMAC is its key and its challenge.       *)
(***************************************************************************)
EXTENDS Naturals, FiniteSets

CONSTANTS Names, NameLen, MaxNameLen,   \* names of credentials and their lengths
          AccessKeys,
          MaxCredentials,   \* MAX_CREDENTIALS
          MaxCounter,       \* u64::MAX
          MaxSecrets,       \* bound: credentials put
          MaxChallenges,    \* bound: challenges the device issues
          None

VARIABLES disk,         \* the record under "sys:oath"
          state,        \* OathApplet::state
          validated,
          selected,     \* the router's current applet is this one
          pc, req,      \* "persist": the write of the running command is due
          used, issued, \* numbers of secrets put and of challenges issued
          \* ghosts: HMACs seen by anyone on the bus; a holder of the access code has
          \* answered since the last SELECT; the code was changed in a session without
          \* such an answer; codes handed out, and those handed out twice
          macs, proved, intruded, codes, repeats

vars == <<disk, state, validated, selected, pc, req, used, issued,
          macs, proved, intruded, codes, repeats>>

\* A challenge of the host is one it has seen, or its own (0).
Challenges == 0 .. MaxChallenges
Counters == 0 .. MaxCounter

\* OathType with its data: a HOTP credential has a moving factor, a TOTP one has none.
OathCredential == [secret : 1 .. MaxSecrets, hotp_counter : Counters \cup {None}]
OathState == [access : AccessKeys \cup {None}, pending : Challenges \cup {None},
              credentials : [Names -> OathCredential \cup {None}]]

\* What TLC evaluates, and the theorems assume, of the constants.
ConstantsOK ==
    /\ IsFiniteSet(Names) /\ NameLen \in [Names -> Nat] /\ MaxNameLen \in Nat
    /\ MaxCredentials \in Nat /\ MaxCounter \in Nat \ {0}
    /\ MaxSecrets \in Nat /\ MaxChallenges \in Nat
    /\ None \notin AccessKeys /\ None \notin Nat
    /\ None \notin OathCredential /\ None \notin OathState

Kinds == {"factory", "select", "put", "change", "set_code", "reset", "calculate", "validate"}
Requests == [kind : Kinds, name : Names \cup {None},
             moving : Counters, previous : Counters]

TypeOK ==
    /\ disk \in OathState \cup {None} /\ state \in OathState \cup {None}
    /\ state = None <=> pc = "off"
    /\ validated \in BOOLEAN /\ selected \in BOOLEAN
    /\ pc \in {"off", "idle", "persist"} /\ req \in Requests
    /\ used \in 0 .. MaxSecrets /\ issued \in Challenges
    /\ macs \subseteq AccessKeys \X Challenges /\ proved \in BOOLEAN /\ intruded \in BOOLEAN
    /\ codes \subseteq (1 .. MaxSecrets) \X Counters /\ repeats \subseteq codes

----------------------------------------------------------------------------
(* The record *)

factory_state == [access |-> None, pending |-> None, credentials |-> [n \in Names |-> None]]

Stored(s) == {n \in Names : s.credentials[n] # None}

\* parse_state refuses a record with too many credentials or with a name that is empty
\* or too long; one without access code has no challenge.
parse_state(r) ==
    IF /\ Cardinality(Stored(r)) <= MaxCredentials
       /\ \A n \in Stored(r) : NameLen[n] \in 1 .. MaxNameLen
    THEN r ELSE None

\* serialize_state writes the challenge only beside an access code.
serialize_state(s) == IF s.access = None THEN [s EXCEPT !.pending = None] ELSE s

Request(kind) == [kind |-> kind, name |-> None, moving |-> 0, previous |-> 0]
NoRequest == Request("factory")
Persist(request) == pc' = "persist" /\ req' = request
PersistAs(kind) == Persist(Request(kind))

Init ==
    /\ disk = None /\ state = None /\ validated = FALSE /\ selected = FALSE
    /\ pc = "off" /\ req = NoRequest
    /\ used = 0 /\ issued = 0
    /\ macs = {} /\ proved = FALSE /\ intruded = FALSE /\ codes = {} /\ repeats = {}

\* OathApplet::new: the record if it can be read this time, else the factory state.
ensure_loaded ==
    /\ pc = "off"
    /\ \/ /\ disk # None /\ parse_state(disk) # None
          /\ state' = parse_state(disk) /\ pc' = "idle" /\ UNCHANGED req
       \/ state' = factory_state /\ PersistAs("factory")
    /\ UNCHANGED <<disk, validated, selected, used, issued, macs, proved, intruded, codes, repeats>>

----------------------------------------------------------------------------
(* Sessions *)

\* The router gives commands to the selected applet.
Idle == pc = "idle" /\ selected

require_validated == state.access # None => validated

\* SELECT: the session is over, and with an access code a new challenge is written.
select ==
    /\ pc = "idle"
    /\ validated' = FALSE /\ proved' = FALSE
    /\ IF state.access # None
       THEN /\ issued < MaxChallenges /\ issued' = issued + 1
            /\ state' = [state EXCEPT !.pending = issued'] /\ PersistAs("select")
            /\ UNCHANGED selected
       ELSE selected' = TRUE /\ UNCHANGED <<state, pc, req, issued>>
    /\ UNCHANGED <<disk, used, macs, intruded, codes, repeats>>

\* The host selects another applet, which this one is not told.
SelectOther ==
    /\ Idle /\ selected' = FALSE
    /\ UNCHANGED <<disk, state, validated, pc, req, used, issued, macs, proved, intruded,
                   codes, repeats>>

\* A host that holds the access code computes the answer to the pending challenge;
\* any host may also send an answer that was seen before.
cmd_validate(mac, challenge) ==
    /\ Idle /\ state.access # None /\ state.pending # None
    /\ LET holder == mac \notin macs
       IN  /\ mac = <<state.access, state.pending>>
           /\ macs' = macs \cup {mac, <<state.access, challenge>>}
           /\ proved' = (proved \/ holder)
    /\ state' = [state EXCEPT !.pending = challenge]
    /\ PersistAs("validate")
    /\ UNCHANGED <<disk, validated, selected, used, issued, intruded, codes, repeats>>

\* SET CODE with a key and its confirmation on a challenge of the host; and without.
cmd_set_code(key, challenge) ==
    /\ Idle /\ require_validated
    /\ IF key = None
       THEN /\ state' = [state EXCEPT !.access = None, !.pending = None]
            /\ validated' = FALSE /\ UNCHANGED <<issued, macs>>
       ELSE /\ issued < MaxChallenges /\ issued' = issued + 1
            /\ state' = [state EXCEPT !.access = key, !.pending = issued']
            /\ macs' = macs \cup {<<key, challenge>>} /\ UNCHANGED validated
    /\ intruded' = (intruded \/ (state.access # None /\ ~proved))
    /\ PersistAs("set_code")
    /\ UNCHANGED <<disk, selected, used, proved, codes, repeats>>

\* RESET needs no session.
cmd_reset ==
    /\ Idle
    /\ state' = factory_state /\ validated' = FALSE
    /\ PersistAs("reset")
    /\ UNCHANGED <<disk, selected, used, issued, macs, proved, intruded, codes, repeats>>

----------------------------------------------------------------------------
(* Credentials *)

Writes(s, kind) ==
    /\ state' = s /\ PersistAs(kind)
    /\ UNCHANGED <<disk, validated, selected, issued, macs, proved, intruded, codes, repeats>>

\* PUT adds a credential or replaces the one of that name; an initial moving factor is
\* allowed for HOTP only.
cmd_put(name, counter) ==
    /\ Idle /\ require_validated
    /\ NameLen[name] \in 1 .. MaxNameLen
    /\ state.credentials[name] = None => Cardinality(Stored(state)) < MaxCredentials
    /\ used < MaxSecrets /\ used' = used + 1
    /\ Writes([state EXCEPT !.credentials[name] = [secret |-> used', hotp_counter |-> counter]],
              "put")

cmd_delete(name) ==
    /\ Idle /\ require_validated
    /\ state.credentials[name] # None
    /\ Writes([state EXCEPT !.credentials[name] = None], "change")
    /\ UNCHANGED used

Moved(current, new_name) ==
    [state EXCEPT !.credentials = [@ EXCEPT ![current] = None, ![new_name] = state.credentials[current]]]

cmd_rename(current, new_name) ==
    /\ Idle /\ require_validated
    /\ NameLen[new_name] \in 1 .. MaxNameLen /\ current # new_name
    /\ state.credentials[current] # None /\ state.credentials[new_name] = None
    /\ Writes(Moved(current, new_name), "change")
    /\ UNCHANGED used

\* With a moving factor of the host the next one saturates at the largest; with the
\* counter of the credential, CALCULATE fails there.
saturating_add(n) == IF n = MaxCounter THEN n ELSE n + 1

\* CALCULATE of a HOTP code: the next factor is written before the code is handed out.
cmd_calculate(name, factor) ==
    /\ Idle /\ require_validated
    /\ LET c == state.credentials[name]
       IN  /\ c # None /\ c.hotp_counter # None
           /\ IF factor = None THEN c.hotp_counter < MaxCounter ELSE factor >= c.hotp_counter
           /\ LET moving == IF factor = None THEN c.hotp_counter ELSE factor
              IN  /\ state' = [state EXCEPT !.credentials[name].hotp_counter = saturating_add(moving)]
                  /\ Persist([kind |-> "calculate", name |-> name, moving |-> moving,
                              previous |-> c.hotp_counter])
    /\ UNCHANGED <<disk, validated, selected, used, issued, macs, proved, intruded, codes, repeats>>

----------------------------------------------------------------------------
(* persist_state, and what the command does after it *)

HandOut(code) == codes' = codes \cup {code} /\ repeats' = repeats \cup ({code} \cap codes)

Persisted ==
    /\ pc = "persist" /\ pc' = "idle"
    /\ disk' = serialize_state(state)
    /\ selected' = (selected \/ req.kind = "select")
    /\ validated' = (validated \/ req.kind = "validate")
    /\ IF req.kind = "calculate"
       THEN HandOut(<<state.credentials[req.name].secret, req.moving>>)
       ELSE UNCHANGED <<codes, repeats>>
    /\ req' = NoRequest
    /\ UNCHANGED <<state, used, issued, macs, proved, intruded>>

\* Only CALCULATE restores what it changed in RAM, and hands out no code; a SELECT that
\* cannot write its challenge is refused and leaves the selection as it was.
PersistFailed_mutant ==
    /\ pc = "persist" /\ req.kind # "factory" /\ pc' = "idle"
    /\ IF req.kind = "calculate"
       THEN /\ state' = [state EXCEPT !.credentials[req.name].hotp_counter = req.previous]
            /\ HandOut(<<state.credentials[req.name].secret, req.moving>>)
       ELSE UNCHANGED <<state, codes, repeats>>
    /\ req' = NoRequest
    /\ UNCHANGED <<disk, validated, selected, used, issued, macs, proved, intruded>>
PersistFailed ==
    /\ pc = "persist" /\ req.kind # "factory" /\ pc' = "idle"
    /\ IF req.kind = "calculate"
       THEN state' = [state EXCEPT !.credentials[req.name].hotp_counter = req.previous]
       ELSE UNCHANGED state
    /\ req' = NoRequest
    /\ UNCHANGED <<disk, validated, selected, used, issued, macs, proved, intruded, codes, repeats>>

PowerLoss ==
    /\ pc # "off"
    /\ state' = None /\ validated' = FALSE /\ selected' = FALSE /\ pc' = "off" /\ proved' = FALSE
    /\ req' = NoRequest
    /\ UNCHANGED <<disk, used, issued, macs, intruded, codes, repeats>>

Next ==
    \/ ensure_loaded \/ select \/ SelectOther \/ cmd_reset
    \/ \E mac \in AccessKeys \X Challenges, challenge \in 0 .. issued : cmd_validate(mac, challenge)
    \/ \E key \in AccessKeys \cup {None}, challenge \in 0 .. issued : cmd_set_code(key, challenge)
    \/ \E name \in Names : \/ \E counter \in {0, None} : cmd_put(name, counter)
                           \/ cmd_delete(name)
                           \/ \E new_name \in Names : cmd_rename(name, new_name)
                           \/ \E factor \in Counters \cup {None} : cmd_calculate(name, factor)
    \/ Persisted \/ PersistFailed \/ PowerLoss

Spec == Init /\ [][Next]_vars

----------------------------------------------------------------------------
\* No HOTP code is handed out twice, over failed writes, renamings, deletions that come
\* back with the power, and moving factors of the host, except for the largest factor,
\* where the next one saturates ("Queda de energia ... nao reutiliza codigo").
HotpCodeOnce == \A c \in repeats : c[2] = MaxCounter

\* A session is validated only if a holder of the access code has answered since the
\* last SELECT: an answer seen earlier, on any challenge, the applet's own proofs
\* included, opens none ("Cada SELECT emite desafio novo").
ValidatedByHolder == validated => proved

\* The access code is replaced or removed only in a session its holder has opened, or
\* by RESET, whatever writes fail in between (cmd_set_code).
CodeChangedByHolder == ~intruded

\* The applet never writes a record that it will not read back: no sequence of commands
\* and failed writes leads to the factory state at the next start (parse_state).
RecordReadable == disk # None => parse_state(disk) # None
=============================================================================
