-------------------------------- MODULE Piv --------------------------------
(***************************************************************************)
(* PivApplet: the PIN with its attempts, and a key and a certificate per   *)
(* slot, kept in RAM and as one encrypted record under "sys:piv".          *)
(*                                                                         *)
(* A command changes the state in RAM and then writes the whole record,    *)
(* so it is cut in two steps: the command, and persist_state, which may    *)
(* fail (a full sector, a device error) or never happen (loss of power).   *)
(* What a command takes back when the write fails is part of the failure.  *)
(* The status form of VERIFY and refused commands change nothing.          *)
(*                                                                         *)
(* A certificate is reduced to the key its slot held when it was put.  The *)
(* last reply is kept as far as it carries a key, a signature or a         *)
(* certificate.                                                            *)
(***************************************************************************)
EXTENDS Naturals

CONSTANTS Pins, DefaultPin,
          MaxRetries,       \* MAX_RETRIES, 3 in the code
          Slots, AuthSlot,  \* 9A, 9C, 9D, 9E; 9A is the one that needs VERIFY
          MaxKeys,          \* bound: keys generated
          None,             \* no record, no state in RAM, no key
          Bare              \* a certificate put in a slot without a key

Keys == 1 .. MaxKeys

VARIABLES disk,         \* the record under "sys:piv"
          state,        \* PivApplet::state
          verified,
          pc, req,      \* "persist": the write of the running command is due
          reply,        \* the last reply
          used,         \* number of keys generated
          \* ghosts: failed comparisons with the PIN since one succeeded, in this
          \* power cycle; slots whose GENERATE could not be written, in this cycle
          wrong, failed

vars == <<disk, state, verified, pc, req, reply, used, wrong, failed>>

\* PivState, and the record of format 3 or of the older formats 1 and 2.
PivState == [pin : Pins, retries : 0 .. MaxRetries,
             key : [Slots -> Keys \cup {None}], cert : [Slots -> Keys \cup {None, Bare}]]
Records == [format : 1 .. 3, data : PivState]
Kinds == {"migrate", "factory", "verify", "refuse", "change", "generate", "put"}
\* What a reply shows: the key of a slot, public or at work in a signature, or its
\* certificate.
Replies == [of : {"nothing", "key", "cert"}, slot : Slots, data : Keys \cup {None, Bare}]

\* What TLC evaluates, and the theorems assume, of the constants.
ConstantsOK ==
    /\ DefaultPin \in Pins /\ MaxRetries \in Nat \ {0} /\ MaxKeys \in Nat
    /\ AuthSlot \in Slots
    /\ None \notin Nat /\ Bare \notin Nat /\ None # Bare
    /\ None \notin PivState /\ None \notin Records

NoReply == [of |-> "nothing", slot |-> AuthSlot, data |-> None]
Show(of, slot, data) == reply' = [of |-> of, slot |-> slot, data |-> data]
NoRequest == [kind |-> "verify", slot |-> AuthSlot]

TypeOK ==
    /\ disk \in Records \cup {None} /\ state \in PivState \cup {None}
    /\ state = None <=> pc = "off"
    /\ verified \in BOOLEAN
    /\ pc \in {"off", "idle", "persist"} /\ req \in [kind : Kinds, slot : Slots]
    /\ reply \in Replies
    /\ used \in 0 .. MaxKeys /\ wrong \in Nat /\ failed \subseteq Slots

Vacant == [s \in Slots |-> None]
Factory == [pin |-> DefaultPin, retries |-> MaxRetries, key |-> Vacant, cert |-> Vacant]

\* A new device, or one whose record an older firmware wrote: format 1 has no keys,
\* format 2 no certificates.
Init ==
    /\ \/ disk = None /\ used = 0
       \/ disk = [format |-> 1, data |-> [Factory EXCEPT !.retries = 1]] /\ used = 0
       \/ /\ used = 1 /\ MaxKeys > 0
          /\ disk = [format |-> 2, data |-> [Factory EXCEPT !.key[AuthSlot] = 1]]
    /\ state = None /\ verified = FALSE /\ pc = "off" /\ req = NoRequest
    /\ reply = NoReply /\ wrong = 0 /\ failed = {}

----------------------------------------------------------------------------
\* The rest of a command is the write of the state it has changed in RAM.
Persist(kind, slot) == pc' = "persist" /\ req' = [kind |-> kind, slot |-> slot]

\* parse_state: the fields an older format lacks are empty.
parse_state_mutant(r) ==
    IF r.format = 3 THEN r.data ELSE [r.data EXCEPT !.key = Vacant, !.cert = Vacant]
parse_state(r) ==
    CASE r.format = 1 -> [r.data EXCEPT !.key = Vacant, !.cert = Vacant]
      [] r.format = 2 -> [r.data EXCEPT !.cert = Vacant]
      [] r.format = 3 -> r.data

\* PivApplet::new at start-up.  A record of format 3 is taken as it is; an older one is
\* rewritten; a missing one, or one that cannot be read or decrypted this time, is
\* replaced by the factory state.
ensure_loaded ==
    /\ pc = "off"
    /\ \/ /\ disk # None /\ disk.format = 3
          /\ state' = parse_state(disk) /\ pc' = "idle" /\ UNCHANGED req
       \/ /\ disk # None /\ disk.format < 3
          /\ state' = parse_state(disk) /\ Persist("migrate", AuthSlot)
       \/ state' = Factory /\ Persist("factory", AuthSlot)
    /\ UNCHANGED <<disk, verified, reply, used, wrong, failed>>

----------------------------------------------------------------------------
(* The commands, up to their write *)

Accepts == pc = "idle" /\ state.retries > 0

saturating_sub(n) == IF n = 0 THEN 0 ELSE n - 1

\* The session ends with the last attempt.
SessionAfter(retries) == verified /\ retries # 0

consume_retry ==
    /\ state' = [state EXCEPT !.retries = saturating_sub(@)]
    /\ verified' = SessionAfter(state'.retries)
    /\ wrong' = wrong + 1
    /\ Persist("refuse", AuthSlot)

cmd_verify(pin) ==
    /\ Accepts
    /\ IF pin = state.pin
       THEN /\ state' = [state EXCEPT !.retries = MaxRetries]
            /\ wrong' = 0 /\ Persist("verify", AuthSlot) /\ UNCHANGED verified
       ELSE consume_retry
    /\ reply' = NoReply
    /\ UNCHANGED <<disk, used, failed>>

cmd_change_reference_data(old_pin, new_pin) ==
    /\ Accepts
    /\ IF old_pin = state.pin
       THEN /\ state' = [state EXCEPT !.pin = new_pin, !.retries = MaxRetries]
            /\ wrong' = 0 /\ Persist("change", AuthSlot) /\ UNCHANGED verified
       ELSE consume_retry
    /\ reply' = NoReply
    /\ UNCHANGED <<disk, used, failed>>

\* GENERATE replaces the key and drops the certificate that went with the old one.
Regenerated_mutant(slot) == [state EXCEPT !.key[slot] = used + 1]
Regenerated(slot) == [state EXCEPT !.key[slot] = used + 1, !.cert[slot] = None]

cmd_generate(slot) ==
    /\ pc = "idle" /\ used < MaxKeys
    /\ state' = Regenerated(slot) /\ used' = used + 1
    /\ Persist("generate", slot) /\ Show("key", slot, used')
    /\ UNCHANGED <<disk, verified, wrong, failed>>

cmd_put_data(slot) ==
    /\ pc = "idle" /\ (slot = AuthSlot => verified)
    /\ state' = [state EXCEPT !.cert[slot] = IF state.key[slot] = None THEN Bare
                                             ELSE state.key[slot]]
    /\ Persist("put", slot) /\ reply' = NoReply
    /\ UNCHANGED <<disk, verified, used, wrong, failed>>

\* GET DATA of a slot: its certificate before its public key; an empty slot is refused.
cmd_get_data(slot) ==
    /\ pc = "idle"
    /\ IF state.cert[slot] # None THEN Show("cert", slot, state.cert[slot])
       ELSE state.key[slot] # None /\ Show("key", slot, state.key[slot])
    /\ UNCHANGED <<disk, state, verified, pc, req, used, wrong, failed>>

\* GENERAL AUTHENTICATE signs with the key of the slot.
cmd_authenticate(slot) ==
    /\ pc = "idle" /\ (slot = AuthSlot => verified)
    /\ state.key[slot] # None
    /\ Show("key", slot, state.key[slot])
    /\ UNCHANGED <<disk, state, verified, pc, req, used, wrong, failed>>

----------------------------------------------------------------------------
(* persist_state, and what the command does after it *)

Persisted ==
    /\ pc = "persist"
    /\ disk' = [format |-> 3, data |-> state]
    /\ verified' = (verified \/ req.kind \in {"verify", "change"})
    /\ pc' = "idle"
    /\ UNCHANGED <<state, req, reply, used, wrong, failed>>

\* The commands take back the key or the certificate, not what it replaced.
RolledBack ==
    CASE req.kind = "generate" -> [state EXCEPT !.key[req.slot] = None]
      [] req.kind = "put" -> [state EXCEPT !.cert[req.slot] = None]
      [] OTHER -> state

PersistFailed ==
    /\ pc = "persist" /\ req.kind \notin {"migrate", "factory"}
    /\ state' = RolledBack /\ pc' = "idle" /\ reply' = NoReply
    /\ failed' = IF req.kind = "generate" THEN failed \cup {req.slot} ELSE failed
    /\ UNCHANGED <<disk, verified, req, used, wrong>>

\* Power is lost, or PivApplet::new fails and the firmware stops.
PowerLoss ==
    /\ pc # "off"
    /\ state' = None /\ verified' = FALSE /\ pc' = "off"
    /\ reply' = NoReply /\ wrong' = 0 /\ failed' = {}
    /\ UNCHANGED <<disk, req, used>>

Next ==
    \/ ensure_loaded
    \/ \E pin \in Pins : cmd_verify(pin)
    \/ \E old_pin, new_pin \in Pins : cmd_change_reference_data(old_pin, new_pin)
    \/ \E slot \in Slots : \/ cmd_generate(slot) \/ cmd_put_data(slot)
                           \/ cmd_get_data(slot) \/ cmd_authenticate(slot)
    \/ Persisted \/ PersistFailed \/ PowerLoss

Spec == Init /\ [][Next]_vars

----------------------------------------------------------------------------
\* In one power cycle the failed comparisons since the last success, over VERIFY and
\* CHANGE REFERENCE DATA and whether or not the counter could be written, never
\* exceed the attempts taken (consume_retry).
AttemptsTaken == state # None => wrong + state.retries <= MaxRetries

\* A blocked PIN leaves no verified session behind, on whichever command and with
\* whichever failed write it was blocked (consume_retry).
BlockedEndsSession == state # None /\ state.retries = 0 => ~verified

\* A key that a finished command generated, showed or signed with, and a certificate it
\* showed, are in the record: what a host relies on is not lost with the power
\* ("Rollback em memoria se a persistencia falhar").
AnsweredIsStored ==
    pc = "idle" /\ reply.of # "nothing" =>
        /\ disk # None
        /\ reply.data = IF reply.of = "key" THEN disk.data.key[reply.slot]
                        ELSE disk.data.cert[reply.slot]

\* In RAM and in the record, a certificate stands only beside the key it was put for:
\* no sequence of GENERATE, PUT DATA, failed writes and losses of power pairs it
\* with another ("Regenerar a chave de um slot apaga o certificado dele").
CertificateFollowsKey ==
    LET Paired(d) == \A s \in Slots : \/ d.cert[s] \in {None, d.key[s]}
                                      \/ d.cert[s] = Bare /\ d.key[s] = None
    IN  /\ state # None => Paired(state)
        /\ disk # None => Paired(disk.data)

\* A key of a readable record is lost only to a GENERATE on its own slot, the one being
\* written or one that failed: not to other commands, and not to the migration of an
\* older record (parse_state).  A record that could not be read is the exception: the
\* factory state is written over it.
KeyLoss ==
    \A s \in Slots :
        disk # None /\ disk' # None /\ disk.data.key[s] # None
          /\ disk'.data.key[s] # disk.data.key[s]
        => s \in failed \/ req.kind = "factory" \/ req = [kind |-> "generate", slot |-> s]
KeyLostOnlyToGenerate == [][KeyLoss]_vars
=============================================================================
