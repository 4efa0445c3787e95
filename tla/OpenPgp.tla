------------------------------ MODULE OpenPgp ------------------------------
(***************************************************************************)
(* OpenPgpApplet: the passwords PW1 and PW3 with their attempts, and the   *)
(* signature key, in RAM and as one encrypted record under "sys:openpgp".  *)
(*                                                                         *)
(* As in Piv, a command that changes the state is cut in two: the command, *)
(* and persist_state, which fails or is lost with the power.  The last     *)
(* reply is kept: its status word, the attempts a 63Cx tells, and as data  *)
(* the key it was made from.                                               *)
(***************************************************************************)
EXTENDS Naturals

CONSTANTS Passwords, DefaultPw1, DefaultPw3,
          MaxRetries,       \* MAX_RETRIES, 3 in the code
          MaxKeys,          \* bound: keys generated
          None              \* no record, no state in RAM, no key, no data

VARIABLES disk,         \* the record under "sys:openpgp"
          state,        \* OpenPgpApplet::state
          pw1_verified,
          pc, req,      \* "persist": the write of the running command is due
          reply,        \* the last reply
          used,         \* number of keys generated
          \* ghosts, of this power cycle: failed comparisons of each password since one
          \* succeeded; PW1 was given and its attempts did not run out since; a GENERATE
          \* could not be written
          wrong, given, failed

vars == <<disk, state, pw1_verified, pc, req, reply, used, wrong, given, failed>>

Slots == {"pw1", "pw3"}
Algs == {"p256", "ed25519"}

\* SigKey: which key it is, and its algorithm.
SigKey == [id : 1 .. MaxKeys, alg : Algs]
OpenPgpState == [pw : [Slots -> Passwords], retries : [Slots -> 0 .. MaxRetries],
                 sig_key : SigKey \cup {None}]
Records == [format : 1 .. 2, data : OpenPgpState]
Requests == {"migrate", "factory", "right", "wrong", "generate"}
StatusWords == {"ok", "6982", "6985", "6A80", "6A82", "6B00", "63Cx"}

\* What TLC evaluates, and the theorems assume, of the constants.
ConstantsOK ==
    /\ DefaultPw1 \in Passwords /\ DefaultPw3 \in Passwords
    /\ MaxRetries \in Nat \ {0} /\ MaxKeys \in Nat /\ None \notin Nat
    /\ None \notin Slots /\ None \notin SigKey
    /\ None \notin OpenPgpState /\ None \notin Records

NoReply == [sw |-> "ok", left |-> 0, data |-> None]

TypeOK ==
    /\ disk \in Records \cup {None} /\ state \in OpenPgpState \cup {None}
    /\ state = None <=> pc = "off"
    /\ pw1_verified \in BOOLEAN
    /\ pc \in {"off", "idle", "persist"} /\ req \in [kind : Requests, slot : Slots]
    /\ reply \in [sw : StatusWords, left : 0 .. MaxRetries, data : SigKey \cup {None}]
    /\ used \in 0 .. MaxKeys
    /\ wrong \in [Slots -> Nat] /\ given \in BOOLEAN /\ failed \in BOOLEAN

Factory == [pw |-> [pw1 |-> DefaultPw1, pw3 |-> DefaultPw3],
            retries |-> [s \in Slots |-> MaxRetries], sig_key |-> None]

\* A new card, or the record of an older firmware: format 1 has no key.
Init ==
    /\ disk \in {None, [format |-> 1, data |-> [Factory EXCEPT !.retries["pw1"] = 1]]}
    /\ state = None /\ pw1_verified = FALSE /\ pc = "off"
    /\ req = [kind |-> "right", slot |-> "pw1"] /\ reply = NoReply /\ used = 0
    /\ wrong = [s \in Slots |-> 0] /\ given = FALSE /\ failed = FALSE

----------------------------------------------------------------------------
(* The record, read and written *)

\* parse_state_v1 finds the passwords and no key; parse_state_v2 all of it.
parse_state(r) == IF r.format = 1 THEN [r.data EXCEPT !.sig_key = None] ELSE r.data

serialize_state(s) == [format |-> 2, data |-> s]

Persist(kind, slot) == pc' = "persist" /\ req' = [kind |-> kind, slot |-> slot]

Answer(sw, data) == reply' = [sw |-> sw, left |-> 0, data |-> data]

\* sw_retries, and 6982 for a blocked password.
AnswerRetries(n) == reply' = [sw |-> IF n = 0 THEN "6982" ELSE "63Cx", left |-> n, data |-> None]

\* OpenPgpApplet::new.  A record of format 2 is taken as it is and one of format 1 is
\* rewritten; a missing one, or one that cannot be read or decrypted this time, is
\* replaced by the factory state.
ensure_loaded ==
    /\ pc = "off"
    /\ \/ /\ disk # None /\ disk.format = 2
          /\ state' = parse_state(disk) /\ pc' = "idle" /\ UNCHANGED req
       \/ /\ disk # None /\ disk.format = 1
          /\ state' = parse_state(disk) /\ Persist("migrate", "pw1")
       \/ state' = Factory /\ Persist("factory", "pw1")
    /\ UNCHANGED <<disk, pw1_verified, reply, used, wrong, given, failed>>

----------------------------------------------------------------------------
(* VERIFY *)

\* The selector is P1 when it is not zero, and P2 otherwise.  81 and 82 are both PW1,
\* with one counter between them.
password_slot(p1, p2) ==
    LET selector == IF p1 # "00" THEN p1 ELSE p2
    IN  CASE selector \in {"81", "82"} -> "pw1"
          [] selector = "83" -> "pw3"
          [] OTHER -> None

saturating_sub(n) == IF n = 0 THEN 0 ELSE n - 1

\* The session of PW1 ends with its last attempt; PW3 does not touch it.
SessionAfter_mutant(slot, left) == pw1_verified
SessionAfter(slot, left) == pw1_verified /\ ~(slot = "pw1" /\ left = 0)

\* A password that does not match costs an attempt of its slot.
refuse(slot) ==
    /\ state' = [state EXCEPT !.retries[slot] = saturating_sub(@)]
    /\ pw1_verified' = SessionAfter(slot, state'.retries[slot])
    /\ given' = (given /\ ~(slot = "pw1" /\ state'.retries[slot] = 0))
    /\ wrong' = [wrong EXCEPT ![slot] = @ + 1]
    /\ AnswerRetries(state'.retries[slot])
    /\ Persist("wrong", slot)

accept(slot) ==
    /\ state' = [state EXCEPT !.retries[slot] = MaxRetries]
    /\ wrong' = [wrong EXCEPT ![slot] = 0]
    /\ Answer("ok", None) /\ Persist("right", slot)
    /\ UNCHANGED <<pw1_verified, given>>

cmd_verify(p1, p2, pw) ==
    /\ pc = "idle"
    /\ LET slot == password_slot(p1, p2)
       IN  /\ slot # None /\ state.retries[slot] # 0
           /\ IF pw = state.pw[slot] THEN accept(slot) ELSE refuse(slot)
    /\ UNCHANGED <<disk, used, failed>>

\* VERIFY that is answered at once: an unknown selector, a blocked password, whose
\* status cannot even be asked for, and the status form without data.
verify_status(p1, p2) ==
    /\ pc = "idle"
    /\ LET slot == password_slot(p1, p2)
       IN  IF slot = None THEN Answer("6B00", None)
           ELSE AnswerRetries(state.retries[slot])
    /\ UNCHANGED <<disk, state, pw1_verified, pc, req, used, wrong, given, failed>>

----------------------------------------------------------------------------
(* The signature key *)

\* The algorithm a GENERATE asks for: a single byte, or a control reference template.
\* Templates of the other slots are "6A82", the rest is "6A80".
GenerateForms == {"byte", "crt_sig", "crt_dec", "other"}
parse_generate_alg(form, alg) ==
    CASE form \in {"byte", "crt_sig"} /\ alg \in Algs -> alg
      [] form = "crt_dec" -> "6A82"
      [] OTHER -> "6A80"

\* GENERATE asks for no password; the key it replaces is overwritten in RAM.
cmd_generate(p1, form, alg) ==
    /\ pc = "idle"
    /\ LET chosen == parse_generate_alg(form, alg)
       IN  IF p1 \in {"00", "80", "81"} /\ chosen \in Algs
           THEN /\ used < MaxKeys /\ used' = used + 1
                /\ state' = [state EXCEPT !.sig_key = [id |-> used', alg |-> chosen]]
                /\ Answer("ok", state'.sig_key) /\ Persist("generate", "pw1")
           ELSE /\ Answer(IF p1 \in {"00", "80", "81"} THEN chosen ELSE "6B00", None)
                /\ UNCHANGED <<state, pc, req, used>>
    /\ UNCHANGED <<disk, pw1_verified, wrong, given, failed>>

\* PSO SIGN; PSO DECIPHER is always refused.
cmd_pso(sign) ==
    /\ pc = "idle"
    /\ IF sign /\ pw1_verified /\ state.sig_key # None
       THEN Answer("ok", state.sig_key) ELSE Answer("6982", None)
    /\ UNCHANGED <<disk, state, pw1_verified, pc, req, used, wrong, given, failed>>

\* GET DATA of the public key (B600) or its fingerprint (00C5), and of the algorithm
\* attributes (007A), which also answer for an empty slot.
cmd_get_data(tag) ==
    /\ pc = "idle"
    /\ CASE tag = "007A" -> Answer("ok", state.sig_key)
         [] tag \in {"B600", "00C5"} /\ state.sig_key # None -> Answer("ok", state.sig_key)
         [] tag \in {"B600", "00C5"} /\ state.sig_key = None -> Answer("6982", None)
         [] OTHER -> Answer("6A82", None)
    /\ UNCHANGED <<disk, state, pw1_verified, pc, req, used, wrong, given, failed>>

----------------------------------------------------------------------------
(* persist_state, and what the command does after it *)

Persisted ==
    /\ pc = "persist"
    /\ disk' = serialize_state(state)
    /\ LET opened == req.kind = "right" /\ req.slot = "pw1"
       IN  pw1_verified' = (pw1_verified \/ opened) /\ given' = (given \/ opened)
    /\ pc' = "idle"
    /\ UNCHANGED <<state, req, reply, used, wrong, failed>>

\* GENERATE takes back the new key, and the one it replaced is not put back.
RolledBack == IF req.kind = "generate" THEN [state EXCEPT !.sig_key = None] ELSE state

\* The record could not be written: 6985, for any command.
PersistFailed ==
    /\ pc = "persist" /\ req.kind \notin {"migrate", "factory"}
    /\ state' = RolledBack /\ pc' = "idle" /\ Answer("6985", None)
    /\ failed' = (failed \/ req.kind = "generate")
    /\ UNCHANGED <<disk, pw1_verified, req, used, wrong, given>>

\* Power is lost, or OpenPgpApplet::new fails and the firmware stops.
PowerLoss ==
    /\ pc # "off"
    /\ state' = None /\ pw1_verified' = FALSE /\ pc' = "off" /\ reply' = NoReply
    /\ wrong' = [s \in Slots |-> 0] /\ given' = FALSE /\ failed' = FALSE
    /\ UNCHANGED <<disk, req, used>>

Next ==
    \/ ensure_loaded
    \/ \E p \in {<<"81", "00">>, <<"00", "82">>, <<"00", "83">>, <<"84", "81">>} :
          \/ verify_status(p[1], p[2])
          \/ \E pw \in Passwords : cmd_verify(p[1], p[2], pw)
    \/ \E p1 \in {"80", "82"}, form \in GenerateForms, alg \in Algs : cmd_generate(p1, form, alg)
    \/ \E sign \in BOOLEAN : cmd_pso(sign)
    \/ \E tag \in {"007A", "B600", "00C5", "00FF"} : cmd_get_data(tag)
    \/ Persisted \/ PersistFailed \/ PowerLoss

Spec == Init /\ [][Next]_vars

----------------------------------------------------------------------------
\* In one power cycle, each password gets no more failed comparisons since its last
\* success than its counter has lost, whichever selectors name it, whether or not the
\* counter could be written, and whatever is tried on the other password (cmd_verify).
PasswordAttempts == state # None => \A s \in Slots : wrong[s] + state.retries[s] <= MaxRetries

\* A signature session exists only after PW1 itself was given in this power cycle and
\* while it is not blocked: never through PW3, a failed write or a restart ("VERIFY de
\* PW3 nao ativa a sessao de assinatura").
SessionNeedsPw1 == pw1_verified => given /\ state # None /\ state.retries["pw1"] > 0

\* A key that a finished command answers with, signs with or describes is in the record:
\* a host never holds a public key that a restart takes away ("Rollback em memoria se a
\* persistencia falhar").
SignerIsStored ==
    pc = "idle" /\ reply.data # None => disk # None /\ disk.data.sig_key = reply.data

\* The stored key is replaced or lost only by a GENERATE, the one being written or one
\* that failed in this power cycle, or by the factory state over an unreadable record.
SignerLoss ==
    disk # None /\ disk' # None /\ disk.data.sig_key # None
      /\ disk'.data.sig_key # disk.data.sig_key
    => failed \/ req.kind \in {"generate", "factory"}
SignerLostOnlyToGenerate == [][SignerLoss]_vars
=============================================================================
