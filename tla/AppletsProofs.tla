--------------------------- MODULE AppletsProofs ---------------------------
(***************************************************************************)
(* Proofs about the four applets, for any slots, passwords, names and      *)
(* bounds.  Each applet has an inductive invariant of its own: what the    *)
(* state in RAM and the record on disk have in common between commands,    *)
(* and what the command whose write is due has changed.                    *)
(***************************************************************************)
EXTENDS MCApplets, FiniteSetTheorems, TLAPS

----------------------------------------------------------------------------
(* PIV *)

\* Nothing of a session outlives the power.
PivOff == pc = "off" => wrong = 0 /\ failed = {} /\ verified = FALSE /\ reply = Piv!NoReply

\* A command that opens a session has given the attempts back.
PivOpening ==
    pc = "persist" /\ req.kind \in {"verify", "change"} => state.retries = MaxRetries

\* Keys and certificates in RAM are those of the record, but for what the running
\* GENERATE or PUT DATA has made.
PivRamStored ==
    pc # "off" => \A s \in PivSlots :
        /\ \/ state.key[s] = None
           \/ disk # None /\ disk.data.key[s] = state.key[s]
           \/ pc = "persist" /\ req.kind = "generate" /\ req.slot = s
        /\ \/ state.cert[s] = None
           \/ disk # None /\ disk.data.cert[s] = state.cert[s]
           \/ pc = "persist" /\ req.kind = "put" /\ req.slot = s

\* The reply of a command that still has to write is the key it generated.
PivReplyDue ==
    pc = "persist" => /\ reply.of # "nothing" => /\ reply.of = "key" /\ req.kind = "generate"
                                                 /\ reply.slot = req.slot
                                                 /\ reply.data = state.key[req.slot]
                      /\ req.kind = "generate" => state.cert[req.slot] = None

\* A key of the record is in RAM too, but for the slots of failed GENERATEs, the one
\* being generated, and a factory state that replaces the record.
PivDiskKept ==
    disk # None =>
        /\ disk.format = 1 => disk.data.key = Piv!Vacant
        /\ pc # "off" => \A s \in PivSlots :
              \/ disk.data.key[s] = None
              \/ state.key[s] = disk.data.key[s]
              \/ s \in failed
              \/ pc = "persist" /\ req.kind = "factory"
              \/ pc = "persist" /\ req = [kind |-> "generate", slot |-> s]

PivInv ==
    /\ Piv!TypeOK /\ Piv!AttemptsTaken /\ Piv!BlockedEndsSession /\ Piv!AnsweredIsStored
    /\ Piv!CertificateFollowsKey
    /\ PivOff /\ PivOpening /\ PivRamStored /\ PivReplyDue /\ PivDiskKept

----------------------------------------------------------------------------
(* OpenPGP *)

PgpOff ==
    pc = "off" => /\ wrong = [s \in OpenPgp!Slots |-> 0]
                  /\ given = FALSE /\ failed = FALSE /\ pw1_verified = FALSE
                  /\ reply = OpenPgp!NoReply

\* A command that opens a session has given the attempts back.
PgpOpening ==
    pc = "persist" /\ req.kind = "right" => state.retries[req.slot] = MaxRetries

\* The key in RAM is the one of the record, unless a GENERATE is running.
PgpRamStored ==
    pc # "off" => \/ state.sig_key = None
                  \/ disk # None /\ disk.data.sig_key = state.sig_key
                  \/ pc = "persist" /\ req.kind = "generate"

\* The reply of a command that still has to write is the key it generated.
PgpReplyDue ==
    pc = "persist" /\ reply.data # None => req.kind = "generate" /\ reply.data = state.sig_key

PgpDiskKept ==
    disk # None =>
        /\ disk.format = 1 => disk.data.sig_key = None
        /\ pc # "off" => \/ disk.data.sig_key = None
                         \/ state.sig_key = disk.data.sig_key
                         \/ failed
                         \/ pc = "persist" /\ req.kind \in {"factory", "generate"}

PgpInv ==
    /\ OpenPgp!TypeOK /\ OpenPgp!PasswordAttempts /\ OpenPgp!SessionNeedsPw1
    /\ OpenPgp!SignerIsStored
    /\ PgpOff /\ PgpOpening /\ PgpRamStored /\ PgpReplyDue /\ PgpDiskKept

----------------------------------------------------------------------------
(* OATH *)

\* A record that parse_state reads.
OathReadable(s) ==
    /\ Cardinality(Oath!Stored(s)) <= MaxCredentials
    /\ \A n \in Oath!Stored(s) : NameLen[n] \in 1 .. MaxNameLen

\* Every credential has a secret of its own, one of those that were put.
OathSecrets(s, put) ==
    \A n \in Names : s.credentials[n] # None =>
        /\ s.credentials[n].secret <= put
        /\ \A m \in Names : /\ s.credentials[m] # None
                            /\ s.credentials[m].secret = s.credentials[n].secret
                            => m = n

\* The codes handed out for a secret are below a factor, the largest code excepted.
OathCodesBelow(handed, secret, counter) ==
    \A c \in handed : c[1] = secret => c[2] < counter \/ c[2] = MaxCounter

OathCounters(s, handed) ==
    \A n \in Names : s.credentials[n] # None /\ s.credentials[n].hotp_counter # None
        => OathCodesBelow(handed, s.credentials[n].secret, s.credentials[n].hotp_counter)

OathGood(s, put, handed) == OathReadable(s) /\ OathSecrets(s, put) /\ OathCounters(s, handed)

OathRecords ==
    /\ disk # None => OathGood(disk, used, codes)
    /\ state # None => OathGood(state, used, codes)
    /\ \A c \in codes : c[1] <= used

\* CALCULATE between its change in RAM and its write.
OathCalculating ==
    pc = "persist" /\ req.kind = "calculate" =>
        /\ req.name \in Names /\ state.credentials[req.name] # None
        /\ state.credentials[req.name].hotp_counter = Oath!saturating_add(req.moving)
        /\ req.moving >= req.previous
        /\ OathCodesBelow(codes, state.credentials[req.name].secret, req.previous)

OathOff == pc = "off" => validated = FALSE /\ selected = FALSE /\ proved = FALSE

\* Until a holder has answered, nobody has seen the answer to the challenge of the
\* session that is open or about to be.
OathFresh ==
    /\ \A mac \in macs : mac[2] <= issued
    /\ disk # None /\ disk.pending # None => disk.pending <= issued
    /\ state # None /\ state.pending # None => state.pending <= issued
    /\ /\ state # None /\ proved = FALSE
       /\ selected \/ (pc = "persist" /\ req.kind = "select")
       /\ state.access # None /\ state.pending # None
       => <<state.access, state.pending>> \notin macs

OathValidating == pc = "persist" /\ req.kind = "validate" => proved

OathInv ==
    /\ Oath!TypeOK /\ Oath!HotpCodeOnce /\ Oath!ValidatedByHolder /\ Oath!CodeChangedByHolder
    /\ OathRecords /\ OathCalculating /\ OathOff /\ OathFresh /\ OathValidating

----------------------------------------------------------------------------
(* Management *)

\* The serial in RAM is the one of the record, and the one a host was told, unless a
\* good record was lost or no record was ever written.
MgmtSerials ==
    /\ state # None => state.serial # 0
    /\ disk # None => disk.data.serial # 0
    /\ lost = FALSE =>
          /\ shown # None => disk # None /\ disk.data.serial = shown
          /\ pc = "persist" /\ factory => disk = None
          /\ pc # "off" /\ ~(pc = "persist" /\ factory) =>
                disk # None /\ disk.data.serial = state.serial

MgmtInv ==
    /\ Management!TypeOK /\ Management!EnabledAreSupported /\ Management!RecordReadable
    /\ MgmtSerials

AppletsInv ==
    /\ applet = "piv" => PivInv
    /\ applet = "openpgp" => PgpInv
    /\ applet = "oath" => OathInv
    /\ applet = "management" => MgmtInv
----------------------------------------------------------------------------
(* PIV *)

LEMMA PivInit == Piv!ConstantsOK /\ Piv!Init => PivInv
<1> SUFFICES ASSUME Piv!ConstantsOK, Piv!Init PROVE PivInv
  OBVIOUS
<1> USE DEF Piv!ConstantsOK
<1>1. state = None /\ verified = FALSE /\ pc = "off" /\ reply = Piv!NoReply /\ wrong = 0
      /\ failed = {} /\ req = Piv!NoRequest
  BY DEF Piv!Init
<1>2. Piv!Vacant \in [PivSlots -> Piv!Keys \cup {None}]
      /\ Piv!Vacant \in [PivSlots -> Piv!Keys \cup {None, Bare}]
  BY DEF Piv!Vacant
<1>3. Piv!Factory \in Piv!PivState
  BY <1>2 DEF Piv!Factory, Piv!PivState
<1>4. /\ disk \in Piv!Records \cup {None} /\ used \in 0 .. PivKeys
      /\ disk # None => \A s \in PivSlots : disk.data.cert[s] = None
      /\ PivDiskKept
  <2>1. CASE disk = None /\ used = 0
    BY <2>1 DEF PivDiskKept
  <2>2. CASE disk = [format |-> 1, data |-> [Piv!Factory EXCEPT !.retries = 1]] /\ used = 0
    BY <1>1, <1>2, <2>2 DEF PivDiskKept, Piv!Factory, Piv!PivState, Piv!Records, Piv!Vacant
  <2>3. CASE /\ used = 1 /\ PivKeys > 0
             /\ disk = [format |-> 2, data |-> [Piv!Factory EXCEPT !.key[AuthSlot] = 1]]
    BY <1>1, <1>2, <2>3
    DEF PivDiskKept, Piv!Factory, Piv!PivState, Piv!Records, Piv!Vacant, Piv!Keys
  <2> QED  BY <2>1, <2>2, <2>3 DEF Piv!Init
<1>5. Piv!TypeOK
  BY <1>1, <1>4 DEF Piv!TypeOK, Piv!NoReply, Piv!Replies, Piv!NoRequest, Piv!Kinds
<1>6. Piv!CertificateFollowsKey
  BY <1>1, <1>4 DEF Piv!CertificateFollowsKey
<1> QED
  BY <1>1, <1>4, <1>5, <1>6
  DEF PivInv, Piv!AttemptsTaken, Piv!BlockedEndsSession, Piv!AnsweredIsStored,
      PivOff, PivOpening, PivRamStored, PivReplyDue

\* parse_state keeps what the format has.
LEMMA PivParsed ==
  ASSUME Piv!ConstantsOK, disk \in Piv!Records
  PROVE  /\ Piv!parse_state(disk) \in Piv!PivState
         /\ Piv!parse_state(disk).retries = disk.data.retries
         /\ Piv!parse_state(disk).key = IF disk.format = 1 THEN Piv!Vacant ELSE disk.data.key
         /\ Piv!parse_state(disk).cert = IF disk.format = 3 THEN disk.data.cert ELSE Piv!Vacant
<1>1. disk.format \in 1 .. 3 /\ disk.data \in Piv!PivState
  BY DEF Piv!Records
<1>2. disk.format = 1 \/ disk.format = 2 \/ disk.format = 3
  BY <1>1
<1>3. Piv!Vacant \in [PivSlots -> Piv!Keys \cup {None}]
      /\ Piv!Vacant \in [PivSlots -> Piv!Keys \cup {None, Bare}]
  BY DEF Piv!Vacant
<1>4. CASE disk.format = 1
  <2> DEFINE d == disk.data
             p == [d EXCEPT !.key = Piv!Vacant, !.cert = Piv!Vacant]
  <2>1. Piv!parse_state(disk) = p
    BY <1>4 DEF Piv!parse_state
  <2>2. d \in [pin : Pins, retries : 0 .. MaxRetries,
               key : [PivSlots -> Piv!Keys \cup {None}], cert : [PivSlots -> Piv!Keys \cup {None, Bare}]]
    BY <1>1 DEF Piv!PivState
  <2> HIDE DEF d
  <2>3. p \in Piv!PivState
    BY <1>3, <2>2 DEF Piv!PivState
  <2>4. p.retries = d.retries /\ p.key = Piv!Vacant /\ p.cert = Piv!Vacant
    BY <1>3, <2>2
  <2> QED  BY <1>4, <2>1, <2>3, <2>4 DEF d
<1>5. CASE disk.format = 2
  BY <1>1, <1>3, <1>5 DEF Piv!parse_state, Piv!PivState
<1>6. CASE disk.format = 3
  BY <1>1, <1>3, <1>6 DEF Piv!parse_state, Piv!PivState
<1> QED
  BY <1>2, <1>4, <1>5, <1>6

LEMMA PivLoads ==
  ASSUME Piv!ConstantsOK, PivInv, Piv!ensure_loaded
  PROVE  PivInv'
<1> USE DEF Piv!ConstantsOK, Piv!ensure_loaded, Piv!Persist
<1>1. Piv!TypeOK /\ PivOff /\ PivDiskKept /\ Piv!CertificateFollowsKey
  BY DEF PivInv
<1>2. /\ pc = "off" /\ wrong = 0 /\ failed = {} /\ verified = FALSE /\ reply = Piv!NoReply
      /\ UNCHANGED <<disk, verified, reply, used, wrong, failed>>
  BY <1>1 DEF PivOff
<1>3. Piv!Vacant \in [PivSlots -> Piv!Keys \cup {None}]
      /\ Piv!Vacant \in [PivSlots -> Piv!Keys \cup {None, Bare}]
      /\ \A s \in PivSlots : Piv!Vacant[s] = None
  BY DEF Piv!Vacant
<1>4. /\ state' \in Piv!PivState /\ pc' \in {"idle", "persist"}
      /\ req' \in [kind : Piv!Kinds, slot : PivSlots]
      /\ state'.retries <= MaxRetries
      /\ pc' = "persist" => req'.kind \in {"migrate", "factory"}
      /\ (pc' = "persist" /\ req'.kind = "factory") \/
           (disk # None /\ disk \in Piv!Records
            /\ state'.key = IF disk.format = 1 THEN Piv!Vacant ELSE disk.data.key)
      /\ \A s \in PivSlots :
            /\ state'.key[s] = None \/ (disk # None /\ state'.key[s] = disk.data.key[s])
            /\ state'.cert[s] = None \/ (/\ disk # None
                                         /\ state'.cert[s] = disk.data.cert[s]
                                         /\ state'.key[s] = disk.data.key[s])
  <2>1. CASE disk # None /\ state' = Piv!parse_state(disk)
             /\ ((pc' = "idle" /\ UNCHANGED req) \/ Piv!Persist("migrate", AuthSlot))
    <3>1. disk \in Piv!Records
      BY <1>1, <2>1 DEF Piv!TypeOK
    <3>2. disk.format = 1 => disk.data.key = Piv!Vacant
      BY <1>1, <2>1 DEF PivDiskKept
    <3> QED
      BY <1>1, <1>3, <2>1, <3>1, <3>2, PivParsed DEF Piv!TypeOK, Piv!PivState, Piv!Kinds
  <2>2. CASE state' = Piv!Factory /\ Piv!Persist("factory", AuthSlot)
    BY <1>3, <2>2 DEF Piv!Factory, Piv!PivState, Piv!Kinds
  <2> QED  BY <2>1, <2>2
<1>5. Piv!TypeOK'
  BY <1>1, <1>2, <1>4 DEF Piv!TypeOK
<1>6. Piv!CertificateFollowsKey'
  BY <1>1, <1>2, <1>4 DEF Piv!CertificateFollowsKey
<1>7. PivRamStored'
  BY <1>2, <1>4 DEF PivRamStored
<1>8. PivDiskKept'
  <2>1. CASE pc' = "persist" /\ req'.kind = "factory"
    BY <1>1, <1>2, <2>1 DEF PivDiskKept
  <2>2. CASE disk # None /\ state'.key = IF disk.format = 1 THEN Piv!Vacant ELSE disk.data.key
    BY <1>1, <1>2, <2>2 DEF PivDiskKept
  <2> QED  BY <1>4, <2>1, <2>2
<1>9. /\ Piv!AttemptsTaken' /\ Piv!BlockedEndsSession' /\ Piv!AnsweredIsStored'
      /\ PivOff' /\ PivOpening' /\ PivReplyDue'
  <2>1. reply.of = "nothing" /\ reply'.of = "nothing"
    BY <1>2 DEF Piv!NoReply
  <2>2. state'.retries \in 0 .. MaxRetries
    BY <1>4 DEF Piv!PivState
  <2> QED
    BY <1>2, <1>4, <2>1, <2>2
    DEF Piv!AttemptsTaken, Piv!BlockedEndsSession, Piv!AnsweredIsStored, PivOff, PivOpening,
        PivReplyDue
<1> QED
  BY <1>5, <1>6, <1>7, <1>8, <1>9 DEF PivInv

\* VERIFY and CHANGE REFERENCE DATA touch the PIN, its attempts and the session only.
LEMMA PivTries ==
  ASSUME Piv!ConstantsOK, PivInv, NEW given_pin \in Pins, NEW new_pin \in Pins,
         \/ Piv!cmd_verify(given_pin)
         \/ Piv!cmd_change_reference_data(given_pin, new_pin)
  PROVE  PivInv'
<1> USE DEF Piv!ConstantsOK, Piv!Persist
<1>1. Piv!TypeOK /\ Piv!AttemptsTaken /\ Piv!BlockedEndsSession /\ Piv!CertificateFollowsKey
      /\ PivRamStored /\ PivDiskKept
  BY DEF PivInv
<1>2. pc = "idle" /\ state \in Piv!PivState /\ state # None /\ state.retries \in 1 .. MaxRetries
  BY <1>1 DEF Piv!cmd_verify, Piv!cmd_change_reference_data, Piv!Accepts, Piv!TypeOK, Piv!PivState
<1>3. /\ UNCHANGED <<disk, used, failed>> /\ reply' = Piv!NoReply /\ pc' = "persist"
      /\ req' \in [kind : Piv!Kinds, slot : PivSlots]
      /\ req'.kind \in {"verify", "change", "refuse"}
  BY DEF Piv!cmd_verify, Piv!cmd_change_reference_data, Piv!consume_retry, Piv!Kinds
<1>4. /\ state' \in Piv!PivState /\ state' # None
      /\ state'.key = state.key /\ state'.cert = state.cert
      /\ verified' \in BOOLEAN /\ wrong' \in Nat
      /\ wrong' + state'.retries <= MaxRetries
      /\ state'.retries = 0 => verified' = FALSE
      /\ req'.kind \in {"verify", "change"} => state'.retries = MaxRetries
  <2>1. CASE Piv!consume_retry
    <3>1. state' = [state EXCEPT !.retries = state.retries - 1] /\ wrong' = wrong + 1
          /\ verified' = (verified /\ state'.retries # 0) /\ req'.kind = "refuse"
      BY <1>2, <2>1 DEF Piv!consume_retry, Piv!saturating_sub, Piv!SessionAfter
    <3>2. wrong \in Nat /\ wrong + state.retries <= MaxRetries
      BY <1>1, <1>2 DEF Piv!TypeOK, Piv!AttemptsTaken
    <3>3. verified' \in BOOLEAN /\ (state'.retries = 0 => verified' = FALSE)
      BY <3>1, Zenon
    <3>4. state' \in Piv!PivState /\ state'.retries = state.retries - 1
          /\ state'.key = state.key /\ state'.cert = state.cert
      BY <1>2, <3>1 DEF Piv!PivState
    <3> QED  BY <1>2, <3>1, <3>2, <3>3, <3>4
  <2>2. CASE /\ \E pin \in Pins : state' = [state EXCEPT !.pin = pin, !.retries = MaxRetries]
             /\ wrong' = 0 /\ UNCHANGED verified
    <3>1. PICK pin \in Pins : state' = [state EXCEPT !.pin = pin, !.retries = MaxRetries]
      BY <2>2
    <3>2. state' = [pin |-> pin, retries |-> MaxRetries, key |-> state.key, cert |-> state.cert]
      BY <1>2, <3>1 DEF Piv!PivState
    <3>3. state' \in Piv!PivState
      BY <1>2, <3>2 DEF Piv!PivState
    <3>4. verified' \in BOOLEAN
      BY <1>1, <2>2 DEF Piv!TypeOK
    <3> QED  BY <2>2, <3>2, <3>3, <3>4
  <2>3. CASE Piv!cmd_verify(given_pin)
    <3>1. CASE given_pin = state.pin
      <4>1. state' = [state EXCEPT !.pin = state.pin, !.retries = MaxRetries]
            /\ wrong' = 0 /\ UNCHANGED verified
        BY <1>2, <2>3, <3>1 DEF Piv!cmd_verify, Piv!PivState
      <4> QED  BY <2>2, <3>1, <4>1
    <3>2. CASE given_pin # state.pin
      BY <2>1, <2>3, <3>2 DEF Piv!cmd_verify
    <3> QED  BY <3>1, <3>2
  <2>4. CASE Piv!cmd_change_reference_data(given_pin, new_pin)
    BY <2>1, <2>2, <2>4 DEF Piv!cmd_change_reference_data
  <2> QED  BY <2>3, <2>4
<1>5. Piv!TypeOK'
  BY <1>1, <1>3, <1>4 DEF Piv!TypeOK, Piv!NoReply, Piv!Replies
<1>6. Piv!CertificateFollowsKey'
  BY <1>1, <1>2, <1>3, <1>4 DEF Piv!CertificateFollowsKey
<1>7. PivRamStored' /\ PivDiskKept'
  BY <1>1, <1>2, <1>3, <1>4 DEF PivRamStored, PivDiskKept
<1>8. /\ Piv!AttemptsTaken' /\ Piv!BlockedEndsSession' /\ Piv!AnsweredIsStored'
      /\ PivOff' /\ PivOpening' /\ PivReplyDue'
  BY <1>3, <1>4
  DEF Piv!AttemptsTaken, Piv!BlockedEndsSession, Piv!AnsweredIsStored, PivOff, PivOpening,
      PivReplyDue, Piv!NoReply
<1> QED
  BY <1>5, <1>6, <1>7, <1>8 DEF PivInv

LEMMA PivGenerates ==
  ASSUME Piv!ConstantsOK, PivInv, NEW slot \in PivSlots, Piv!cmd_generate(slot)
  PROVE  PivInv'
<1> USE DEF Piv!ConstantsOK, Piv!Persist, Piv!cmd_generate, Piv!Show
<1>1. Piv!TypeOK /\ Piv!AttemptsTaken /\ Piv!BlockedEndsSession /\ Piv!CertificateFollowsKey
      /\ PivRamStored /\ PivDiskKept
  BY DEF PivInv
<1>2. pc = "idle" /\ state \in Piv!PivState /\ state # None /\ used + 1 \in Piv!Keys
      /\ used \in Nat
  BY <1>1 DEF Piv!TypeOK, Piv!Keys
<1>3. /\ UNCHANGED <<disk, verified, wrong, failed>> /\ pc' = "persist" /\ used' = used + 1
      /\ req' = [kind |-> "generate", slot |-> slot]
      /\ reply' = [of |-> "key", slot |-> slot, data |-> used + 1]
  OBVIOUS
<1>4. /\ state' \in Piv!PivState /\ state' # None /\ state'.retries = state.retries
      /\ state'.key[slot] = used + 1 /\ state'.cert[slot] = None
      /\ \A s \in PivSlots \ {slot} : state'.key[s] = state.key[s] /\ state'.cert[s] = state.cert[s]
  <2>1. state' = [pin |-> state.pin, retries |-> state.retries,
                  key |-> [state.key EXCEPT ![slot] = used + 1],
                  cert |-> [state.cert EXCEPT ![slot] = None]]
    BY <1>2 DEF Piv!PivState, Piv!Regenerated
  <2> QED  BY <1>2, <2>1 DEF Piv!PivState
<1>5. Piv!TypeOK'
  <2>1. reply' \in Piv!Replies /\ req' \in [kind : Piv!Kinds, slot : PivSlots]
    BY <1>2, <1>3 DEF Piv!Replies, Piv!Kinds
  <2>2. used' \in 0 .. PivKeys
    BY <1>2, <1>3 DEF Piv!Keys
  <2> QED  BY <1>1, <1>3, <1>4, <2>1, <2>2 DEF Piv!TypeOK
<1>6. Piv!CertificateFollowsKey'
  BY <1>1, <1>2, <1>3, <1>4 DEF Piv!CertificateFollowsKey
<1>7. PivRamStored' /\ PivDiskKept'
  BY <1>1, <1>2, <1>3, <1>4 DEF PivRamStored, PivDiskKept
<1>8. /\ Piv!AttemptsTaken' /\ Piv!BlockedEndsSession' /\ Piv!AnsweredIsStored'
      /\ PivOff' /\ PivOpening' /\ PivReplyDue'
  BY <1>1, <1>2, <1>3, <1>4
  DEF Piv!AttemptsTaken, Piv!BlockedEndsSession, Piv!AnsweredIsStored, PivOff, PivOpening,
      PivReplyDue
<1> QED
  BY <1>5, <1>6, <1>7, <1>8 DEF PivInv

LEMMA PivPuts ==
  ASSUME Piv!ConstantsOK, PivInv, NEW slot \in PivSlots, Piv!cmd_put_data(slot)
  PROVE  PivInv'
<1> USE DEF Piv!ConstantsOK, Piv!Persist, Piv!cmd_put_data
<1>1. Piv!TypeOK /\ Piv!AttemptsTaken /\ Piv!BlockedEndsSession /\ Piv!CertificateFollowsKey
      /\ PivRamStored /\ PivDiskKept
  BY DEF PivInv
<1>2. pc = "idle" /\ state \in Piv!PivState /\ state # None
  BY <1>1 DEF Piv!TypeOK
<1>3. /\ UNCHANGED <<disk, verified, used, wrong, failed>> /\ pc' = "persist"
      /\ req' = [kind |-> "put", slot |-> slot] /\ reply' = Piv!NoReply
  OBVIOUS
<1>4. /\ state' \in Piv!PivState /\ state' # None /\ state'.retries = state.retries
      /\ state'.key = state.key
      /\ state'.cert[slot] = IF state.key[slot] = None THEN Bare ELSE state.key[slot]
      /\ \A s \in PivSlots \ {slot} : state'.cert[s] = state.cert[s]
  BY <1>2 DEF Piv!PivState
<1>5. Piv!TypeOK'
  <2>1. reply' \in Piv!Replies /\ req' \in [kind : Piv!Kinds, slot : PivSlots]
    BY <1>2, <1>3 DEF Piv!Replies, Piv!Kinds, Piv!NoReply
  <2> QED  BY <1>1, <1>3, <1>4, <2>1 DEF Piv!TypeOK
<1>6. Piv!CertificateFollowsKey'
  BY <1>1, <1>2, <1>3, <1>4 DEF Piv!CertificateFollowsKey
<1>7. PivRamStored' /\ PivDiskKept'
  BY <1>1, <1>2, <1>3, <1>4 DEF PivRamStored, PivDiskKept
<1>8. /\ Piv!AttemptsTaken' /\ Piv!BlockedEndsSession' /\ Piv!AnsweredIsStored'
      /\ PivOff' /\ PivOpening' /\ PivReplyDue'
  BY <1>1, <1>2, <1>3, <1>4
  DEF Piv!AttemptsTaken, Piv!BlockedEndsSession, Piv!AnsweredIsStored, PivOff, PivOpening,
      PivReplyDue, Piv!NoReply
<1> QED
  BY <1>5, <1>6, <1>7, <1>8 DEF PivInv

\* GET DATA and GENERAL AUTHENTICATE show what is in RAM, which between commands is in
\* the record.
LEMMA PivShows ==
  ASSUME Piv!ConstantsOK, PivInv, NEW slot \in PivSlots,
         Piv!cmd_get_data(slot) \/ Piv!cmd_authenticate(slot)
  PROVE  PivInv'
<1> USE DEF Piv!ConstantsOK, Piv!cmd_get_data, Piv!cmd_authenticate, Piv!Show
<1>1. Piv!TypeOK /\ Piv!AttemptsTaken /\ Piv!BlockedEndsSession /\ Piv!CertificateFollowsKey
      /\ PivRamStored /\ PivDiskKept
  BY DEF PivInv
<1>2. pc = "idle" /\ state \in Piv!PivState /\ state # None
      /\ UNCHANGED <<disk, state, verified, pc, req, used, wrong, failed>>
  BY <1>1 DEF Piv!TypeOK
<1>3. \/ reply' = [of |-> "cert", slot |-> slot, data |-> state.cert[slot]]
         /\ state.cert[slot] # None
      \/ reply' = [of |-> "key", slot |-> slot, data |-> state.key[slot]]
         /\ state.key[slot] # None
  OBVIOUS
<1>4. reply' \in Piv!Replies
  BY <1>2, <1>3 DEF Piv!Replies, Piv!PivState
<1>5. Piv!TypeOK'
  BY <1>1, <1>2, <1>4 DEF Piv!TypeOK
<1>6. Piv!AnsweredIsStored'
  BY <1>1, <1>2, <1>3 DEF Piv!AnsweredIsStored, PivRamStored
<1>7. Piv!CertificateFollowsKey'
  BY <1>1, <1>2 DEF Piv!CertificateFollowsKey
<1>8. PivRamStored' /\ PivDiskKept'
  BY <1>1, <1>2 DEF PivRamStored, PivDiskKept
<1>9. /\ Piv!AttemptsTaken' /\ Piv!BlockedEndsSession'
      /\ PivOff' /\ PivOpening' /\ PivReplyDue'
  BY <1>1, <1>2
  DEF Piv!AttemptsTaken, Piv!BlockedEndsSession, PivOff, PivOpening, PivReplyDue
<1> QED
  BY <1>5, <1>6, <1>7, <1>8, <1>9 DEF PivInv

LEMMA PivPersists ==
  ASSUME Piv!ConstantsOK, PivInv, Piv!Persisted
  PROVE  PivInv'
<1> USE DEF Piv!ConstantsOK, Piv!Persisted
<1>1. Piv!TypeOK /\ Piv!AttemptsTaken /\ Piv!BlockedEndsSession /\ Piv!CertificateFollowsKey
      /\ PivOpening /\ PivReplyDue
  BY DEF PivInv
<1>2. pc = "persist" /\ pc' = "idle" /\ state \in Piv!PivState /\ state # None
      /\ UNCHANGED <<state, req, reply, used, wrong, failed>>
      /\ disk' = [format |-> 3, data |-> state]
  BY <1>1 DEF Piv!TypeOK
<1>3. disk' \in Piv!Records /\ disk' # None /\ disk'.data = state /\ disk'.format = 3
  BY <1>2 DEF Piv!Records
<1>4. Piv!TypeOK'
  <2>1. verified' \in BOOLEAN
    BY Zenon
  <2> QED  BY <1>1, <1>2, <1>3, <2>1 DEF Piv!TypeOK
<1>5. Piv!AnsweredIsStored'
  BY <1>1, <1>2, <1>3 DEF Piv!AnsweredIsStored, PivReplyDue
<1>6. Piv!BlockedEndsSession'
  BY <1>1, <1>2 DEF Piv!BlockedEndsSession, PivOpening
<1>7. Piv!CertificateFollowsKey'
  BY <1>1, <1>2, <1>3 DEF Piv!CertificateFollowsKey
<1>8. PivRamStored' /\ PivDiskKept' /\ Piv!AttemptsTaken' /\ PivOff' /\ PivOpening' /\ PivReplyDue'
  BY <1>1, <1>2, <1>3
  DEF PivRamStored, PivDiskKept, Piv!AttemptsTaken, PivOff, PivOpening, PivReplyDue
<1> QED
  BY <1>4, <1>5, <1>6, <1>7, <1>8 DEF PivInv

LEMMA PivWriteFails ==
  ASSUME Piv!ConstantsOK, PivInv, Piv!PersistFailed
  PROVE  PivInv'
<1> USE DEF Piv!ConstantsOK, Piv!PersistFailed
<1>1. Piv!TypeOK /\ Piv!AttemptsTaken /\ Piv!BlockedEndsSession /\ Piv!CertificateFollowsKey
      /\ PivRamStored /\ PivReplyDue /\ PivDiskKept
  BY DEF PivInv
<1>2. /\ pc = "persist" /\ pc' = "idle" /\ state \in Piv!PivState /\ state # None
      /\ req \in [kind : Piv!Kinds, slot : PivSlots] /\ req.kind # "factory" /\ failed \subseteq PivSlots
      /\ reply' = Piv!NoReply /\ UNCHANGED <<disk, verified, req, used, wrong>>
  BY <1>1 DEF Piv!TypeOK
<1>3. /\ state' \in Piv!PivState /\ state' # None /\ state'.retries = state.retries
      /\ \A s \in PivSlots :
            /\ state'.key[s] = IF req.kind = "generate" /\ req.slot = s THEN None ELSE state.key[s]
            /\ state'.cert[s] = IF req.kind = "put" /\ req.slot = s THEN None ELSE state.cert[s]
  <2>1. CASE req.kind = "generate"
    BY <1>2, <2>1 DEF Piv!RolledBack, Piv!PivState
  <2>2. CASE req.kind = "put"
    BY <1>2, <2>2 DEF Piv!RolledBack, Piv!PivState
  <2>3. CASE req.kind \notin {"generate", "put"}
    BY <1>2, <2>3 DEF Piv!RolledBack, Piv!PivState
  <2> QED  BY <2>1, <2>2, <2>3
<1>4. Piv!TypeOK'
  <2>1. failed' \subseteq PivSlots
    BY <1>2
  <2>2. reply' \in Piv!Replies
    BY <1>2 DEF Piv!Replies, Piv!NoReply
  <2> QED  BY <1>1, <1>2, <1>3, <2>1, <2>2 DEF Piv!TypeOK
<1>5. Piv!CertificateFollowsKey'
  BY <1>1, <1>2, <1>3 DEF Piv!CertificateFollowsKey, PivReplyDue
<1>6. PivRamStored'
  BY <1>1, <1>2, <1>3 DEF PivRamStored
<1>7. PivDiskKept'
  <2>1. \A s \in PivSlots : s \in failed' \/ ~(req = [kind |-> "generate", slot |-> s])
    BY <1>2
  <2>2. failed \subseteq failed'
    OBVIOUS
  <2>3. ASSUME NEW s \in PivSlots, req.kind = "generate", req.slot = s
        PROVE  s \in failed'
    BY <2>3
  <2> QED  BY <1>1, <1>2, <1>3, <2>1, <2>2, <2>3 DEF PivDiskKept
<1>8. /\ Piv!AttemptsTaken' /\ Piv!BlockedEndsSession' /\ Piv!AnsweredIsStored'
      /\ PivOff' /\ PivOpening' /\ PivReplyDue'
  BY <1>1, <1>2, <1>3
  DEF Piv!AttemptsTaken, Piv!BlockedEndsSession, Piv!AnsweredIsStored, PivOff, PivOpening,
      PivReplyDue, Piv!NoReply
<1> QED
  BY <1>4, <1>5, <1>6, <1>7, <1>8 DEF PivInv

LEMMA PivStep ==
  ASSUME Piv!ConstantsOK, PivInv, Piv!Next
  PROVE  PivInv'
<1>1. CASE Piv!PowerLoss
  <2>1. Piv!TypeOK'
    BY <1>1 DEF Piv!PowerLoss, Piv!TypeOK, PivInv, Piv!Replies, Piv!NoReply, Piv!ConstantsOK
  <2>2. Piv!CertificateFollowsKey' /\ PivDiskKept'
    BY <1>1 DEF Piv!PowerLoss, PivInv, Piv!CertificateFollowsKey, PivDiskKept
  <2> QED
    BY <1>1, <2>1, <2>2
    DEF Piv!PowerLoss, PivInv, Piv!AttemptsTaken, Piv!BlockedEndsSession, Piv!AnsweredIsStored,
        PivOff, PivOpening, PivRamStored, PivReplyDue
<1> QED
  BY <1>1, PivLoads, PivTries, PivGenerates, PivPuts, PivShows, PivPersists, PivWriteFails
  DEF Piv!Next

----------------------------------------------------------------------------
(* OpenPGP *)

LEMMA PgpFactory ==
  ASSUME OpenPgp!ConstantsOK
  PROVE  /\ OpenPgp!Factory \in OpenPgp!OpenPgpState
         /\ OpenPgp!Factory.sig_key = None
         /\ \A s \in OpenPgp!Slots : OpenPgp!Factory.retries[s] = MaxRetries
<1>1. [pw1 |-> DefaultPw1, pw3 |-> DefaultPw3] \in [OpenPgp!Slots -> Passwords]
  BY DEF OpenPgp!ConstantsOK, OpenPgp!Slots
<1>2. [s \in OpenPgp!Slots |-> MaxRetries] \in [OpenPgp!Slots -> 0 .. MaxRetries]
  BY DEF OpenPgp!ConstantsOK
<1> QED
  BY <1>1, <1>2 DEF OpenPgp!Factory, OpenPgp!OpenPgpState

LEMMA PgpInit == OpenPgp!ConstantsOK /\ OpenPgp!Init => PgpInv
<1> SUFFICES ASSUME OpenPgp!ConstantsOK, OpenPgp!Init PROVE PgpInv
  OBVIOUS
<1>1. /\ state = None /\ pw1_verified = FALSE /\ pc = "off" /\ reply = OpenPgp!NoReply
      /\ req = [kind |-> "right", slot |-> "pw1"] /\ used = 0
      /\ wrong = [s \in OpenPgp!Slots |-> 0] /\ given = FALSE /\ failed = FALSE
  BY DEF OpenPgp!Init
<1>2. /\ disk \in OpenPgp!Records \cup {None}
      /\ disk # None => disk.data.sig_key = None
  <2>1. CASE disk = [format |-> 1, data |-> [OpenPgp!Factory EXCEPT !.retries["pw1"] = 1]]
    BY <2>1, PgpFactory
    DEF OpenPgp!Records, OpenPgp!OpenPgpState, OpenPgp!ConstantsOK, OpenPgp!Slots
  <2> QED  BY <2>1 DEF OpenPgp!Init
<1>3. OpenPgp!TypeOK
  <2>1. wrong \in [OpenPgp!Slots -> Nat]
    BY <1>1
  <2>2. reply \in [sw : OpenPgp!StatusWords, left : 0 .. MaxRetries,
                   data : OpenPgp!SigKey \cup {None}]
    BY <1>1 DEF OpenPgp!NoReply, OpenPgp!StatusWords, OpenPgp!ConstantsOK
  <2>3. req \in [kind : OpenPgp!Requests, slot : OpenPgp!Slots] /\ used \in 0 .. PgpKeys
    BY <1>1 DEF OpenPgp!Requests, OpenPgp!Slots, OpenPgp!ConstantsOK
  <2> QED  BY <1>1, <1>2, <2>1, <2>2, <2>3 DEF OpenPgp!TypeOK
<1> QED
  BY <1>1, <1>2, <1>3
  DEF PgpInv, OpenPgp!PasswordAttempts, OpenPgp!SessionNeedsPw1, OpenPgp!SignerIsStored,
      PgpOff, PgpOpening, PgpRamStored, PgpReplyDue, PgpDiskKept

LEMMA PgpLoads ==
  ASSUME OpenPgp!ConstantsOK, PgpInv, OpenPgp!ensure_loaded
  PROVE  PgpInv'
<1> USE DEF OpenPgp!ensure_loaded, OpenPgp!Persist
<1>1. OpenPgp!TypeOK /\ PgpOff /\ PgpDiskKept
  BY DEF PgpInv
<1>2. /\ pc = "off" /\ wrong = [s \in OpenPgp!Slots |-> 0] /\ given = FALSE /\ failed = FALSE
      /\ pw1_verified = FALSE /\ reply = OpenPgp!NoReply
      /\ UNCHANGED <<disk, pw1_verified, reply, used, wrong, given, failed>>
  BY <1>1 DEF PgpOff
<1>3. /\ state' \in OpenPgp!OpenPgpState /\ pc' \in {"idle", "persist"}
      /\ req' \in [kind : OpenPgp!Requests, slot : OpenPgp!Slots]
      /\ pc' = "persist" => req'.kind \in {"migrate", "factory"}
      /\ (pc' = "persist" /\ req'.kind = "factory") \/ (disk # None /\ state'.sig_key = disk.data.sig_key)
      /\ state'.sig_key = None \/ (disk # None /\ state'.sig_key = disk.data.sig_key)
  <2>1. CASE disk # None /\ state' = OpenPgp!parse_state(disk)
             /\ ((pc' = "idle" /\ UNCHANGED req) \/ OpenPgp!Persist("migrate", "pw1"))
    <3>1. disk \in OpenPgp!Records
      BY <1>1, <2>1 DEF OpenPgp!TypeOK
    <3>2. state' \in OpenPgp!OpenPgpState /\ state'.sig_key = disk.data.sig_key
      <4>1. CASE disk.format = 1
        BY <1>1, <2>1, <3>1, <4>1
        DEF PgpDiskKept, OpenPgp!parse_state, OpenPgp!Records, OpenPgp!OpenPgpState
      <4>2. CASE disk.format # 1
        BY <2>1, <3>1, <4>2 DEF OpenPgp!parse_state, OpenPgp!Records
      <4> QED  BY <4>1, <4>2
    <3> QED
      BY <1>1, <2>1, <3>1, <3>2 DEF OpenPgp!TypeOK, OpenPgp!Requests, OpenPgp!Slots
  <2>2. CASE state' = OpenPgp!Factory /\ OpenPgp!Persist("factory", "pw1")
    BY <2>2, PgpFactory DEF OpenPgp!Requests, OpenPgp!Slots
  <2> QED  BY <2>1, <2>2
<1>4. state' # None
  BY <1>3 DEF OpenPgp!ConstantsOK
<1>5. OpenPgp!TypeOK'
  BY <1>1, <1>2, <1>3, <1>4 DEF OpenPgp!TypeOK
<1>6. OpenPgp!PasswordAttempts'
  BY <1>2, <1>3 DEF OpenPgp!PasswordAttempts, OpenPgp!OpenPgpState, OpenPgp!ConstantsOK
<1>7. reply.data = None /\ reply'.data = None
  BY <1>2 DEF OpenPgp!NoReply
<1> QED
  BY <1>1, <1>2, <1>3, <1>4, <1>5, <1>6, <1>7
  DEF PgpInv, OpenPgp!SessionNeedsPw1, OpenPgp!SignerIsStored,
      PgpOff, PgpOpening, PgpRamStored, PgpReplyDue, PgpDiskKept

\* VERIFY touches the attempts of the password it names, and the session if that is PW1.
LEMMA PgpVerifies ==
  ASSUME OpenPgp!ConstantsOK, PgpInv, NEW p1, NEW p2, NEW pw, OpenPgp!cmd_verify(p1, p2, pw)
  PROVE  PgpInv'
<1> USE DEF OpenPgp!ConstantsOK, OpenPgp!Persist
<1>1. OpenPgp!TypeOK /\ OpenPgp!PasswordAttempts /\ OpenPgp!SessionNeedsPw1 /\ PgpRamStored
      /\ PgpDiskKept
  BY DEF PgpInv
<1>2. PICK slot : /\ slot = OpenPgp!password_slot(p1, p2)
                  /\ slot # None /\ state.retries[slot] # 0
                  /\ OpenPgp!accept(slot) \/ OpenPgp!refuse(slot)
  BY DEF OpenPgp!cmd_verify
<1>3. slot \in OpenPgp!Slots
  BY <1>2 DEF OpenPgp!password_slot, OpenPgp!Slots
<1>4. pc = "idle" /\ state \in OpenPgp!OpenPgpState /\ state # None
      /\ state.retries[slot] \in 1 .. MaxRetries /\ wrong \in [OpenPgp!Slots -> Nat]
      /\ UNCHANGED <<disk, used, failed>>
  BY <1>1, <1>2, <1>3 DEF OpenPgp!cmd_verify, OpenPgp!TypeOK, OpenPgp!OpenPgpState
<1>5. /\ pc' = "persist" /\ req' \in [kind : OpenPgp!Requests, slot : OpenPgp!Slots]
      /\ req'.slot = slot /\ req'.kind \in {"right", "wrong"}
      /\ state' \in OpenPgp!OpenPgpState /\ state'.sig_key = state.sig_key
      /\ wrong' \in [OpenPgp!Slots -> Nat]
      /\ \A s \in OpenPgp!Slots \ {slot} : state'.retries[s] = state.retries[s] /\ wrong'[s] = wrong[s]
      /\ wrong'[slot] + state'.retries[slot] <= MaxRetries
      /\ req'.kind = "right" => state'.retries[slot] = MaxRetries
      /\ reply' \in [sw : OpenPgp!StatusWords, left : 0 .. MaxRetries,
                     data : OpenPgp!SigKey \cup {None}]
      /\ reply'.data = None
  <2>1. CASE OpenPgp!accept(slot)
    BY <1>3, <1>4, <2>1
    DEF OpenPgp!accept, OpenPgp!Answer, OpenPgp!OpenPgpState, OpenPgp!StatusWords, OpenPgp!Requests
  <2>2. CASE OpenPgp!refuse(slot)
    <3>1. state' = [state EXCEPT !.retries[slot] = state.retries[slot] - 1]
      BY <1>4, <2>2 DEF OpenPgp!refuse, OpenPgp!saturating_sub
    <3>2. state' \in OpenPgp!OpenPgpState /\ state'.sig_key = state.sig_key
          /\ state'.retries = [state.retries EXCEPT ![slot] = state.retries[slot] - 1]
          /\ state'.retries[slot] = state.retries[slot] - 1
      BY <1>3, <1>4, <3>1 DEF OpenPgp!OpenPgpState
    <3>3. state.retries \in [OpenPgp!Slots -> 0 .. MaxRetries]
      BY <1>4 DEF OpenPgp!OpenPgpState
    <3>4. wrong[slot] + state.retries[slot] <= MaxRetries
      BY <1>1, <1>3, <1>4 DEF OpenPgp!PasswordAttempts
    <3>5. wrong' = [wrong EXCEPT ![slot] = wrong[slot] + 1]
      BY <2>2 DEF OpenPgp!refuse
    <3>6. reply' = [sw |-> IF state'.retries[slot] = 0 THEN "6982" ELSE "63Cx",
                    left |-> state'.retries[slot], data |-> None]
      BY <2>2 DEF OpenPgp!refuse, OpenPgp!AnswerRetries
    <3>7. reply' \in [sw : OpenPgp!StatusWords, left : 0 .. MaxRetries,
                      data : OpenPgp!SigKey \cup {None}] /\ reply'.data = None
      BY <1>4, <3>2, <3>6 DEF OpenPgp!StatusWords
    <3>8. pc' = "persist" /\ req' = [kind |-> "wrong", slot |-> slot]
      BY <2>2 DEF OpenPgp!refuse
    <3> QED  BY <1>3, <1>4, <3>2, <3>3, <3>4, <3>5, <3>7, <3>8 DEF OpenPgp!Requests
  <2> QED  BY <1>2, <2>1, <2>2
<1>6. /\ pw1_verified' \in BOOLEAN /\ given' \in BOOLEAN
      /\ pw1_verified' => given' /\ state'.retries["pw1"] > 0
  <2>1. pw1_verified \in BOOLEAN /\ given \in BOOLEAN
    BY <1>1 DEF OpenPgp!TypeOK
  <2>2. pw1_verified => given /\ state.retries["pw1"] > 0
    BY <1>1 DEF OpenPgp!SessionNeedsPw1
  <2>3. \A s \in OpenPgp!Slots : state'.retries[s] \in Nat
    BY <1>5 DEF OpenPgp!OpenPgpState
  <2>4. CASE OpenPgp!accept(slot)
    <3>1. pw1_verified' = pw1_verified /\ given' = given
      BY <2>4 DEF OpenPgp!accept
    <3>2. state'.retries[slot] = MaxRetries
      BY <1>3, <1>4, <2>4 DEF OpenPgp!accept, OpenPgp!OpenPgpState
    <3>3. pw1_verified => state'.retries["pw1"] > 0
      BY <1>5, <2>2, <3>2 DEF OpenPgp!Slots
    <3> QED  BY <2>1, <2>2, <3>1, <3>3
  <2>5. CASE OpenPgp!refuse(slot)
    <3>1. pw1_verified' = (pw1_verified /\ ~(slot = "pw1" /\ state'.retries[slot] = 0))
          /\ given' = (given /\ ~(slot = "pw1" /\ state'.retries[slot] = 0))
      BY <2>5 DEF OpenPgp!refuse, OpenPgp!SessionAfter
    <3>2. pw1_verified' \in BOOLEAN /\ given' \in BOOLEAN
          /\ (pw1_verified' => pw1_verified /\ given' /\ ~(slot = "pw1" /\ state'.retries[slot] = 0))
      BY <2>1, <2>2, <3>1, Zenon
    <3>3. pw1_verified' => state'.retries["pw1"] > 0
      BY <1>5, <2>2, <2>3, <3>2 DEF OpenPgp!Slots
    <3> QED  BY <3>2, <3>3
  <2> QED  BY <1>2, <2>4, <2>5
<1>7. state' # None
  BY <1>5
<1>8. OpenPgp!TypeOK'
  BY <1>1, <1>4, <1>5, <1>6, <1>7 DEF OpenPgp!TypeOK
<1>9. OpenPgp!PasswordAttempts'
  BY <1>1, <1>3, <1>4, <1>5 DEF OpenPgp!PasswordAttempts
<1> QED
  BY <1>1, <1>4, <1>5, <1>6, <1>7, <1>8, <1>9
  DEF PgpInv, OpenPgp!SessionNeedsPw1, OpenPgp!SignerIsStored,
      PgpOff, PgpOpening, PgpRamStored, PgpReplyDue, PgpDiskKept

\* The commands that only answer: the status of a password, a refused GENERATE, PSO and
\* GET DATA.  The data of an answer is the key in RAM.
LEMMA PgpAnswers ==
  ASSUME OpenPgp!ConstantsOK, PgpInv, pc = "idle",
         UNCHANGED <<disk, state, pw1_verified, pc, req, used, wrong, given, failed>>,
         reply' \in [sw : OpenPgp!StatusWords, left : 0 .. MaxRetries,
                     data : OpenPgp!SigKey \cup {None}],
         reply'.data \in {None, state.sig_key}
  PROVE  PgpInv'
<1>1. OpenPgp!TypeOK'
  BY DEF OpenPgp!TypeOK, PgpInv
<1>2. OpenPgp!PasswordAttempts'
  BY DEF OpenPgp!PasswordAttempts, PgpInv
<1> QED
  BY <1>1, <1>2
  DEF PgpInv, OpenPgp!SessionNeedsPw1, OpenPgp!SignerIsStored,
      PgpOff, PgpOpening, PgpRamStored, PgpReplyDue, PgpDiskKept

LEMMA PgpQueries ==
  ASSUME OpenPgp!ConstantsOK, PgpInv,
         \/ \E p1, p2 : OpenPgp!verify_status(p1, p2)
         \/ \E sign \in BOOLEAN : OpenPgp!cmd_pso(sign)
         \/ \E tag : OpenPgp!cmd_get_data(tag)
  PROVE  PgpInv'
<1>1. /\ pc = "idle"
      /\ UNCHANGED <<disk, state, pw1_verified, pc, req, used, wrong, given, failed>>
  BY DEF OpenPgp!verify_status, OpenPgp!cmd_pso, OpenPgp!cmd_get_data
<1>2. state \in OpenPgp!OpenPgpState /\ state # None
  BY <1>1 DEF PgpInv, OpenPgp!TypeOK
<1> DEFINE Plain == /\ reply' \in [sw : OpenPgp!StatusWords, left : 0 .. MaxRetries,
                                   data : OpenPgp!SigKey \cup {None}]
                    /\ reply'.data \in {None, state.sig_key}
<1>3. Plain
  <2>1. ASSUME NEW p1, NEW p2, OpenPgp!verify_status(p1, p2) PROVE Plain
    <3> DEFINE slot == OpenPgp!password_slot(p1, p2)
    <3>1. slot \in OpenPgp!Slots \cup {None}
      BY DEF OpenPgp!password_slot, OpenPgp!Slots
    <3>2. CASE slot = None
      BY <2>1, <3>2
      DEF OpenPgp!verify_status, OpenPgp!Answer, OpenPgp!StatusWords, OpenPgp!ConstantsOK
    <3>3. CASE slot # None
      <4>1. OpenPgp!AnswerRetries(state.retries[slot]) /\ state.retries[slot] \in 0 .. MaxRetries
        BY <1>2, <2>1, <3>1, <3>3 DEF OpenPgp!verify_status, OpenPgp!OpenPgpState
      <4> HIDE DEF slot
      <4> QED  BY <4>1 DEF OpenPgp!AnswerRetries, OpenPgp!StatusWords
    <3> QED  BY <3>2, <3>3
  <2>2. ASSUME NEW sign \in BOOLEAN, OpenPgp!cmd_pso(sign) PROVE Plain
    BY <1>2, <2>2
    DEF OpenPgp!cmd_pso, OpenPgp!Answer, OpenPgp!StatusWords, OpenPgp!OpenPgpState,
        OpenPgp!ConstantsOK
  <2>3. ASSUME NEW tag, OpenPgp!cmd_get_data(tag) PROVE Plain
    <3>1. \/ OpenPgp!Answer("ok", state.sig_key) \/ OpenPgp!Answer("6982", None)
          \/ OpenPgp!Answer("6A82", None)
      BY <2>3 DEF OpenPgp!cmd_get_data
    <3> QED
      BY <1>2, <3>1
      DEF OpenPgp!Answer, OpenPgp!StatusWords, OpenPgp!OpenPgpState, OpenPgp!ConstantsOK
  <2> QED  BY <2>1, <2>2, <2>3
<1> QED
  BY <1>1, <1>3, PgpAnswers

LEMMA PgpGenerates ==
  ASSUME OpenPgp!ConstantsOK, PgpInv, NEW p1, NEW form \in OpenPgp!GenerateForms,
         NEW alg \in OpenPgp!Algs, OpenPgp!cmd_generate(p1, form, alg)
  PROVE  PgpInv'
<1> DEFINE chosen == OpenPgp!parse_generate_alg(form, alg)
<1>1. chosen \in OpenPgp!Algs \cup {"6A82", "6A80"}
  BY DEF OpenPgp!parse_generate_alg
<1>2. OpenPgp!TypeOK /\ OpenPgp!PasswordAttempts /\ OpenPgp!SessionNeedsPw1 /\ PgpDiskKept
  BY DEF PgpInv
<1>3. pc = "idle" /\ state \in OpenPgp!OpenPgpState /\ state # None
      /\ UNCHANGED <<disk, pw1_verified, wrong, given, failed>>
  BY <1>2 DEF OpenPgp!cmd_generate, OpenPgp!TypeOK
<1>4. CASE p1 \in {"00", "80", "81"} /\ chosen \in OpenPgp!Algs
  <2>1. /\ used < PgpKeys /\ used' = used + 1 /\ pc' = "persist"
        /\ state' = [state EXCEPT !.sig_key = [id |-> used + 1, alg |-> chosen]]
        /\ reply' = [sw |-> "ok", left |-> 0, data |-> state'.sig_key]
        /\ req' = [kind |-> "generate", slot |-> "pw1"]
    BY <1>4 DEF OpenPgp!cmd_generate, OpenPgp!Answer, OpenPgp!Persist
  <2> HIDE DEF chosen
  <2>2. used + 1 \in 1 .. PgpKeys /\ used' \in 0 .. PgpKeys
    BY <1>2, <2>1 DEF OpenPgp!TypeOK, OpenPgp!ConstantsOK
  <2>3. [id |-> used + 1, alg |-> chosen] \in OpenPgp!SigKey
    BY <1>4, <2>2 DEF OpenPgp!SigKey
  <2>4. state' \in OpenPgp!OpenPgpState /\ state'.retries = state.retries
        /\ state'.sig_key \in OpenPgp!SigKey
    BY <1>3, <2>1, <2>3 DEF OpenPgp!OpenPgpState
  <2>5. state' # None
    BY <2>4 DEF OpenPgp!ConstantsOK
  <2>6. OpenPgp!TypeOK'
    <3>1. reply' \in [sw : OpenPgp!StatusWords, left : 0 .. MaxRetries,
                      data : OpenPgp!SigKey \cup {None}]
      BY <2>1, <2>4 DEF OpenPgp!StatusWords, OpenPgp!ConstantsOK
    <3>2. req' \in [kind : OpenPgp!Requests, slot : OpenPgp!Slots]
      BY <2>1 DEF OpenPgp!Requests, OpenPgp!Slots
    <3> QED  BY <1>2, <1>3, <2>1, <2>2, <2>4, <2>5, <3>1, <3>2 DEF OpenPgp!TypeOK
  <2>7. OpenPgp!PasswordAttempts'
    BY <1>2, <1>3, <2>4 DEF OpenPgp!PasswordAttempts
  <2> QED
    BY <1>2, <1>3, <2>1, <2>4, <2>5, <2>6, <2>7
    DEF PgpInv, OpenPgp!SessionNeedsPw1, OpenPgp!SignerIsStored,
        PgpOff, PgpOpening, PgpRamStored, PgpReplyDue, PgpDiskKept
<1>5. CASE ~(p1 \in {"00", "80", "81"} /\ chosen \in OpenPgp!Algs)
  <2>1. UNCHANGED <<state, pc, req, used>> /\ reply'.data = None
        /\ reply' \in [sw : OpenPgp!StatusWords, left : 0 .. MaxRetries,
                       data : OpenPgp!SigKey \cup {None}]
    <3>1. UNCHANGED <<state, pc, req, used>>
          /\ OpenPgp!Answer(IF p1 \in {"00", "80", "81"} THEN chosen ELSE "6B00", None)
      BY <1>5 DEF OpenPgp!cmd_generate
    <3> HIDE DEF chosen
    <3> QED  BY <1>1, <1>5, <3>1 DEF OpenPgp!Answer, OpenPgp!StatusWords, OpenPgp!ConstantsOK
  <2> QED  BY <1>3, <2>1, PgpAnswers
<1> QED
  BY <1>4, <1>5

LEMMA PgpPersists ==
  ASSUME OpenPgp!ConstantsOK, PgpInv, OpenPgp!Persisted
  PROVE  PgpInv'
<1> USE DEF OpenPgp!ConstantsOK, OpenPgp!Persisted
<1>1. OpenPgp!TypeOK /\ OpenPgp!PasswordAttempts /\ OpenPgp!SessionNeedsPw1 /\ PgpOpening
      /\ PgpReplyDue
  BY DEF PgpInv
<1>2. pc = "persist" /\ pc' = "idle" /\ state \in OpenPgp!OpenPgpState /\ state # None
      /\ UNCHANGED <<state, req, reply, used, wrong, failed>>
  BY <1>1 DEF OpenPgp!TypeOK
<1>3. disk' \in OpenPgp!Records /\ disk' # None /\ disk'.data = state /\ disk'.format = 2
  BY <1>2 DEF OpenPgp!Records, OpenPgp!serialize_state
<1>4. /\ pw1_verified' \in BOOLEAN /\ given' \in BOOLEAN
      /\ pw1_verified' => given' /\ (pw1_verified \/ (req.kind = "right" /\ req.slot = "pw1"))
  <2>1. (pw1_verified => given) /\ pw1_verified \in BOOLEAN
    BY <1>1 DEF OpenPgp!TypeOK, OpenPgp!SessionNeedsPw1
  <2> QED  BY <2>1, Zenon
<1>5. OpenPgp!SessionNeedsPw1'
  BY <1>1, <1>2, <1>4 DEF OpenPgp!SessionNeedsPw1, PgpOpening
<1>6. OpenPgp!TypeOK'
  BY <1>1, <1>2, <1>3, <1>4 DEF OpenPgp!TypeOK
<1>7. OpenPgp!PasswordAttempts'
  BY <1>1, <1>2 DEF OpenPgp!PasswordAttempts
<1> QED
  BY <1>1, <1>2, <1>3, <1>5, <1>6, <1>7
  DEF PgpInv, OpenPgp!SignerIsStored, PgpOff, PgpOpening, PgpRamStored, PgpReplyDue, PgpDiskKept

LEMMA PgpWriteFails ==
  ASSUME OpenPgp!ConstantsOK, PgpInv, OpenPgp!PersistFailed
  PROVE  PgpInv'
<1> USE DEF OpenPgp!ConstantsOK, OpenPgp!PersistFailed
<1>1. OpenPgp!TypeOK /\ OpenPgp!PasswordAttempts /\ OpenPgp!SessionNeedsPw1 /\ PgpRamStored
      /\ PgpDiskKept
  BY DEF PgpInv
<1>2. /\ pc = "persist" /\ pc' = "idle" /\ state \in OpenPgp!OpenPgpState /\ state # None
      /\ req.kind # "factory" /\ UNCHANGED <<disk, pw1_verified, req, used, wrong, given>>
  BY <1>1 DEF OpenPgp!TypeOK
<1>3. /\ state' \in OpenPgp!OpenPgpState /\ state' # None /\ state'.retries = state.retries
      /\ state'.sig_key = IF req.kind = "generate" THEN None ELSE state.sig_key
  BY <1>2 DEF OpenPgp!RolledBack, OpenPgp!OpenPgpState
<1>4. failed' \in BOOLEAN /\ (failed' <=> failed \/ req.kind = "generate")
  BY Zenon
<1>5. reply'.data = None
      /\ reply' \in [sw : OpenPgp!StatusWords, left : 0 .. MaxRetries,
                     data : OpenPgp!SigKey \cup {None}]
  BY DEF OpenPgp!Answer, OpenPgp!StatusWords
<1>6. OpenPgp!TypeOK'
  BY <1>1, <1>2, <1>3, <1>4, <1>5 DEF OpenPgp!TypeOK
<1>7. OpenPgp!PasswordAttempts'
  BY <1>1, <1>2, <1>3 DEF OpenPgp!PasswordAttempts
<1> QED
  BY <1>1, <1>2, <1>3, <1>4, <1>5, <1>6, <1>7
  DEF PgpInv, OpenPgp!SessionNeedsPw1, OpenPgp!SignerIsStored,
      PgpOff, PgpOpening, PgpRamStored, PgpReplyDue, PgpDiskKept

LEMMA PgpStep ==
  ASSUME OpenPgp!ConstantsOK, PgpInv, OpenPgp!Next
  PROVE  PgpInv'
<1>1. CASE OpenPgp!PowerLoss
  <2>1. OpenPgp!TypeOK'
    <3>1. reply' \in [sw : OpenPgp!StatusWords, left : 0 .. MaxRetries,
                      data : OpenPgp!SigKey \cup {None}]
      BY <1>1 DEF OpenPgp!PowerLoss, OpenPgp!NoReply, OpenPgp!StatusWords, OpenPgp!ConstantsOK
    <3>2. wrong' \in [OpenPgp!Slots -> Nat]
      BY <1>1 DEF OpenPgp!PowerLoss
    <3> QED  BY <1>1, <3>1, <3>2 DEF OpenPgp!PowerLoss, OpenPgp!TypeOK, PgpInv
  <2> QED
    BY <1>1, <2>1
    DEF OpenPgp!PowerLoss, PgpInv, OpenPgp!PasswordAttempts, OpenPgp!SessionNeedsPw1,
        OpenPgp!SignerIsStored, PgpOff, PgpOpening, PgpRamStored, PgpReplyDue, PgpDiskKept
<1>2. CASE \E p \in {<<"81", "00">>, <<"00", "82">>, <<"00", "83">>, <<"84", "81">>} :
              \/ OpenPgp!verify_status(p[1], p[2])
              \/ \E pw \in Passwords : OpenPgp!cmd_verify(p[1], p[2], pw)
  BY <1>2, PgpVerifies, PgpQueries
<1> QED
  BY <1>1, <1>2, PgpLoads, PgpQueries, PgpGenerates, PgpPersists, PgpWriteFails
  DEF OpenPgp!Next

----------------------------------------------------------------------------
(* Management *)

LEMMA MgmtFactory ==
  ASSUME Management!ConstantsOK, NEW serial \in 1 .. MaxSerial
  PROVE  /\ Management!Factory(serial) \in Management!ManagementState
         /\ Management!Factory(serial).serial = serial /\ serial # 0
         /\ Management!Factory(serial).usb_enabled = Supported
<1>1. Management!DefaultTiming \in Timings
  BY DEF Management!DefaultTiming, Management!ConstantsOK
<1> QED
  BY <1>1 DEF Management!Factory, Management!ManagementState, Management!ConstantsOK

\* A record with a serial is read, and its serial is kept.
LEMMA MgmtParsed ==
  ASSUME Management!ConstantsOK, NEW r \in Management!Records, r.data.serial # 0,
         r.data.usb_enabled \subseteq Supported
  PROVE  /\ Management!parse_state(r) \in Management!ManagementState
         /\ Management!parse_state(r) # None
         /\ Management!parse_state(r).serial = r.data.serial
         /\ Management!parse_state(r).usb_enabled \subseteq Supported
<1>1. r.data \in Management!ManagementState /\ r.data.serial \in 1 .. MaxSerial
  BY DEF Management!Records, Management!ManagementState, Management!ConstantsOK
<1>2. None \notin Management!ManagementState
  BY DEF Management!ConstantsOK
<1>3. CASE r.format = 1
  BY <1>1, <1>2, <1>3, MgmtFactory DEF Management!parse_state
<1>4. CASE r.format # 1
  BY <1>1, <1>2, <1>4 DEF Management!parse_state
<1> QED
  BY <1>3, <1>4

LEMMA MgmtInit == Management!ConstantsOK /\ Management!Init => MgmtInv
<1> SUFFICES ASSUME Management!ConstantsOK, Management!Init PROVE MgmtInv
  OBVIOUS
<1>1. state = None /\ pc = "off" /\ factory = FALSE /\ lost = FALSE
  BY DEF Management!Init
<1>2. CASE disk = None /\ shown = None
  BY <1>1, <1>2
  DEF MgmtInv, Management!TypeOK, Management!EnabledAreSupported, Management!RecordReadable,
      MgmtSerials
<1>3. CASE /\ shown \in 1 .. MaxSerial
           /\ disk = [format |-> 1, data |-> Management!Factory(shown)]
  <2>1. disk \in Management!Records /\ disk.data.serial = shown /\ shown # 0
        /\ disk.data.usb_enabled = Supported
    BY <1>3, MgmtFactory DEF Management!Records
  <2>2. disk # None
    BY <2>1 DEF Management!ConstantsOK
  <2>3. Management!parse_state(disk) # None
    BY <2>1, MgmtParsed
  <2>4. Management!TypeOK
    <3>1. shown \in 0 .. MaxSerial
      BY <1>3 DEF Management!ConstantsOK
    <3> QED  BY <1>1, <2>1, <3>1 DEF Management!TypeOK
  <2> QED
    BY <1>1, <2>1, <2>2, <2>3, <2>4
    DEF MgmtInv, Management!EnabledAreSupported, Management!RecordReadable, MgmtSerials
<1> QED
  BY <1>2, <1>3 DEF Management!Init

LEMMA MgmtLoads ==
  ASSUME Management!ConstantsOK, MgmtInv, Management!ensure_loaded
  PROVE  MgmtInv'
<1> USE DEF Management!ensure_loaded
<1>1. Management!TypeOK /\ Management!EnabledAreSupported /\ Management!RecordReadable
      /\ MgmtSerials
  BY DEF MgmtInv
<1>2. pc = "off" /\ UNCHANGED <<disk, shown>>
  OBVIOUS
<1>3. CASE /\ disk # None /\ Management!parse_state(disk) # None
           /\ state' = Management!parse_state(disk) /\ pc' = "idle" /\ UNCHANGED <<factory, lost>>
  <2>1. disk \in Management!Records /\ disk.data.serial # 0
        /\ disk.data.usb_enabled \subseteq Supported
    BY <1>1, <1>3 DEF Management!TypeOK, MgmtSerials, Management!EnabledAreSupported
  <2>2. state' \in Management!ManagementState /\ state' # None
        /\ state'.serial = disk.data.serial /\ state'.usb_enabled \subseteq Supported
    BY <1>3, <2>1, MgmtParsed
  <2>3. Management!TypeOK'
    BY <1>1, <1>2, <1>3, <2>2 DEF Management!TypeOK
  <2> QED
    BY <1>1, <1>2, <1>3, <2>1, <2>2, <2>3
    DEF MgmtInv, Management!EnabledAreSupported, Management!RecordReadable, MgmtSerials
<1>4. CASE /\ \E serial \in Management!factory_serials : state' = Management!Factory(serial)
           /\ pc' = "persist" /\ factory' = TRUE
           /\ lost' = (lost \/ (disk # None /\ Management!parse_state(disk) # None))
  <2>1. state' \in Management!ManagementState /\ state'.serial # 0
        /\ state'.usb_enabled = Supported
    BY <1>4, MgmtFactory DEF Management!factory_serials
  <2>2. state' # None
    BY <2>1 DEF Management!ConstantsOK
  <2>3. lost' \in BOOLEAN /\ (lost' = FALSE => lost = FALSE /\ disk = None)
    <3>1. lost \in BOOLEAN
      BY <1>1 DEF Management!TypeOK
    <3>2. disk # None => Management!parse_state(disk) # None
      BY <1>1 DEF Management!RecordReadable
    <3> QED  BY <1>4, <3>1, <3>2, Zenon
  <2>4. Management!TypeOK'
    BY <1>1, <1>2, <1>4, <2>1, <2>2, <2>3 DEF Management!TypeOK
  <2> QED
    BY <1>1, <1>2, <1>4, <2>1, <2>2, <2>3, <2>4
    DEF MgmtInv, Management!EnabledAreSupported, Management!RecordReadable, MgmtSerials
<1> QED
  BY <1>3, <1>4

\* WRITE CONFIG and SET MODE leave the serial alone and enable what is supported.
LEMMA MgmtConfigures ==
  ASSUME Management!ConstantsOK, MgmtInv, pc = "idle", Management!Persist,
         UNCHANGED <<disk, shown, lost>>,
         state' \in Management!ManagementState, state'.serial = state.serial,
         state'.usb_enabled \subseteq Supported
  PROVE  MgmtInv'
<1>1. state # None /\ state' # None
  BY DEF MgmtInv, Management!TypeOK, Management!ConstantsOK
<1>2. Management!TypeOK'
  BY <1>1 DEF MgmtInv, Management!TypeOK, Management!Persist
<1> QED
  BY <1>1, <1>2
  DEF MgmtInv, Management!EnabledAreSupported, Management!RecordReadable, MgmtSerials,
      Management!Persist

LEMMA MgmtWrites ==
  ASSUME Management!ConstantsOK, MgmtInv, NEW fields \in Management!Fields,
         Management!cmd_write_config(fields)
  PROVE  MgmtInv'
<1>1. pc = "idle" /\ state \in Management!ManagementState /\ state # None
  BY DEF MgmtInv, Management!TypeOK, Management!cmd_write_config
<1>2. state.usb_enabled \subseteq Supported /\ Supported \subseteq Caps
  BY <1>1 DEF MgmtInv, Management!EnabledAreSupported, Management!ConstantsOK
<1> DEFINE usb == IF fields.usb = Absent THEN state.usb_enabled ELSE fields.usb
           timing == IF fields.timing = Absent THEN state.timing ELSE fields.timing
           lock_code == CASE fields.lock = Absent -> state.lock_code
                          [] fields.lock = Zero -> None
                          [] OTHER -> fields.lock
<1>3. usb \subseteq Supported /\ usb \in SUBSET Caps
  BY <1>2 DEF Management!cmd_write_config, Management!well_formed
<1>4. timing \in Timings
  BY <1>1
  DEF Management!cmd_write_config, Management!well_formed, Management!Fields,
      Management!ManagementState
<1>5. lock_code \in Locks \cup {None}
  BY <1>1
  DEF Management!cmd_write_config, Management!well_formed, Management!Fields,
      Management!ManagementState
<1>6. state' = [state EXCEPT !.usb_enabled = usb, !.timing = timing, !.lock_code = lock_code]
  BY <1>1
  DEF Management!cmd_write_config, Management!Applied, Management!ManagementState
<1> HIDE DEF usb, timing, lock_code
<1>7. /\ state' \in Management!ManagementState /\ state'.serial = state.serial
      /\ state'.usb_enabled \subseteq Supported
  BY <1>1, <1>3, <1>4, <1>5, <1>6 DEF Management!ManagementState
<1> QED
  BY <1>1, <1>7, MgmtConfigures DEF Management!cmd_write_config

LEMMA MgmtSetsMode ==
  ASSUME Management!ConstantsOK, MgmtInv, NEW code \in 0 .. Len(Modes), NEW timing \in Timings,
         Management!cmd_set_mode(code, timing)
  PROVE  MgmtInv'
<1>1. pc = "idle" /\ state \in Management!ManagementState /\ state # None
      /\ UNCHANGED <<disk, shown, lost>>
  BY DEF MgmtInv, Management!TypeOK, Management!cmd_set_mode
<1>2. CASE code + 1 \in DOMAIN Modes
  <2>1. Management!ModeCaps(code) \subseteq Supported /\ Management!ModeCaps(code) \in SUBSET Caps
    BY DEF Management!ModeCaps, Management!ConstantsOK
  <2>2. state' = [state EXCEPT !.usb_enabled = Management!ModeCaps(code), !.timing = timing]
    BY <1>2 DEF Management!cmd_set_mode
  <2>3. /\ state' \in Management!ManagementState /\ state'.serial = state.serial
        /\ state'.usb_enabled \subseteq Supported
    BY <1>1, <2>1, <2>2 DEF Management!ManagementState
  <2> QED  BY <1>1, <1>2, <2>3, MgmtConfigures DEF Management!cmd_set_mode
<1>3. CASE code + 1 \notin DOMAIN Modes
  <2>1. pc' = "halted" /\ UNCHANGED <<state, factory>>
    BY <1>3 DEF Management!cmd_set_mode
  <2>2. Management!TypeOK'
    BY <1>1, <2>1 DEF MgmtInv, Management!TypeOK
  <2> QED
    BY <1>1, <2>1, <2>2
    DEF MgmtInv, Management!EnabledAreSupported, Management!RecordReadable, MgmtSerials
<1> QED
  BY <1>2, <1>3

LEMMA MgmtStep ==
  ASSUME Management!ConstantsOK, MgmtInv, Management!Next
  PROVE  MgmtInv'
<1>1. Management!TypeOK /\ Management!EnabledAreSupported /\ Management!RecordReadable
      /\ MgmtSerials
  BY DEF MgmtInv
<1>2. CASE Management!cmd_read_config
  <2>1. state \in Management!ManagementState /\ state # None
    BY <1>1, <1>2 DEF Management!TypeOK, Management!cmd_read_config
  <2>2. Management!TypeOK'
    BY <1>1, <1>2, <2>1 DEF Management!TypeOK, Management!cmd_read_config, Management!ManagementState
  <2> QED
    BY <1>1, <1>2, <2>1, <2>2
    DEF MgmtInv, Management!EnabledAreSupported, Management!RecordReadable, MgmtSerials,
        Management!cmd_read_config
<1>3. CASE Management!Persisted
  <2>1. state \in Management!ManagementState /\ state # None /\ state.serial # 0
        /\ state.usb_enabled \subseteq Supported
    BY <1>1, <1>3
    DEF Management!TypeOK, Management!Persisted, MgmtSerials, Management!EnabledAreSupported
  <2>2. disk' \in Management!Records /\ disk'.data = state
    BY <1>3, <2>1 DEF Management!Persisted, Management!serialize_state, Management!Records
  <2>3. disk' # None
    BY <2>2 DEF Management!ConstantsOK
  <2>4. Management!RecordReadable'
    BY <2>1, <2>2, MgmtParsed DEF Management!RecordReadable
  <2>5. Management!TypeOK'
    BY <1>1, <1>3, <2>2 DEF Management!TypeOK, Management!Persisted
  <2>6. lost = FALSE /\ shown # None => state.serial = shown
    BY <1>1, <1>3, <2>1 DEF Management!Persisted, MgmtSerials
  <2> QED
    BY <1>1, <1>3, <2>1, <2>2, <2>3, <2>4, <2>5, <2>6
    DEF MgmtInv, Management!EnabledAreSupported, MgmtSerials, Management!Persisted
<1>4. CASE Management!PersistFailed
  <2>1. Management!TypeOK'
    BY <1>1, <1>4 DEF Management!TypeOK, Management!PersistFailed
  <2> QED
    BY <1>1, <1>4, <2>1
    DEF MgmtInv, Management!EnabledAreSupported, Management!RecordReadable, MgmtSerials,
        Management!PersistFailed
<1>5. CASE Management!PowerLoss
  <2>1. Management!TypeOK'
    BY <1>1, <1>5 DEF Management!TypeOK, Management!PowerLoss
  <2> QED
    BY <1>1, <1>5, <2>1
    DEF MgmtInv, Management!EnabledAreSupported, Management!RecordReadable, MgmtSerials,
        Management!PowerLoss
<1> QED
  BY <1>2, <1>3, <1>4, <1>5, MgmtLoads, MgmtWrites, MgmtSetsMode DEF Management!Next

----------------------------------------------------------------------------
(* OATH: what the operations make of the credentials of a state *)

\* The operators of FiniteSets, inside the module of the applet and here.
LEMMA OathFiniteSets ==
  \A S : Oath!IsFiniteSet(S) = IsFiniteSet(S) /\ Oath!Cardinality(S) = Cardinality(S)
<1>1. \A S : Oath!IsFiniteSet(S) = IsFiniteSet(S)
  BY DEF Oath!IsFiniteSet, IsFiniteSet
<1>2. \A S : Oath!Cardinality(S) = Cardinality(S)
  BY DEF Oath!Cardinality, Cardinality
<1> QED
  BY <1>1, <1>2

LEMMA OathSame ==
  ASSUME Oath!ConstantsOK, NEW s, NEW t, t.credentials = s.credentials,
         NEW put, NEW handed, OathGood(s, put, handed)
  PROVE  OathGood(t, put, handed)
<1>1. Oath!Stored(t) = Oath!Stored(s)
  BY DEF Oath!Stored
<1>2. OathReadable(t)
  BY <1>1 DEF OathGood, OathReadable
<1> QED
  BY <1>2 DEF OathGood, OathSecrets, OathCounters

LEMMA OathEmpty ==
  ASSUME Oath!ConstantsOK, NEW put, NEW handed
  PROVE  /\ Oath!factory_state \in Oath!OathState
         /\ Oath!factory_state.access = None /\ Oath!factory_state.pending = None
         /\ OathGood(Oath!factory_state, put, handed)
<1>1. \A n \in Names : Oath!factory_state.credentials[n] = None
  BY DEF Oath!factory_state
<1>2. Oath!Stored(Oath!factory_state) = {}
  BY <1>1 DEF Oath!Stored
<1>3. OathReadable(Oath!factory_state)
  BY <1>2, FS_EmptySet DEF OathReadable, Oath!ConstantsOK
<1>4. OathSecrets(Oath!factory_state, put) /\ OathCounters(Oath!factory_state, handed)
  BY <1>1 DEF OathSecrets, OathCounters
<1> QED
  BY <1>3, <1>4 DEF OathGood, Oath!factory_state, Oath!OathState

LEMMA OathStoredFinite ==
  ASSUME Oath!ConstantsOK, NEW s
  PROVE  IsFiniteSet(Oath!Stored(s)) /\ Cardinality(Oath!Stored(s)) \in Nat
<1>1. Oath!Stored(s) \subseteq Names
  BY DEF Oath!Stored
<1>2. IsFiniteSet(Oath!Stored(s))
  <2>1. IsFiniteSet(Names)
    BY OathFiniteSets DEF Oath!ConstantsOK
  <2> QED  BY <1>1, <2>1, FS_Subset
<1> QED
  BY <1>2, FS_CardinalityType

LEMMA OathAfterPut ==
  ASSUME Oath!ConstantsOK, NEW s \in Oath!OathState, NEW t \in Oath!OathState, NEW name \in Names,
         NEW put \in Nat, NEW counter, NEW handed,
         handed \subseteq (1 .. MaxSecrets) \X Oath!Counters,
         \A c \in handed : c[1] <= put,
         OathGood(s, put, handed),
         NameLen[name] \in 1 .. MaxNameLen,
         s.credentials[name] = None => Cardinality(Oath!Stored(s)) < MaxCredentials,
         [secret |-> put + 1, hotp_counter |-> counter] # None,
         t.credentials = [s.credentials EXCEPT ![name] = [secret |-> put + 1, hotp_counter |-> counter]]
  PROVE  OathGood(t, put + 1, handed)
<1> DEFINE c == [secret |-> put + 1, hotp_counter |-> counter]
<1>1. /\ t.credentials[name] = c /\ c # None /\ c.secret = put + 1
      /\ \A n \in Names \ {name} : t.credentials[n] = s.credentials[n]
  BY DEF Oath!OathState
<1> HIDE DEF c
<1>2. \A n \in Names : s.credentials[n] # None =>
         s.credentials[n].secret \in Nat /\ s.credentials[n].secret <= put
  BY DEF Oath!OathState, Oath!OathCredential, OathGood, OathSecrets
<1>3. OathSecrets(t, put + 1)
  BY <1>1, <1>2 DEF OathGood, OathSecrets
<1>4. OathCounters(t, handed)
  <2>1. OathCodesBelow(handed, c.secret, c.hotp_counter)
    <3>1. \A d \in handed : d[1] \in Nat
      OBVIOUS
    <3> QED  BY <1>1, <3>1 DEF OathCodesBelow
  <2> QED  BY <1>1, <2>1 DEF OathGood, OathCounters
<1>5. OathReadable(t)
  <2>1. CASE s.credentials[name] = None
    <3>1. Oath!Stored(t) = Oath!Stored(s) \cup {name} /\ name \notin Oath!Stored(s)
      BY <1>1, <2>1 DEF Oath!Stored
    <3>2. Cardinality(Oath!Stored(t)) = Cardinality(Oath!Stored(s)) + 1
      BY <3>1, OathStoredFinite, FS_AddElement
    <3>3. Cardinality(Oath!Stored(s)) \in Nat
      BY OathStoredFinite
    <3> QED
      BY <2>1, <3>1, <3>2, <3>3 DEF OathGood, OathReadable, Oath!ConstantsOK
  <2>2. CASE s.credentials[name] # None
    <3>1. Oath!Stored(t) = Oath!Stored(s)
      BY <1>1, <2>2 DEF Oath!Stored
    <3> QED  BY <3>1 DEF OathGood, OathReadable
  <2> QED  BY <2>1, <2>2
<1> QED
  BY <1>3, <1>4, <1>5 DEF OathGood

LEMMA OathAfterDelete ==
  ASSUME Oath!ConstantsOK, NEW s \in Oath!OathState, NEW t, NEW name \in Names,
         NEW put, NEW handed, OathGood(s, put, handed),
         t.credentials = [s.credentials EXCEPT ![name] = None]
  PROVE  OathGood(t, put, handed)
<1>1. /\ t.credentials[name] = None
      /\ \A n \in Names \ {name} : t.credentials[n] = s.credentials[n]
  BY DEF Oath!OathState
<1>2. OathSecrets(t, put)
  BY <1>1 DEF OathGood, OathSecrets
<1>3. OathCounters(t, handed)
  BY <1>1 DEF OathGood, OathCounters
<1>4. Oath!Stored(t) \subseteq Oath!Stored(s)
  BY <1>1 DEF Oath!Stored
<1>5. Cardinality(Oath!Stored(t)) <= Cardinality(Oath!Stored(s))
  BY <1>4, OathStoredFinite, FS_Subset
<1>6. OathReadable(t)
  <2>1. Cardinality(Oath!Stored(t)) \in Nat /\ Cardinality(Oath!Stored(s)) \in Nat
    BY OathStoredFinite
  <2> QED  BY <1>4, <1>5, <2>1 DEF OathGood, OathReadable, Oath!ConstantsOK
<1> QED
  BY <1>2, <1>3, <1>6 DEF OathGood

LEMMA OathAfterRename ==
  ASSUME Oath!ConstantsOK, NEW s \in Oath!OathState, NEW t, NEW current \in Names,
         NEW new_name \in Names, current # new_name,
         NEW put, NEW handed, OathGood(s, put, handed),
         NameLen[new_name] \in 1 .. MaxNameLen,
         s.credentials[current] # None, s.credentials[new_name] = None,
         t.credentials = [s.credentials EXCEPT ![current] = None,
                                               ![new_name] = s.credentials[current]]
  PROVE  OathGood(t, put, handed)
<1>1. /\ t.credentials[current] = None /\ t.credentials[new_name] = s.credentials[current]
      /\ \A n \in Names \ {current, new_name} : t.credentials[n] = s.credentials[n]
  BY DEF Oath!OathState
<1>2. OathSecrets(t, put)
  <2> DEFINE old(n) == IF n = new_name THEN current ELSE n
  <2>1. \A n \in Names : t.credentials[n] # None =>
           /\ old(n) \in Names /\ t.credentials[n] = s.credentials[old(n)]
           /\ \A m \in Names : t.credentials[m] # None /\ old(m) = old(n) => m = n
    BY <1>1
  <2> HIDE DEF old
  <2> QED  BY <2>1 DEF OathGood, OathSecrets
<1>3. OathCounters(t, handed)
  BY <1>1 DEF OathGood, OathCounters
<1>4. Oath!Stored(t) = (Oath!Stored(s) \ {current}) \cup {new_name}
      /\ current \in Oath!Stored(s) /\ new_name \notin Oath!Stored(s) \ {current}
  BY <1>1 DEF Oath!Stored
<1>5. Cardinality(Oath!Stored(t)) = Cardinality(Oath!Stored(s))
  <2>1. IsFiniteSet(Oath!Stored(s) \ {current})
        /\ Cardinality(Oath!Stored(s) \ {current}) = Cardinality(Oath!Stored(s)) - 1
    BY <1>4, OathStoredFinite, FS_RemoveElement
  <2>2. Cardinality(Oath!Stored(t)) = Cardinality(Oath!Stored(s) \ {current}) + 1
    BY <1>4, <2>1, FS_AddElement
  <2>3. Cardinality(Oath!Stored(s)) \in Nat
    BY OathStoredFinite
  <2> QED  BY <2>1, <2>2, <2>3
<1>6. OathReadable(t)
  BY <1>4, <1>5 DEF OathGood, OathReadable
<1> QED
  BY <1>2, <1>3, <1>6 DEF OathGood

\* A new moving factor above the codes of its secret.
LEMMA OathAfterCount ==
  ASSUME Oath!ConstantsOK, NEW s \in Oath!OathState, NEW t, NEW name \in Names,
         NEW counter \in Nat, NEW put, NEW handed, OathGood(s, put, handed),
         s.credentials[name] # None,
         OathCodesBelow(handed, s.credentials[name].secret, counter),
         t.credentials = [s.credentials EXCEPT ![name].hotp_counter = counter],
         t.credentials[name] # None
  PROVE  OathGood(t, put, handed)
<1>1. /\ t.credentials[name].secret = s.credentials[name].secret
      /\ t.credentials[name].hotp_counter = counter
      /\ \A n \in Names \ {name} : t.credentials[n] = s.credentials[n]
  BY DEF Oath!OathState, Oath!OathCredential
<1>2. OathSecrets(t, put)
  BY <1>1 DEF OathGood, OathSecrets
<1>3. OathCounters(t, handed)
  BY <1>1 DEF OathGood, OathCounters
<1>4. Oath!Stored(t) = Oath!Stored(s)
  BY <1>1 DEF Oath!Stored
<1>5. OathReadable(t)
  BY <1>4 DEF OathGood, OathReadable
<1> QED
  BY <1>2, <1>3, <1>5 DEF OathGood

LEMMA OathMore ==
  ASSUME Oath!ConstantsOK, NEW s \in Oath!OathState, NEW put \in Nat, NEW more \in Nat,
         put <= more, NEW handed, OathGood(s, put, handed)
  PROVE  OathGood(s, more, handed)
<1>1. \A n \in Names : s.credentials[n] # None => s.credentials[n].secret \in Nat
  BY DEF Oath!OathState, Oath!OathCredential
<1> QED
  BY <1>1 DEF OathGood, OathSecrets

LEMMA OathReads ==
  ASSUME OathGood(disk, used, codes)
  PROVE  Oath!parse_state(disk) = disk
  BY OathFiniteSets DEF OathGood, OathReadable, Oath!parse_state

----------------------------------------------------------------------------
(* OATH: the steps *)

LEMMA OathInit == Oath!ConstantsOK /\ Oath!Init => OathInv
<1> SUFFICES ASSUME Oath!ConstantsOK, Oath!Init PROVE OathInv
  OBVIOUS
<1> USE DEF Oath!Init
<1>1. req \in Oath!Requests /\ used \in 0 .. MaxSecrets /\ issued \in Oath!Challenges
  BY DEF Oath!NoRequest, Oath!Request, Oath!Requests, Oath!Kinds, Oath!Counters,
         Oath!Challenges, Oath!ConstantsOK
<1>2. Oath!TypeOK
  BY <1>1 DEF Oath!TypeOK
<1> QED
  BY <1>2
  DEF OathInv, Oath!HotpCodeOnce, Oath!ValidatedByHolder, Oath!CodeChangedByHolder,
      OathRecords, OathCalculating, OathOff, OathFresh, OathValidating

LEMMA OathRequests ==
  ASSUME Oath!ConstantsOK, NEW kind \in Oath!Kinds
  PROVE  Oath!Request(kind) \in Oath!Requests /\ Oath!Request(kind).kind = kind
  BY DEF Oath!Request, Oath!Requests, Oath!Counters, Oath!ConstantsOK

LEMMA OathLoads ==
  ASSUME Oath!ConstantsOK, OathInv, Oath!ensure_loaded
  PROVE  OathInv'
<1> USE DEF Oath!ensure_loaded, Oath!PersistAs, Oath!Persist
<1>1. Oath!TypeOK /\ OathRecords /\ OathOff /\ OathFresh
  BY DEF OathInv
<1>2. /\ pc = "off" /\ validated = FALSE /\ selected = FALSE /\ proved = FALSE
      /\ UNCHANGED <<disk, validated, selected, used, issued, macs, proved, intruded, codes, repeats>>
  BY <1>1 DEF OathOff
<1>3. /\ state' \in Oath!OathState /\ OathGood(state', used, codes)
      /\ state'.pending # None => state'.pending <= issued
      /\ pc' \in {"idle", "persist"} /\ req' \in Oath!Requests
      /\ pc' = "persist" => req'.kind = "factory"
  <2>1. CASE disk # None /\ state' = Oath!parse_state(disk) /\ pc' = "idle" /\ UNCHANGED req
    BY <1>1, <2>1, OathReads DEF Oath!TypeOK, OathRecords, OathFresh
  <2>2. CASE state' = Oath!factory_state /\ Oath!PersistAs("factory")
    <3>1. "factory" \in Oath!Kinds
      BY DEF Oath!Kinds
    <3> QED  BY <2>2, <3>1, OathEmpty, OathRequests
  <2> QED  BY <2>1, <2>2
<1>4. state' # None
  BY <1>3 DEF Oath!ConstantsOK
<1>5. Oath!TypeOK'
  BY <1>1, <1>2, <1>3, <1>4 DEF Oath!TypeOK
<1>6. OathRecords'
  BY <1>1, <1>2, <1>3 DEF OathRecords
<1> QED
  BY <1>1, <1>2, <1>3, <1>4, <1>5, <1>6
  DEF OathInv, Oath!HotpCodeOnce, Oath!ValidatedByHolder, Oath!CodeChangedByHolder,
      OathCalculating, OathOff, OathFresh, OathValidating

LEMMA OathSelects ==
  ASSUME Oath!ConstantsOK, OathInv, Oath!select
  PROVE  OathInv'
<1> USE DEF Oath!select, Oath!PersistAs, Oath!Persist
<1>1. Oath!TypeOK /\ OathRecords /\ OathFresh
  BY DEF OathInv
<1>2. pc = "idle" /\ state \in Oath!OathState /\ state # None
      /\ validated' = FALSE /\ proved' = FALSE
      /\ UNCHANGED <<disk, used, macs, intruded, codes, repeats>>
  BY <1>1 DEF Oath!TypeOK
<1>3. CASE state.access # None
  <2>1. /\ issued < MaxChallenges /\ issued' = issued + 1 /\ pc' = "persist"
        /\ state' = [state EXCEPT !.pending = issued + 1] /\ req' = Oath!Request("select")
        /\ UNCHANGED selected
    BY <1>3
  <2>2. issued \in Nat /\ issued' \in Oath!Challenges /\ issued + 1 \in Oath!Challenges
    BY <1>1, <2>1 DEF Oath!TypeOK, Oath!Challenges, Oath!ConstantsOK
  <2>3. /\ state' \in Oath!OathState /\ state'.credentials = state.credentials
        /\ state'.pending = issued + 1
    BY <1>2, <2>1, <2>2 DEF Oath!OathState
  <2>4. state' # None
    BY <2>3 DEF Oath!ConstantsOK
  <2>5. req' \in Oath!Requests /\ req'.kind = "select"
    BY <2>1, OathRequests DEF Oath!Kinds
  <2>6. Oath!TypeOK'
    BY <1>1, <1>2, <2>1, <2>2, <2>3, <2>4, <2>5 DEF Oath!TypeOK
  <2>7. OathRecords'
    BY <1>1, <1>2, <2>3, OathSame DEF OathRecords
  <2>8. OathFresh'
    <3>1. \A mac \in macs : mac[2] \in Nat /\ mac[2] <= issued
      BY <1>1 DEF OathFresh, Oath!TypeOK, Oath!Challenges
    <3>2. disk # None /\ disk.pending # None => disk.pending \in Nat /\ disk.pending <= issued
      BY <1>1 DEF OathFresh, Oath!TypeOK, Oath!Challenges, Oath!OathState
    <3>3. \A x : <<x, issued + 1>> \notin macs
      BY <2>2, <3>1
    <3> QED  BY <1>2, <2>1, <2>2, <2>3, <3>1, <3>2, <3>3 DEF OathFresh
  <2> QED
    BY <1>2, <2>1, <2>5, <2>6, <2>7, <2>8
    DEF OathInv, Oath!HotpCodeOnce, Oath!ValidatedByHolder, Oath!CodeChangedByHolder,
        OathCalculating, OathOff, OathValidating
<1>4. CASE state.access = None
  <2>1. selected' = TRUE /\ UNCHANGED <<state, pc, req, issued>>
    BY <1>4
  <2>2. Oath!TypeOK'
    BY <1>1, <1>2, <2>1 DEF Oath!TypeOK
  <2>3. OathRecords'
    BY <1>1, <1>2, <2>1 DEF OathRecords
  <2> QED
    BY <1>1, <1>2, <1>4, <2>1, <2>2, <2>3
    DEF OathInv, Oath!HotpCodeOnce, Oath!ValidatedByHolder, Oath!CodeChangedByHolder,
        OathCalculating, OathOff, OathFresh, OathValidating
<1> QED
  BY <1>3, <1>4

LEMMA OathLeaves ==
  ASSUME Oath!ConstantsOK, OathInv, Oath!SelectOther
  PROVE  OathInv'
<1> USE DEF Oath!SelectOther, Oath!Idle
<1>1. Oath!TypeOK'
  BY DEF OathInv, Oath!TypeOK
<1>2. OathRecords'
  BY DEF OathInv, OathRecords
<1> QED
  BY <1>1, <1>2
  DEF OathInv, Oath!HotpCodeOnce, Oath!ValidatedByHolder, Oath!CodeChangedByHolder,
      OathCalculating, OathOff, OathFresh, OathValidating

\* Commands on credentials leave the session and the access code alone.
LEMMA OathCommand ==
  ASSUME Oath!ConstantsOK, OathInv, pc = "idle", pc' = "persist",
         UNCHANGED <<disk, validated, selected, issued, macs, proved, intruded, codes, repeats>>,
         state' \in Oath!OathState, state'.access = state.access, state'.pending = state.pending,
         used' \in 0 .. MaxSecrets, used <= used', OathGood(state', used', codes),
         req' \in Oath!Requests, req'.kind \notin {"select", "validate"}, OathCalculating'
  PROVE  OathInv'
<1>1. Oath!TypeOK /\ OathRecords /\ OathFresh
  BY DEF OathInv
<1>2. state # None /\ state' # None /\ used \in Nat /\ used' \in Nat
  BY <1>1 DEF Oath!TypeOK, Oath!ConstantsOK
<1>3. Oath!TypeOK'
  BY <1>1, <1>2 DEF Oath!TypeOK
<1>4. OathRecords'
  <2>1. disk # None => OathGood(disk, used', codes)
    BY <1>1, <1>2, OathMore DEF OathRecords, Oath!TypeOK
  <2>2. \A c \in codes : c[1] <= used'
    <3>1. \A c \in codes : c[1] \in Nat /\ c[1] <= used
      BY <1>1 DEF Oath!TypeOK, OathRecords
    <3> QED  BY <1>2, <3>1
  <2> QED  BY <2>1, <2>2 DEF OathRecords
<1> QED
  BY <1>1, <1>2, <1>3, <1>4
  DEF OathInv, Oath!HotpCodeOnce, Oath!ValidatedByHolder, Oath!CodeChangedByHolder,
      OathOff, OathFresh, OathValidating

LEMMA OathIdle ==
  ASSUME Oath!ConstantsOK, OathInv, pc = "idle"
  PROVE  /\ state \in Oath!OathState /\ state # None /\ OathGood(state, used, codes)
         /\ used \in 0 .. MaxSecrets /\ used \in Nat
         /\ codes \subseteq (1 .. MaxSecrets) \X Oath!Counters
         /\ \A c \in codes : c[1] <= used
  BY DEF OathInv, Oath!TypeOK, OathRecords

LEMMA OathPuts ==
  ASSUME Oath!ConstantsOK, OathInv, NEW name \in Names, NEW counter \in {0, None},
         Oath!cmd_put(name, counter)
  PROVE  OathInv'
<1> USE DEF Oath!cmd_put, Oath!Writes, Oath!PersistAs, Oath!Persist, Oath!Idle
<1> DEFINE c == [secret |-> used + 1, hotp_counter |-> counter]
<1>1. pc = "idle"
  OBVIOUS
<1>2. state' = [state EXCEPT !.credentials[name] = c] /\ used' = used + 1
  OBVIOUS
<1>3. used + 1 \in 1 .. MaxSecrets
  BY <1>1, OathIdle DEF Oath!ConstantsOK
<1>4. c \in Oath!OathCredential
  BY <1>3 DEF Oath!OathCredential, Oath!Counters, Oath!ConstantsOK
<1>5. c # None
  BY <1>4 DEF Oath!ConstantsOK
<1>6. /\ state' \in Oath!OathState /\ state'.access = state.access /\ state'.pending = state.pending
      /\ state'.credentials = [state.credentials EXCEPT ![name] = c]
  <2> HIDE DEF c
  <2> QED  BY <1>1, <1>2, <1>4, OathIdle DEF Oath!OathState
<1>7. OathGood(state', used + 1, codes)
  <2>1. state.credentials[name] = None => Cardinality(Oath!Stored(state)) < MaxCredentials
    BY OathFiniteSets
  <2>2. NameLen[name] \in 1 .. MaxNameLen
    OBVIOUS
  <2> QED  BY <1>1, <1>5, <1>6, <2>1, <2>2, OathIdle, OathAfterPut
<1>8. req' \in Oath!Requests /\ req'.kind = "put"
  BY OathRequests DEF Oath!Kinds
<1>9. OathCalculating'
  BY <1>8 DEF OathCalculating
<1> QED
  BY <1>1, <1>2, <1>3, <1>6, <1>7, <1>8, <1>9, OathIdle, OathCommand

LEMMA OathDeletes ==
  ASSUME Oath!ConstantsOK, OathInv, NEW name \in Names, Oath!cmd_delete(name)
  PROVE  OathInv'
<1> USE DEF Oath!cmd_delete, Oath!Writes, Oath!PersistAs, Oath!Persist, Oath!Idle
<1>1. pc = "idle" /\ used' = used
  OBVIOUS
<1>2. /\ state' \in Oath!OathState /\ state'.access = state.access /\ state'.pending = state.pending
      /\ state'.credentials = [state.credentials EXCEPT ![name] = None]
  BY <1>1, OathIdle DEF Oath!OathState
<1>3. OathGood(state', used, codes)
  BY <1>1, <1>2, OathIdle, OathAfterDelete
<1>4. req' \in Oath!Requests /\ req'.kind = "change"
  BY OathRequests DEF Oath!Kinds
<1>5. OathCalculating'
  BY <1>4 DEF OathCalculating
<1> QED
  BY <1>1, <1>2, <1>3, <1>4, <1>5, OathIdle, OathCommand

LEMMA OathRenames ==
  ASSUME Oath!ConstantsOK, OathInv, NEW current \in Names, NEW new_name \in Names,
         Oath!cmd_rename(current, new_name)
  PROVE  OathInv'
<1> USE DEF Oath!cmd_rename, Oath!Writes, Oath!PersistAs, Oath!Persist, Oath!Idle
<1>1. pc = "idle" /\ used' = used
  OBVIOUS
<1>2. /\ state' \in Oath!OathState /\ state'.access = state.access /\ state'.pending = state.pending
      /\ state'.credentials = [state.credentials EXCEPT ![current] = None,
                                                        ![new_name] = state.credentials[current]]
  BY <1>1, OathIdle DEF Oath!OathState, Oath!Moved
<1>3. OathGood(state', used, codes)
  BY <1>1, <1>2, OathIdle, OathAfterRename
<1>4. req' \in Oath!Requests /\ req'.kind = "change"
  BY OathRequests DEF Oath!Kinds
<1>5. OathCalculating'
  BY <1>4 DEF OathCalculating
<1> QED
  BY <1>1, <1>2, <1>3, <1>4, <1>5, OathIdle, OathCommand

\* CALCULATE moves the factor above the codes handed out, and remembers the old one.
LEMMA OathCalculates ==
  ASSUME Oath!ConstantsOK, OathInv, NEW name \in Names, NEW factor \in Oath!Counters \cup {None},
         Oath!cmd_calculate(name, factor)
  PROVE  OathInv'
<1> USE DEF Oath!cmd_calculate, Oath!Persist, Oath!Idle
<1> DEFINE c == state.credentials[name]
           moving == IF factor = None THEN c.hotp_counter ELSE factor
           next == Oath!saturating_add(moving)
<1>1. pc = "idle" /\ UNCHANGED used
  OBVIOUS
<1>2. c \in Oath!OathCredential /\ c # None /\ c.hotp_counter # None
      /\ c.hotp_counter \in Oath!Counters /\ c.secret \in 1 .. MaxSecrets
  BY <1>1, OathIdle DEF Oath!OathState, Oath!OathCredential
<1>3. moving \in Oath!Counters /\ moving >= c.hotp_counter
  BY <1>2 DEF Oath!Counters, Oath!ConstantsOK
<1>4. next \in Oath!Counters /\ next >= moving /\ next \in Nat
  BY <1>3 DEF Oath!Counters, Oath!saturating_add, Oath!ConstantsOK
<1>5. /\ state' = [state EXCEPT !.credentials[name].hotp_counter = next]
      /\ req' = [kind |-> "calculate", name |-> name, moving |-> moving,
                 previous |-> c.hotp_counter]
      /\ pc' = "persist"
  OBVIOUS
<1>6. OathCodesBelow(codes, c.secret, c.hotp_counter)
  BY <1>1, <1>2, OathIdle DEF OathGood, OathCounters
<1>7. req' \in Oath!Requests
  BY <1>2, <1>3, <1>5 DEF Oath!Requests, Oath!Kinds
<1> HIDE DEF moving, next
<1>8. /\ state' \in Oath!OathState /\ state'.access = state.access /\ state'.pending = state.pending
      /\ state'.credentials = [state.credentials EXCEPT ![name].hotp_counter = next]
      /\ state'.credentials[name] = [c EXCEPT !.hotp_counter = next]
      /\ [c EXCEPT !.hotp_counter = next] \in Oath!OathCredential
  <2>1. [c EXCEPT !.hotp_counter = next] \in Oath!OathCredential
    BY <1>2, <1>4 DEF Oath!OathCredential
  <2>2. state' = [state EXCEPT !.credentials = [state.credentials EXCEPT
                                                   ![name] = [c EXCEPT !.hotp_counter = next]]]
    BY <1>5
  <2> QED  BY <1>1, <2>1, <2>2, OathIdle DEF Oath!OathState
<1>9. state'.credentials[name] # None /\ state'.credentials[name].hotp_counter = next
      /\ state'.credentials[name].secret = c.secret
  BY <1>2, <1>8 DEF Oath!ConstantsOK, Oath!OathCredential
<1>10. OathCodesBelow(codes, c.secret, next)
  <2>1. \A d \in codes : d[2] \in Nat
    BY <1>1, OathIdle DEF Oath!Counters
  <2>2. c.hotp_counter \in Nat /\ c.hotp_counter <= next
    BY <1>2, <1>3, <1>4 DEF Oath!Counters
  <2> QED  BY <1>4, <1>6, <2>1, <2>2 DEF OathCodesBelow
<1>11. OathGood(state', used, codes)
  <2>1. state \in Oath!OathState /\ OathGood(state, used, codes)
    BY <1>1, OathIdle
  <2> HIDE DEF Oath!cmd_calculate
  <2> QED  BY <1>2, <1>4, <1>8, <1>9, <1>10, <2>1, OathAfterCount
<1>12. OathCalculating'
  BY <1>3, <1>5, <1>6, <1>9 DEF OathCalculating, next
<1> QED
  BY <1>1, <1>5, <1>7, <1>8, <1>11, <1>12, OathIdle, OathCommand

\* An answer to the pending challenge that nobody has seen comes from a holder.
LEMMA OathValidates ==
  ASSUME Oath!ConstantsOK, OathInv, NEW mac, NEW challenge \in 0 .. issued,
         Oath!cmd_validate(mac, challenge)
  PROVE  OathInv'
<1> USE DEF Oath!cmd_validate, Oath!PersistAs, Oath!Persist, Oath!Idle
<1>1. Oath!TypeOK /\ OathRecords /\ OathFresh /\ Oath!ValidatedByHolder
  BY DEF OathInv
<1>2. /\ pc = "idle" /\ pc' = "persist" /\ selected = TRUE
      /\ state.access # None /\ state.pending # None /\ mac = <<state.access, state.pending>>
      /\ macs' = macs \cup {mac, <<state.access, challenge>>}
      /\ UNCHANGED <<disk, validated, selected, used, issued, intruded, codes, repeats>>
  BY <1>1 DEF Oath!TypeOK
<1>3. /\ state \in Oath!OathState /\ state # None /\ OathGood(state, used, codes)
      /\ issued \in Oath!Challenges /\ challenge \in Oath!Challenges
      /\ issued \in Nat /\ challenge \in Nat /\ challenge <= issued
      /\ state.access \in AccessKeys /\ state.pending \in Oath!Challenges
      /\ state.pending \in Nat /\ state.pending <= issued
  <2>1. state \in Oath!OathState /\ state # None /\ OathGood(state, used, codes)
    BY <1>2, OathIdle
  <2>2. issued \in Oath!Challenges /\ state.pending <= issued
    BY <1>1, <1>2, <2>1 DEF Oath!TypeOK, OathFresh
  <2> QED  BY <1>2, <2>1, <2>2 DEF Oath!Challenges, Oath!ConstantsOK, Oath!OathState
<1>4. proved' = TRUE
  <2>1. proved \in BOOLEAN
    BY <1>1 DEF Oath!TypeOK
  <2>2. proved = FALSE => mac \notin macs
    BY <1>1, <1>2, <1>3 DEF OathFresh
  <2>3. proved' = (proved \/ mac \notin macs)
    OBVIOUS
  <2> QED  BY <2>1, <2>2, <2>3
<1>5. /\ state' = [state EXCEPT !.pending = challenge]
      /\ state' \in Oath!OathState /\ state'.credentials = state.credentials
      /\ state'.pending = challenge
  BY <1>3 DEF Oath!OathState
<1>6. state' # None /\ OathGood(state', used, codes)
  BY <1>3, <1>5, OathSame DEF Oath!ConstantsOK
<1>7. req' \in Oath!Requests /\ req'.kind = "validate"
  BY OathRequests DEF Oath!Kinds
<1>8. macs' \subseteq AccessKeys \X Oath!Challenges
  BY <1>1, <1>2, <1>3 DEF Oath!TypeOK
<1>9. Oath!TypeOK'
  BY <1>1, <1>2, <1>3, <1>4, <1>5, <1>6, <1>7, <1>8 DEF Oath!TypeOK
<1>10. OathRecords'
  BY <1>1, <1>2, <1>6 DEF OathRecords
<1>11. OathFresh'
  <2>1. \A m \in macs' : m[2] <= issued
    BY <1>1, <1>2, <1>3 DEF OathFresh
  <2> QED  BY <1>1, <1>2, <1>3, <1>4, <1>5, <2>1 DEF OathFresh
<1> QED
  BY <1>2, <1>4, <1>7, <1>9, <1>10, <1>11
  DEF OathInv, Oath!HotpCodeOnce, Oath!ValidatedByHolder, Oath!CodeChangedByHolder,
      OathCalculating, OathOff, OathValidating

\* SET CODE in a session that its holder opened, or with no code to prove.
LEMMA OathSetsCode ==
  ASSUME Oath!ConstantsOK, OathInv, NEW key \in AccessKeys \cup {None},
         NEW challenge \in 0 .. issued, Oath!cmd_set_code(key, challenge)
  PROVE  OathInv'
<1> USE DEF Oath!cmd_set_code, Oath!PersistAs, Oath!Persist, Oath!Idle, Oath!require_validated
<1>1. /\ Oath!TypeOK /\ OathRecords /\ OathFresh /\ Oath!ValidatedByHolder
      /\ Oath!CodeChangedByHolder
  BY DEF OathInv
<1>2. /\ pc = "idle" /\ pc' = "persist" /\ (state.access # None => validated)
      /\ UNCHANGED <<disk, selected, used, proved, codes, repeats>>
  OBVIOUS
<1>3. /\ state \in Oath!OathState /\ state # None /\ OathGood(state, used, codes)
      /\ issued \in Oath!Challenges /\ issued \in Nat /\ challenge \in Oath!Challenges
      /\ challenge \in Nat /\ challenge <= issued
  <2>1. state \in Oath!OathState /\ state # None /\ OathGood(state, used, codes)
    BY <1>2, OathIdle
  <2>2. issued \in Oath!Challenges
    BY <1>1 DEF Oath!TypeOK
  <2> QED  BY <2>1, <2>2 DEF Oath!Challenges, Oath!ConstantsOK
<1>4. intruded' = FALSE
  <2>1. validated => proved
    BY <1>1 DEF Oath!ValidatedByHolder
  <2>2. intruded = FALSE
    BY <1>1 DEF Oath!CodeChangedByHolder, Oath!TypeOK
  <2>3. intruded' = (intruded \/ (state.access # None /\ ~proved))
    OBVIOUS
  <2> QED  BY <1>2, <2>1, <2>2, <2>3
<1>5. req' \in Oath!Requests /\ req'.kind = "set_code"
  BY OathRequests DEF Oath!Kinds
<1>6. \A mac \in macs : mac[2] \in Nat /\ mac[2] <= issued
  BY <1>1 DEF OathFresh, Oath!TypeOK, Oath!Challenges
<1>7. CASE key = None
  <2>1. /\ state' = [state EXCEPT !.access = None, !.pending = None]
        /\ validated' = FALSE /\ UNCHANGED <<issued, macs>>
    BY <1>7
  <2>2. /\ state' \in Oath!OathState /\ state'.credentials = state.credentials
        /\ state'.access = None /\ state'.pending = None
    BY <1>3, <2>1 DEF Oath!OathState
  <2>3. state' # None /\ OathGood(state', used, codes)
    BY <1>3, <2>2, OathSame DEF Oath!ConstantsOK
  <2>4. Oath!TypeOK'
    BY <1>1, <1>2, <1>4, <1>5, <2>1, <2>2, <2>3 DEF Oath!TypeOK
  <2>5. OathRecords'
    BY <1>1, <1>2, <2>3 DEF OathRecords
  <2>6. OathFresh'
    BY <1>1, <1>2, <2>1, <2>2 DEF OathFresh
  <2> QED
    BY <1>2, <1>4, <1>5, <2>1, <2>4, <2>5, <2>6
    DEF OathInv, Oath!HotpCodeOnce, Oath!ValidatedByHolder, Oath!CodeChangedByHolder,
        OathCalculating, OathOff, OathValidating
<1>8. CASE key # None
  <2>1. /\ issued < MaxChallenges /\ issued' = issued + 1
        /\ state' = [state EXCEPT !.access = key, !.pending = issued + 1]
        /\ macs' = macs \cup {<<key, challenge>>} /\ UNCHANGED validated
    BY <1>8
  <2>2. issued + 1 \in Oath!Challenges /\ key \in AccessKeys
    BY <1>3, <1>8, <2>1 DEF Oath!Challenges, Oath!ConstantsOK
  <2>3. /\ state' \in Oath!OathState /\ state'.credentials = state.credentials
        /\ state'.access = key /\ state'.pending = issued + 1
    BY <1>3, <2>1, <2>2 DEF Oath!OathState
  <2>4. state' # None /\ OathGood(state', used, codes)
    BY <1>3, <2>3, OathSame DEF Oath!ConstantsOK
  <2>5. macs' \subseteq AccessKeys \X Oath!Challenges
    BY <1>1, <1>3, <2>1, <2>2 DEF Oath!TypeOK
  <2>6. Oath!TypeOK'
    BY <1>1, <1>2, <1>4, <1>5, <2>1, <2>2, <2>3, <2>4, <2>5 DEF Oath!TypeOK
  <2>7. OathRecords'
    BY <1>1, <1>2, <2>4 DEF OathRecords
  <2>8. OathFresh'
    <3>1. \A mac \in macs' : mac[2] \in Nat /\ mac[2] <= issued
      BY <1>3, <1>6, <2>1
    <3>2. <<key, issued + 1>> \notin macs'
      BY <1>3, <3>1
    <3>3. disk # None /\ disk.pending # None => disk.pending \in Nat /\ disk.pending <= issued
      BY <1>1 DEF OathFresh, Oath!TypeOK, Oath!Challenges, Oath!OathState
    <3> QED  BY <1>2, <1>3, <2>1, <2>3, <3>1, <3>2, <3>3 DEF OathFresh
  <2> QED
    BY <1>1, <1>2, <1>4, <1>5, <2>1, <2>6, <2>7, <2>8
    DEF OathInv, Oath!HotpCodeOnce, Oath!ValidatedByHolder, Oath!CodeChangedByHolder,
        OathCalculating, OathOff, OathValidating
<1> QED
  BY <1>7, <1>8

LEMMA OathResets ==
  ASSUME Oath!ConstantsOK, OathInv, Oath!cmd_reset
  PROVE  OathInv'
<1> USE DEF Oath!cmd_reset, Oath!PersistAs, Oath!Persist, Oath!Idle
<1>1. Oath!TypeOK /\ OathRecords /\ OathFresh
  BY DEF OathInv
<1>2. /\ state' \in Oath!OathState /\ state'.access = None /\ state'.pending = None
      /\ OathGood(state', used, codes)
  BY OathEmpty
<1>3. state' # None
  BY <1>2 DEF Oath!ConstantsOK
<1>4. req' \in Oath!Requests /\ req'.kind = "reset"
  BY OathRequests DEF Oath!Kinds
<1>5. Oath!TypeOK'
  BY <1>1, <1>2, <1>3, <1>4 DEF Oath!TypeOK
<1>6. OathRecords'
  BY <1>1, <1>2 DEF OathRecords
<1> QED
  BY <1>1, <1>2, <1>4, <1>5, <1>6
  DEF OathInv, Oath!HotpCodeOnce, Oath!ValidatedByHolder, Oath!CodeChangedByHolder,
      OathCalculating, OathOff, OathFresh, OathValidating

\* The code handed out is above those before it, and below the factor just written.
LEMMA OathPersists ==
  ASSUME Oath!ConstantsOK, OathInv, Oath!Persisted
  PROVE  OathInv'
<1> USE DEF Oath!Persisted
<1>1. /\ Oath!TypeOK /\ OathRecords /\ OathFresh /\ Oath!ValidatedByHolder /\ OathValidating
      /\ Oath!HotpCodeOnce
  BY DEF OathInv
<1>2. /\ pc = "persist" /\ pc' = "idle" /\ state \in Oath!OathState /\ state # None
      /\ OathGood(state, used, codes) /\ used \in Nat
      /\ UNCHANGED <<state, used, issued, macs, proved, intruded>>
  BY <1>1 DEF Oath!TypeOK, OathRecords
<1>3. /\ disk' \in Oath!OathState /\ disk'.credentials = state.credentials
      /\ disk'.pending \in {None, state.pending}
  BY <1>2 DEF Oath!serialize_state, Oath!OathState
<1>4. disk' # None
  BY <1>3 DEF Oath!ConstantsOK
<1>5. req' \in Oath!Requests
  BY OathRequests DEF Oath!NoRequest, Oath!Kinds
<1>6. selected' \in BOOLEAN /\ validated' \in BOOLEAN
      /\ (selected' => selected \/ req.kind = "select")
      /\ (validated' => validated \/ req.kind = "validate")
  BY Zenon
<1>7. /\ codes' \subseteq (1 .. MaxSecrets) \X Oath!Counters /\ repeats' \subseteq codes'
      /\ \A c \in repeats' : c[2] = MaxCounter
      /\ \A c \in codes' : c[1] <= used
      /\ OathGood(state, used, codes')
  <2>1. CASE req.kind # "calculate"
    BY <1>1, <1>2, <2>1 DEF Oath!TypeOK, Oath!HotpCodeOnce, OathRecords
  <2>2. CASE req.kind = "calculate"
    <3> DEFINE c == state.credentials[req.name]
               code == <<c.secret, req.moving>>
    <3>1. /\ req.name \in Names /\ c # None
          /\ c.hotp_counter = Oath!saturating_add(req.moving)
          /\ req.moving >= req.previous
          /\ OathCodesBelow(codes, c.secret, req.previous)
      BY <1>2, <2>2 DEF OathInv, OathCalculating
    <3>2. codes' = codes \cup {code} /\ repeats' = repeats \cup ({code} \cap codes)
      BY <2>2 DEF Oath!HandOut
    <3>3. c.secret \in 1 .. MaxSecrets /\ c.secret <= used
      BY <1>2, <3>1 DEF Oath!OathState, Oath!OathCredential, OathGood, OathSecrets
    <3>4. req.moving \in Oath!Counters /\ req.previous \in Oath!Counters
          /\ req.moving \in Nat /\ req.previous \in Nat
      BY <1>1 DEF Oath!TypeOK, Oath!Requests, Oath!Counters
    <3>5. code \in (1 .. MaxSecrets) \X Oath!Counters
      BY <3>3, <3>4
    <3>6. code \in codes => code[2] = MaxCounter
      BY <3>1, <3>4 DEF OathCodesBelow
    <3>7. OathCounters(state, codes')
      <4> SUFFICES ASSUME NEW n \in Names, state.credentials[n] # None,
                          state.credentials[n].hotp_counter # None
                   PROVE  OathCodesBelow(codes', state.credentials[n].secret,
                                         state.credentials[n].hotp_counter)
        BY DEF OathCounters
      <4>1. OathCodesBelow(codes, state.credentials[n].secret, state.credentials[n].hotp_counter)
        BY <1>2 DEF OathGood, OathCounters
      <4>2. CASE n = req.name
        <5>1. req.moving < c.hotp_counter \/ req.moving = MaxCounter
          BY <3>1, <3>4 DEF Oath!saturating_add, Oath!Counters
        <5> QED  BY <3>2, <4>1, <4>2, <5>1 DEF OathCodesBelow
      <4>3. CASE n # req.name
        <5>1. state.credentials[n].secret # c.secret
          BY <1>2, <3>1, <4>3 DEF OathGood, OathSecrets
        <5> QED  BY <3>2, <4>1, <5>1 DEF OathCodesBelow
      <4> QED  BY <4>2, <4>3
    <3>8. OathGood(state, used, codes')
      BY <1>2, <3>7 DEF OathGood
    <3>9. \A d \in codes' : d[1] <= used
      BY <1>1, <3>2, <3>3 DEF OathRecords
    <3> HIDE DEF code
    <3> QED  BY <1>1, <3>2, <3>5, <3>6, <3>8, <3>9 DEF Oath!TypeOK, Oath!HotpCodeOnce
  <2> QED  BY <2>1, <2>2
<1>8. OathGood(disk', used, codes')
  BY <1>3, <1>7, OathSame
<1>9. Oath!TypeOK'
  BY <1>1, <1>2, <1>3, <1>5, <1>6, <1>7 DEF Oath!TypeOK
<1>10. OathRecords'
  BY <1>2, <1>7, <1>8 DEF OathRecords
<1>11. OathFresh'
  BY <1>1, <1>2, <1>3, <1>6 DEF OathFresh
<1>12. Oath!ValidatedByHolder'
  BY <1>1, <1>2, <1>6 DEF Oath!ValidatedByHolder, OathValidating
<1> QED
  BY <1>2, <1>7, <1>9, <1>10, <1>11, <1>12
  DEF OathInv, Oath!HotpCodeOnce, Oath!CodeChangedByHolder, OathCalculating, OathOff,
      OathValidating

\* CALCULATE goes back to the factor before, which is still above the codes.
LEMMA OathWriteFails ==
  ASSUME Oath!ConstantsOK, OathInv, Oath!PersistFailed
  PROVE  OathInv'
<1> USE DEF Oath!PersistFailed
<1>1. Oath!TypeOK /\ OathRecords /\ OathFresh
  BY DEF OathInv
<1>2. /\ pc = "persist" /\ pc' = "idle" /\ state \in Oath!OathState /\ state # None
      /\ OathGood(state, used, codes)
      /\ UNCHANGED <<disk, validated, selected, used, issued, macs, proved, intruded, codes, repeats>>
  BY <1>1 DEF Oath!TypeOK, OathRecords
<1>3. req' \in Oath!Requests
  BY OathRequests DEF Oath!NoRequest, Oath!Kinds
<1>4. /\ state' \in Oath!OathState /\ state'.access = state.access
      /\ state'.pending = state.pending /\ OathGood(state', used, codes)
  <2>1. CASE req.kind # "calculate"
    BY <1>2, <2>1
  <2>2. CASE req.kind = "calculate"
    <3> DEFINE c == state.credentials[req.name]
               d == [c EXCEPT !.hotp_counter = req.previous]
    <3>1. /\ req.name \in Names /\ c # None
          /\ OathCodesBelow(codes, c.secret, req.previous)
      BY <1>2, <2>2 DEF OathInv, OathCalculating
    <3>2. req.previous \in Oath!Counters /\ req.previous \in Nat
      BY <1>1 DEF Oath!TypeOK, Oath!Requests, Oath!Counters
    <3>3. state' = [state EXCEPT !.credentials = [state.credentials EXCEPT ![req.name] = d]]
      BY <2>2
    <3>4. c \in Oath!OathCredential
      BY <1>2, <3>1 DEF Oath!OathState
    <3>5. d \in Oath!OathCredential
      BY <3>2, <3>4 DEF Oath!OathCredential
    <3>6. d # None
      BY <3>5 DEF Oath!ConstantsOK
    <3>7. state'.credentials = [state.credentials EXCEPT ![req.name].hotp_counter = req.previous]
      BY <1>2, <3>3 DEF Oath!OathState
    <3> HIDE DEF d
    <3>8. /\ state' \in Oath!OathState /\ state'.access = state.access
          /\ state'.pending = state.pending /\ state'.credentials[req.name] = d
      BY <1>2, <3>1, <3>3, <3>5 DEF Oath!OathState
    <3>9. OathGood(state', used, codes)
      BY <1>2, <3>1, <3>2, <3>6, <3>7, <3>8, OathAfterCount
    <3> QED  BY <3>8, <3>9
  <2> QED  BY <2>1, <2>2
<1>5. state' # None
  BY <1>4 DEF Oath!ConstantsOK
<1>6. Oath!TypeOK'
  BY <1>1, <1>2, <1>3, <1>4, <1>5 DEF Oath!TypeOK
<1>7. OathRecords'
  BY <1>1, <1>2, <1>4 DEF OathRecords
<1> QED
  BY <1>1, <1>2, <1>4, <1>5, <1>6, <1>7
  DEF OathInv, Oath!HotpCodeOnce, Oath!ValidatedByHolder, Oath!CodeChangedByHolder,
      OathCalculating, OathOff, OathFresh, OathValidating

LEMMA OathStep ==
  ASSUME Oath!ConstantsOK, OathInv, Oath!Next
  PROVE  OathInv'
<1>1. CASE Oath!PowerLoss
  <2> USE <1>1 DEF Oath!PowerLoss
  <2>1. req' \in Oath!Requests
    BY OathRequests DEF Oath!NoRequest, Oath!Kinds
  <2>2. Oath!TypeOK'
    BY <2>1 DEF OathInv, Oath!TypeOK
  <2>3. OathRecords'
    BY DEF OathInv, OathRecords
  <2> QED
    BY <2>2, <2>3
    DEF OathInv, Oath!HotpCodeOnce, Oath!ValidatedByHolder, Oath!CodeChangedByHolder,
        OathCalculating, OathOff, OathFresh, OathValidating
<1>2. ASSUME NEW name \in Names,
             \/ \E counter \in {0, None} : Oath!cmd_put(name, counter)
             \/ Oath!cmd_delete(name)
             \/ \E new_name \in Names : Oath!cmd_rename(name, new_name)
             \/ \E factor \in Oath!Counters \cup {None} : Oath!cmd_calculate(name, factor)
      PROVE  OathInv'
  BY <1>2, OathPuts, OathDeletes, OathRenames, OathCalculates
<1>3. ASSUME NEW mac \in AccessKeys \X Oath!Challenges, NEW challenge \in 0 .. issued,
             Oath!cmd_validate(mac, challenge)
      PROVE  OathInv'
  BY <1>3, OathValidates
<1>4. ASSUME NEW key \in AccessKeys \cup {None}, NEW challenge \in 0 .. issued,
             Oath!cmd_set_code(key, challenge)
      PROVE  OathInv'
  BY <1>4, OathSetsCode
<1> QED
  BY <1>1, <1>2, <1>3, <1>4, OathLoads, OathSelects, OathLeaves, OathResets, OathPersists,
     OathWriteFails
  DEF Oath!Next

----------------------------------------------------------------------------
(* The applets together *)

LEMMA AppletsStutter ==
  ASSUME AppletsInv, UNCHANGED vars
  PROVE  AppletsInv'
<1> USE DEF vars, pivVars, pgpVars, oathVars, mgmtVars, AppletsInv
<1>1. CASE applet = "piv"
  BY <1>1
  DEF PivInv, Piv!TypeOK, Piv!AttemptsTaken, Piv!BlockedEndsSession, Piv!AnsweredIsStored,
      Piv!CertificateFollowsKey, PivOff, PivOpening, PivRamStored, PivReplyDue, PivDiskKept
<1>2. CASE applet = "openpgp"
  BY <1>2
  DEF PgpInv, OpenPgp!TypeOK, OpenPgp!PasswordAttempts, OpenPgp!SessionNeedsPw1,
      OpenPgp!SignerIsStored, PgpOff, PgpOpening, PgpRamStored, PgpReplyDue, PgpDiskKept
<1>3. CASE applet = "oath"
  BY <1>3
  DEF OathInv, Oath!TypeOK, Oath!HotpCodeOnce, Oath!ValidatedByHolder, Oath!CodeChangedByHolder,
      OathRecords, OathCalculating, OathOff, OathFresh, OathValidating
<1>4. CASE applet = "management"
  BY <1>4
  DEF MgmtInv, Management!TypeOK, Management!EnabledAreSupported, Management!RecordReadable,
      MgmtSerials
<1> QED
  BY <1>1, <1>2, <1>3, <1>4

\* A step of the card is a step of the applet that runs.
LEMMA AppletsInductive ==
  /\ Init => AppletsInv
  /\ AppletsInv /\ [Next]_vars => AppletsInv'
<1> USE Constants DEF Constants
<1>1. Init => AppletsInv
  BY PivInit, PgpInit, OathInit, MgmtInit DEF Init, AppletsInv
<1>2. ASSUME AppletsInv, [Next]_vars PROVE AppletsInv'
  <2>1. CASE applet = "piv" /\ Piv!Next /\ UNCHANGED applet
    BY <1>2, <2>1, PivStep DEF AppletsInv
  <2>2. CASE applet = "openpgp" /\ OpenPgp!Next /\ UNCHANGED applet
    BY <1>2, <2>2, PgpStep DEF AppletsInv
  <2>3. CASE applet = "oath" /\ Oath!Next /\ UNCHANGED applet
    BY <1>2, <2>3, OathStep DEF AppletsInv
  <2>4. CASE applet = "management" /\ Management!Next /\ UNCHANGED applet
    BY <1>2, <2>4, MgmtStep DEF AppletsInv
  <2> QED  BY <1>2, <2>1, <2>2, <2>3, <2>4, AppletsStutter DEF Next
<1> QED
  BY <1>1, <1>2

\* PIV: over any sequence of commands, failed writes and losses of power, failed
\* comparisons are paid for with attempts, a blocked PIN has no session, what a host was
\* shown is in the record, and a certificate stands only beside its key.
THEOREM PivCorrect == Spec => []PivSafe
<1>1. AppletsInv => PivSafe
  BY DEF AppletsInv, PivSafe, PivInv
<1> QED
  BY <1>1, AppletsInductive, PTL DEF Spec

\* OpenPGP: each password pays for its own failed comparisons, a signature session needs
\* PW1 itself, and the key a host was shown is in the record.
THEOREM OpenPgpCorrect == Spec => []OpenPgpSafe
<1>1. AppletsInv => OpenPgpSafe
  BY DEF AppletsInv, OpenPgpSafe, PgpInv
<1> QED
  BY <1>1, AppletsInductive, PTL DEF Spec

\* OATH: no HOTP code below the largest factor is handed out twice, only a holder of the
\* access code opens a session or changes the code, and every record written is readable.
THEOREM OathCorrect == Spec => []OathSafe
<1>1. OathInv => Oath!RecordReadable
  BY OathReads DEF OathInv, OathRecords, Oath!RecordReadable
<1>2. AppletsInv => OathSafe
  BY <1>1 DEF AppletsInv, OathSafe, OathInv
<1> QED
  BY <1>2, AppletsInductive, PTL DEF Spec

\* PIV and OpenPGP: only persist_state replaces the record, and what it then lacks is what
\* a GENERATE took, now or in a failed write before, or the factory state replaced.
THEOREM KeysKept == Spec => KeyLostOnlyToGenerate
<1> DEFINE Kept == /\ applet = "piv" => Piv!KeyLoss
                   /\ applet = "openpgp" => OpenPgp!SignerLoss
<1>1. AppletsInv /\ [Next]_vars => [Kept]_vars
  <2> SUFFICES ASSUME AppletsInv, Next PROVE Kept
    OBVIOUS
  <2>1. CASE applet = "piv" /\ Piv!Next
    <3>1. CASE Piv!Persisted
      BY <2>1, <3>1 DEF AppletsInv, PivInv, PivDiskKept, Piv!KeyLoss, Piv!Persisted
    <3>2. CASE ~Piv!Persisted
      <4>1. UNCHANGED disk
        BY <2>1, <3>2
        DEF Piv!Next, Piv!ensure_loaded, Piv!cmd_verify, Piv!cmd_change_reference_data,
            Piv!cmd_generate, Piv!cmd_put_data, Piv!cmd_get_data, Piv!cmd_authenticate,
            Piv!PersistFailed, Piv!PowerLoss
      <4> QED  BY <4>1, <2>1 DEF Piv!KeyLoss
    <3> QED  BY <3>1, <3>2
  <2>2. CASE applet = "openpgp" /\ OpenPgp!Next
    <3>1. CASE OpenPgp!Persisted
      BY <2>2, <3>1
      DEF AppletsInv, PgpInv, PgpDiskKept, OpenPgp!SignerLoss, OpenPgp!Persisted,
          OpenPgp!serialize_state
    <3>2. CASE ~OpenPgp!Persisted
      <4>1. UNCHANGED disk
        BY <2>2, <3>2
        DEF OpenPgp!Next, OpenPgp!ensure_loaded, OpenPgp!cmd_verify, OpenPgp!verify_status,
            OpenPgp!cmd_generate, OpenPgp!cmd_pso, OpenPgp!cmd_get_data,
            OpenPgp!PersistFailed, OpenPgp!PowerLoss
      <4> QED  BY <4>1, <2>2 DEF OpenPgp!SignerLoss
    <3> QED  BY <3>1, <3>2
  <2>3. CASE applet \in {"oath", "management"}
    BY <2>3
  <2> QED  BY <2>1, <2>2, <2>3 DEF Next
<1> QED
  BY <1>1, AppletsInductive, PTL DEF Spec, KeyLostOnlyToGenerate

\* Management: the serial a host was told changes only with a lost record, only supported
\* capabilities are enabled, and every record written is readable.
THEOREM ManagementCorrect == Spec => ManagementSafe
<1> DEFINE Good == applet = "management" => /\ Management!TypeOK /\ Management!RecordReadable
                                            /\ Management!EnabledAreSupported
           Stable == applet = "management" => Management!SerialChange
<1>1. AppletsInv => Good
  BY DEF AppletsInv, MgmtInv
<1>2. AppletsInv /\ [Next]_vars => [Stable]_vars
  <2> SUFFICES ASSUME AppletsInv, Next, applet = "management" PROVE Management!SerialChange
    OBVIOUS
  <2>1. Management!Next /\ MgmtInv
    BY DEF Next, AppletsInv
  <2>2. CASE Management!cmd_read_config
    BY <2>1, <2>2
    DEF MgmtInv, MgmtSerials, Management!TypeOK, Management!SerialChange, Management!cmd_read_config
  <2>3. CASE ~Management!cmd_read_config
    <3>1. UNCHANGED shown
      BY <2>1, <2>3
      DEF Management!Next, Management!ensure_loaded, Management!cmd_write_config,
          Management!cmd_set_mode, Management!Persisted, Management!PersistFailed,
          Management!PowerLoss
    <3> QED  BY <3>1 DEF Management!SerialChange
  <2> QED  BY <2>2, <2>3
<1> QED
  BY <1>1, <1>2, AppletsInductive, PTL DEF Spec, ManagementSafe
=============================================================================
