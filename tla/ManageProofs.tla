---------------------------- MODULE ManageProofs ----------------------------
(***************************************************************************)
(* Proofs of the properties of the registrations run, for any relying      *)
(* parties, algorithms, names and numbers of credentials: registrations    *)
(* under alwaysUv and enterprise attestation, and credential management    *)
(* with its three cursors.                                                 *)
(***************************************************************************)
EXTENDS MCManage, FiniteSetTheorems, SequenceTheorems, WellFoundedInduction, TLAPS

----------------------------------------------------------------------------
(* Registrations *)

RegTypes ==
    /\ Registration!TypeOK
    /\ given \in Nat /\ faulty \in BOOLEAN /\ torn \in BOOLEAN

\* Ids are drawn in order, so a new one meets no stored credential.
RegDrawn == \A c \in DOMAIN creds : c <= drawn

\* RAM is never ahead of the backend but while a Reset deletes; a Reset has still to
\* delete exactly what is left there, and by then nothing is owed to a host.
RegStores ==
    /\ pc # "clear" => kv_store \subseteq kv
    /\ pc = "clear" => left.kv = kv /\ answered = {}

\* A token comes from a PIN, and alwaysUv too, unless a Reset was cut short.
RegPin ==
    pc # "clear" => /\ token # None => Registration!IsSet("pin")
                    /\ Registration!IsSet("always_uv") => Registration!IsSet("pin") \/ torn

\* The registration whose statement is due is stored, and passed the gates.
RegDue ==
    pc = "attest" =>
        /\ req \in [id : Registration!Ids, rp : Rps, alg : Supported, uv : BOOLEAN, auth : BOOLEAN]
        /\ req.id \in DOMAIN creds /\ creds[req.id] = req.alg
        /\ req.uv => req.auth /\ token \in {req.rp, Registration!Unbound}
        /\ Registration!IsSet("always_uv") => req.uv \/ torn

\* A permission is worth one statement: those given and the one still pending.
RegPermissions ==
    ~faulty => given + (IF Registration!IsSet("ep_pending") THEN 1 ELSE 0) <= enables

RegInv ==
    /\ RegTypes /\ RegDrawn /\ RegStores /\ RegPin /\ RegDue /\ RegPermissions
    /\ Registration!RegisteredIsStored /\ Registration!AlwaysUvHonoured

----------------------------------------------------------------------------
(* Credential management *)

\* The records, and the names acknowledged for them.
CmData ==
    /\ disk \in [CredManagement!Creds -> Names \cup {Absent}]
    /\ credentials \in [CredManagement!Creds -> Names \cup {Absent}]
    /\ acked \in [CredManagement!Creds -> Names \cup {Absent}]
    /\ refused \in [CredManagement!Creds -> SUBSET Names]
    /\ token \in BOOLEAN /\ pc \in {"idle", "clear", "off"} /\ left \subseteq CredManagement!Creds
    /\ drawn \in 0 .. MaxManaged /\ resets \in 0 .. MaxResets /\ faults \in 0 .. MaxFaults
    /\ pc = "clear" => resets < MaxResets
    /\ CredManagement!AckedNameKept

\* An open cursor lists its entries once, and has told those up to its index.
CmCursor(k) ==
    /\ told[k] \in Seq(CredManagement!EntriesOf(k))
    /\ cursors[k] # None =>
        /\ cursors[k].items \in Seq(CredManagement!EntriesOf(k))
        /\ cursors[k].current_index \in 0 .. Len(cursors[k].items) - 1
        /\ CredManagement!IsInjective(cursors[k].items)
        /\ Len(told[k]) = cursors[k].current_index + 1
        /\ \A i \in 1 .. Len(told[k]) : told[k][i] = cursors[k].items[i]
        /\ began[k].set = CredManagement!Range(cursors[k].items) /\ began[k].at = resets

CmCursors ==
    /\ cursors \in [CredManagement!Cursors -> CredManagement!CursorStates \cup {None}]
    /\ DOMAIN told = CredManagement!Cursors
    /\ DOMAIN began = CredManagement!Cursors
    /\ \A k \in CredManagement!Cursors : CmCursor(k)

CmInv == CmData /\ CmCursors

ManageInv ==
    /\ part \in {"registration", "management"}
    /\ part = "registration" => RegInv
    /\ part = "management" => CmInv

LEMMA PartSteps ==
  ASSUME [Next]_vars
  PROVE  /\ part' = part
         /\ part = "registration" => [Registration!Next]_(Registration!vars)
         /\ part = "management" => [CredManagement!Next]_(CredManagement!vars)
<1>1. CASE UNCHANGED vars
  BY <1>1 DEF vars, Registration!vars, Registration!ghosts, CredManagement!vars
<1>2. CASE Next
  BY <1>2 DEF Next
<1> QED
  BY <1>1, <1>2

----------------------------------------------------------------------------
(* Registrations preserve their invariant *)

LEMMA LeastNat ==
  ASSUME NEW T, T \subseteq Nat, T # {}
  PROVE  \E n \in T : \A m \in T : n <= m
<1> DEFINE Below == OpToRel(<, Nat)
<1>1. PICK n \in T : \A m \in T : ~(<<m, n>> \in Below)
  <2> HIDE DEF Below
  <2>1. IsWellFoundedOn(Below, Nat)
    BY NatLessThanWellFounded DEF Below
  <2> QED  BY <2>1, WFMin
<1>2. Below = {ss \in Nat \X Nat : ss[1] < ss[2]}
  BY DEF OpToRel
<1> HIDE DEF Below
<1>3. ASSUME NEW m \in T PROVE n <= m
  <2>1. m \in Nat /\ n \in Nat
    OBVIOUS
  <2>2. ASSUME m < n PROVE <<m, n>> \in Below
    BY <1>2, <2>1, <2>2
  <2> QED  BY <1>1, <2>1, <2>2
<1> QED
  BY <1>3

\* The algorithm chosen is one this build generates keys for.
LEMMA SelectedSupported ==
  ASSUME NEW params \in Requested, Registration!HasAlgorithm(params)
  PROVE  Registration!selected_alg(params) \in Supported
<1>1. -8 \in Supported /\ params \in Seq(Int)
  BY Constants DEF Constants, Registration!ConstantsOK
<1>2. CASE params = <<>>
  BY <1>1, <1>2 DEF Registration!selected_alg
<1>3. CASE params # <<>>
  <2> DEFINE T == {i \in DOMAIN params : params[i] \in Supported}
  <2>1. T \subseteq Nat /\ T # {}
    BY <1>1, <1>3 DEF Registration!HasAlgorithm
  <2>2. PICK i \in T : \A j \in T : i <= j
    BY <2>1, LeastNat
  <2>3. i \in DOMAIN params /\ params[i] \in Supported
    OBVIOUS
  <2>4. ASSUME NEW j \in 1 .. i - 1 PROVE params[j] \notin Supported
    <3>1. j \in DOMAIN params /\ j < i
      BY <1>1, <2>3
    <3> QED
      BY <2>1, <2>2, <3>1
  <2> QED
    BY <1>3, <2>3, <2>4 DEF Registration!selected_alg
<1> QED
  BY <1>2, <1>3

LEMMA RegInit == Registration!Init => RegInv
<1> SUFFICES ASSUME Registration!Init PROVE RegInv
  OBVIOUS
<1> USE Constants DEF Constants, Registration!ConstantsOK, Registration!Init
<1>1. RegTypes
  <2>1. /\ DOMAIN creds = {} /\ DOMAIN credentials = {}
    BY DEF Registration!NoCreds
  <2>2. left \in [kv : SUBSET Registration!Flags, creds : SUBSET Registration!Ids]
    BY DEF Registration!Nothing
  <2>3. /\ enables \in 0 .. MaxEnables /\ drawn \in 0 .. MaxRegistered /\ resets \in 0 .. MaxResets
        /\ given \in Nat
    OBVIOUS
  <2>4. /\ kv = {} /\ kv_store = {} /\ token = None /\ pc = "idle" /\ response = None
        /\ answered = {} /\ faulty = FALSE /\ torn = FALSE
        /\ attestation \in [format : Registration!Formats, cert : CertKeys \cup {None}]
    OBVIOUS
  <2> QED
    BY <2>1, <2>2, <2>3, <2>4, Zenon DEF RegTypes, Registration!TypeOK
<1>2. RegDrawn
  BY DEF RegDrawn, Registration!NoCreds
<1>3. RegStores /\ RegPin /\ RegDue /\ RegPermissions
  BY DEF RegStores, RegPin, RegDue, RegPermissions, Registration!IsSet
<1>4. Registration!RegisteredIsStored /\ Registration!AlwaysUvHonoured
  BY DEF Registration!RegisteredIsStored, Registration!AlwaysUvHonoured, Registration!NoCreds
<1> QED
  BY <1>1, <1>2, <1>3, <1>4 DEF RegInv

\* What make_credential stores meets nothing that is there.
LEMMA RegMake ==
  ASSUME RegInv, NEW rp \in Rps, NEW uv \in BOOLEAN, NEW auth \in BOOLEAN, NEW params \in Requested,
         Registration!make_credential(rp, uv, auth, params)
  PROVE  RegInv'
<1> DEFINE alg == Registration!selected_alg(params)
<1> DEFINE id == drawn + 1
<1>0. /\ pc = "idle" /\ drawn < MaxRegistered /\ drawn \in Nat /\ drawn' = id
      /\ id \in Registration!Ids /\ id = drawn + 1
  BY Constants DEF Constants, Registration!ConstantsOK, Registration!make_credential, RegInv, RegTypes,
     Registration!TypeOK, Registration!Ids
<1>1. /\ creds' = Registration!Inserted(creds, id, alg)
      /\ credentials' = Registration!Inserted(credentials, id, alg)
      /\ alg \in Supported
      /\ req' = [id |-> id, rp |-> rp, alg |-> alg, uv |-> auth, auth |-> auth]
      /\ pc' = "attest"
      /\ UNCHANGED <<kv, kv_store, token, attestation, left, response, answered, enables, given,
                     faulty, torn, resets>>
  BY <1>0, SelectedSupported
     DEF Registration!make_credential, Registration!store_credential, Registration!FlagUv,
         Registration!ghosts
<1>2. /\ auth => token \in {rp, Registration!Unbound}
      /\ Registration!IsSet("always_uv") /\ Registration!IsSet("pin") => auth
  BY DEF Registration!make_credential, Registration!UvGate, Registration!pin_authenticated
<1> HIDE DEF alg, id
<1>3. id \notin DOMAIN creds
  BY <1>0 DEF RegInv, RegDrawn
<1>4. RegTypes'
  <2>1. /\ DOMAIN creds' \subseteq Registration!Ids /\ DOMAIN credentials' \subseteq Registration!Ids
        /\ \A c \in DOMAIN creds' : creds'[c] \in Supported
        /\ \A c \in DOMAIN credentials' : credentials'[c] \in Supported
    BY <1>0, <1>1 DEF RegInv, RegTypes, Registration!TypeOK, Registration!Inserted
  <2>2. drawn' \in 0 .. MaxRegistered
    BY <1>0 DEF Registration!Ids
  <2>3. /\ kv' \subseteq Registration!Flags /\ kv_store' \subseteq Registration!Flags
        /\ token' \in Rps \cup {Registration!Unbound, None}
        /\ left' \in [kv : SUBSET Registration!Flags, creds : SUBSET Registration!Ids]
        /\ attestation' \in [format : Registration!Formats, cert : CertKeys \cup {None}]
        /\ response' \in Registration!Responses \cup {None} /\ answered' \subseteq Registration!Ids
        /\ enables' \in 0 .. MaxEnables /\ resets' \in 0 .. MaxResets
        /\ given' \in Nat
    BY <1>1 DEF RegInv, RegTypes, Registration!TypeOK
  <2>4. faulty' \in BOOLEAN /\ torn' \in BOOLEAN
    BY <1>1 DEF RegInv, RegTypes
  <2> QED
    BY <1>1, <2>1, <2>2, <2>3, <2>4, Zenon DEF RegTypes, Registration!TypeOK
<1>5. RegDrawn'
  BY <1>0, <1>1 DEF RegInv, RegTypes, RegDrawn, Registration!TypeOK, Registration!Ids, Registration!Inserted
<1>6. RegStores' /\ RegPin'
  BY <1>0, <1>1 DEF RegInv, RegStores, RegPin, Registration!IsSet
<1>7. RegDue'
  <2>1. req' \in [id : Registration!Ids, rp : Rps, alg : Supported, uv : BOOLEAN, auth : BOOLEAN]
    BY <1>0, <1>1
  <2>2. req'.id \in DOMAIN creds' /\ creds'[req'.id] = req'.alg
    BY <1>1 DEF Registration!Inserted
  <2>3. req'.uv => req'.auth /\ token' \in {req'.rp, Registration!Unbound}
    BY <1>1, <1>2
  <2>4. Registration!IsSet("always_uv")' => req'.uv \/ torn'
    BY <1>0, <1>1, <1>2 DEF RegInv, RegPin, Registration!IsSet
  <2> QED
    BY <2>1, <2>2, <2>3, <2>4 DEF RegDue
<1>8. RegPermissions'
  BY <1>1 DEF RegInv, RegPermissions, Registration!IsSet
<1>9. Registration!RegisteredIsStored' /\ Registration!AlwaysUvHonoured'
  BY <1>1, <1>3 DEF RegInv, Registration!RegisteredIsStored, Registration!AlwaysUvHonoured,
     Registration!Inserted
<1> QED
  BY <1>4, <1>5, <1>6, <1>7, <1>8, <1>9 DEF RegInv

\* The types of a step that leaves the credentials, the ids and the command's request
\* alone: what is left to show of it.
LEMMA RegTypesKept ==
  ASSUME RegTypes, UNCHANGED <<creds, attestation, drawn>>,
         kv' \subseteq Registration!Flags, kv_store' \subseteq Registration!Flags,
         credentials' = credentials \/ credentials' = creds \/ credentials' = Registration!NoCreds,
         token' \in Rps \cup {Registration!Unbound, None},
         left' \in [kv : SUBSET Registration!Flags, creds : SUBSET Registration!Ids],
         pc' \in {"idle", "attest", "clear", "off"},
         response' \in Registration!Responses \cup {None}, answered' \subseteq Registration!Ids,
         enables' \in 0 .. MaxEnables, resets' \in 0 .. MaxResets, given' \in Nat,
         faulty' \in BOOLEAN, torn' \in BOOLEAN
  PROVE  RegTypes'
<1>1. /\ DOMAIN creds' \subseteq Registration!Ids /\ DOMAIN credentials' \subseteq Registration!Ids
      /\ \A c \in DOMAIN creds' : creds'[c] \in Supported
      /\ \A c \in DOMAIN credentials' : credentials'[c] \in Supported
  BY DEF RegTypes, Registration!TypeOK, Registration!NoCreds
<1>2. /\ attestation' \in [format : Registration!Formats, cert : CertKeys \cup {None}]
      /\ drawn' \in 0 .. MaxRegistered
  BY DEF RegTypes, Registration!TypeOK
<1> QED
  BY <1>1, <1>2, Zenon DEF RegTypes, Registration!TypeOK

\* consume_ep_pending: the permission goes, or the deletion failed.
LEMMA RegAttest ==
  ASSUME RegInv, Registration!Attest
  PROVE  RegInv'
<1> USE DEF RegInv
<1> DEFINE fmt == Registration!effective_format
<1> DEFINE sent == /\ fmt \in Registration!Implemented
                   /\ fmt # "none" => Registration!sign_for_attestation(req.alg,
                                                    Registration!SigningKey(fmt, req.alg))
<1> DEFINE res == [id |-> req.id, rp |-> req.rp, alg |-> req.alg, uv |-> req.uv,
                   always |-> Registration!IsSet("always_uv"), fmt |-> fmt,
                   x5c |-> fmt = "packed" /\ attestation.cert # None]
<1>1. /\ pc = "attest" /\ pc' = "idle" /\ Registration!consume_ep_pending
      /\ UNCHANGED <<creds, credentials, token, attestation, left, enables, torn, drawn, resets>>
  BY DEF Registration!Attest
<1>2. /\ sent => /\ response' = res /\ answered' = answered \cup {req.id}
                 /\ given' = IF fmt # attestation.format THEN given + 1 ELSE given
      /\ ~sent => UNCHANGED <<response, answered, given>>
  BY DEF Registration!Attest
<1>3. /\ req \in [id : Registration!Ids, rp : Rps, alg : Supported, uv : BOOLEAN, auth : BOOLEAN]
      /\ req.id \in DOMAIN creds /\ creds[req.id] = req.alg
      /\ Registration!IsSet("always_uv") => req.uv \/ torn
  BY <1>1 DEF RegDue
<1>4. fmt \in Registration!Formats /\ (~Registration!IsSet("ep_pending") => fmt = attestation.format)
  BY DEF Registration!effective_format, RegTypes, Registration!TypeOK, Registration!Formats
<1>5. res \in Registration!Responses /\ res.id = req.id /\ res.alg = req.alg /\ res.uv = req.uv
      /\ res.always = Registration!IsSet("always_uv")
  <2>1. Registration!IsSet("always_uv") \in BOOLEAN /\ (fmt = "packed" /\ attestation.cert # None) \in BOOLEAN
    BY DEF Registration!IsSet
  <2> HIDE DEF fmt
  <2> QED
    BY <1>3, <1>4, <2>1 DEF Registration!Responses
<1> HIDE DEF sent, res, fmt
\* The flags after the deletion.
<1>6. /\ kv_store' \subseteq kv' /\ kv' \subseteq kv /\ kv \ {"ep_pending"} \subseteq kv'
      /\ faulty' \in BOOLEAN /\ (faulty => faulty')
      /\ Registration!IsSet("ep_pending") /\ ~faulty' => ~Registration!IsSet("ep_pending")'
      /\ kv_store \ {"ep_pending"} \subseteq kv_store' /\ kv_store' \subseteq kv_store
  <2>1. kv_store \subseteq kv /\ faulty \in BOOLEAN
    BY <1>1 DEF RegStores, RegTypes
  <2>2. CASE Registration!IsSet("ep_pending")
    <3>1. /\ kv_store' = kv_store \ {"ep_pending"}
          /\ \/ kv' = kv \ {"ep_pending"} /\ faulty' = faulty
             \/ kv' = kv /\ faulty' = TRUE
      BY <1>1, <2>2 DEF Registration!consume_ep_pending, Registration!delete
    <3>2. CASE kv' = kv \ {"ep_pending"} /\ faulty' = faulty
      BY <2>1, <3>1, <3>2 DEF Registration!IsSet
    <3>3. CASE kv' = kv /\ faulty' = TRUE
      BY <2>1, <3>1, <3>3
    <3> QED
      BY <3>1, <3>2, <3>3
  <2>3. CASE ~Registration!IsSet("ep_pending")
    BY <1>1, <2>1, <2>3 DEF Registration!consume_ep_pending
  <2> QED
    BY <2>2, <2>3
<1>7. /\ Registration!IsSet("pin")' <=> Registration!IsSet("pin")
      /\ Registration!IsSet("always_uv")' <=> Registration!IsSet("always_uv")
  BY <1>6 DEF Registration!IsSet
<1>8. RegTypes'
  <2>1. /\ kv' \subseteq Registration!Flags /\ kv_store' \subseteq Registration!Flags
        /\ token' \in Rps \cup {Registration!Unbound, None}
        /\ left' \in [kv : SUBSET Registration!Flags, creds : SUBSET Registration!Ids]
        /\ enables' \in 0 .. MaxEnables /\ resets' \in 0 .. MaxResets
        /\ torn' \in BOOLEAN
    BY <1>1, <1>6 DEF RegTypes, Registration!TypeOK
  <2>2. /\ response' \in Registration!Responses \cup {None} /\ answered' \subseteq Registration!Ids
        /\ given' \in Nat
    BY <1>2, <1>3, <1>5 DEF RegTypes, Registration!TypeOK
  <2> QED
    BY <1>1, <1>6, <2>1, <2>2, RegTypesKept
<1>9. RegDrawn' /\ RegStores' /\ RegDue'
  BY <1>1, <1>6 DEF RegDrawn, RegStores, RegDue
<1>10. RegPin'
  BY <1>1, <1>7 DEF RegPin
<1>11. RegPermissions'
  <2>1. given \in Nat /\ enables \in Nat
    BY DEF RegTypes, Registration!TypeOK
  <2>2. CASE Registration!IsSet("ep_pending")
    BY <1>1, <1>2, <1>6, <2>1, <2>2 DEF RegPermissions
  <2>3. CASE ~Registration!IsSet("ep_pending")
    <3>1. ~Registration!IsSet("ep_pending")'
      BY <1>6, <2>3 DEF Registration!IsSet
    <3>2. given' = given
      BY <1>2, <1>4, <2>3
    <3> QED
      BY <1>1, <1>6, <2>1, <2>3, <3>1, <3>2 DEF RegPermissions
  <2> QED
    BY <2>2, <2>3
<1>12. Registration!RegisteredIsStored'
  BY <1>1, <1>2, <1>3, <1>5 DEF Registration!RegisteredIsStored
<1>13. Registration!AlwaysUvHonoured'
  BY <1>1, <1>2, <1>3, <1>5 DEF Registration!AlwaysUvHonoured
<1> QED
  BY <1>8, <1>9, <1>10, <1>11, <1>12, <1>13

\* A setting is stored in both places, or leaves RAM first.
LEMMA RegSettings ==
  ASSUME RegInv,
         \/ Registration!SetPin \/ Registration!EnableEnterpriseAttestation
         \/ Registration!toggle_flag("always_uv")
         \/ \E rp \in Rps \cup {Registration!Unbound} : Registration!IssueToken(rp)
  PROVE  RegInv'
<1> USE DEF RegInv
<1>0. /\ pc = "idle"
      /\ UNCHANGED <<pc, req, left, response, drawn, creds, credentials, attestation, answered,
                     given, torn, resets>>
  BY DEF Registration!SetPin, Registration!EnableEnterpriseAttestation, Registration!toggle_flag,
         Registration!IssueToken, Registration!Idle, Registration!ghosts
<1>1. kv_store \subseteq kv /\ kv \subseteq Registration!Flags /\ faulty \in BOOLEAN
  BY <1>0 DEF RegStores, RegTypes, Registration!TypeOK
<1>2. /\ given \in Nat /\ enables \in Nat /\ enables \in 0 .. MaxEnables /\ MaxEnables \in Nat
  BY Constants DEF Constants, Registration!ConstantsOK, RegTypes, Registration!TypeOK
\* What each setting makes of the flags.
<1> DEFINE After ==
      /\ kv_store' \subseteq kv' /\ kv' \subseteq Registration!Flags
      /\ faulty' \in BOOLEAN /\ (faulty => faulty')
      /\ token' \in Rps \cup {Registration!Unbound, None} /\ enables' \in 0 .. MaxEnables
      /\ token' # None => Registration!IsSet("pin")'
      /\ Registration!IsSet("always_uv")' => Registration!IsSet("pin")' \/ torn'
      /\ ~faulty' => given' + (IF Registration!IsSet("ep_pending")' THEN 1 ELSE 0) <= enables'
<1>3. After
  <2> USE DEF Registration!IsSet
  <2>1. CASE Registration!SetPin
    <3>1. /\ kv' = kv \cup {"pin"} /\ kv_store' = kv_store \cup {"pin"} /\ token' = None
          /\ UNCHANGED <<faulty, enables>>
      BY <2>1 DEF Registration!SetPin, Registration!store, Registration!ghosts
    <3> QED
      BY <1>0, <1>1, <1>2, <3>1 DEF RegPermissions, Registration!Flags
  <2>2. CASE Registration!EnableEnterpriseAttestation
    <3>1. /\ kv' = kv \cup {"ep_pending"} /\ kv_store' = kv_store \cup {"ep_pending"}
          /\ enables' = enables + 1 /\ enables < MaxEnables /\ UNCHANGED <<faulty, token>>
      BY <2>2 DEF Registration!EnableEnterpriseAttestation, Registration!store
    <3>2. given <= enables \/ faulty
      BY <1>2 DEF RegPermissions
    <3>3. token \in Rps \cup {Registration!Unbound, None}
      BY DEF RegTypes, Registration!TypeOK
    <3> QED
      BY <1>0, <1>1, <1>2, <3>1, <3>2, <3>3 DEF RegPin, Registration!Flags
  <2>3. CASE Registration!toggle_flag("always_uv")
    <3>1. /\ token = Registration!Unbound /\ "pin" \in kv \cup kv_store /\ UNCHANGED <<token, enables>>
          /\ \/ /\ kv' = kv \cup {"always_uv"} /\ kv_store' = kv_store \cup {"always_uv"}
                /\ faulty' = faulty
             \/ /\ kv' = kv \ {"always_uv"} /\ kv_store' = kv_store \ {"always_uv"}
                /\ faulty' = faulty
             \/ kv' = kv /\ kv_store' = kv_store \ {"always_uv"} /\ faulty' = TRUE
      BY <2>3 DEF Registration!toggle_flag, Registration!store, Registration!delete
    <3>2. "pin" \in kv' \cup kv_store' /\ kv_store' \subseteq kv' /\ kv' \subseteq Registration!Flags
          /\ (Registration!IsSet("ep_pending")' <=> Registration!IsSet("ep_pending"))
      BY <1>1, <3>1 DEF Registration!Flags
    <3>3. faulty' \in BOOLEAN /\ (faulty => faulty')
      <4>1. CASE faulty' = faulty
        BY <1>1, <4>1
      <4>2. CASE faulty' = TRUE
        BY <4>2
      <4> QED
        BY <3>1, <4>1, <4>2
    <3> QED
      BY <1>0, <1>2, <3>1, <3>2, <3>3 DEF RegPermissions
  <2>4. ASSUME NEW rp \in Rps \cup {Registration!Unbound}, Registration!IssueToken(rp) PROVE After
    BY <1>0, <1>1, <1>2, <2>4 DEF Registration!IssueToken, Registration!ghosts, RegPin, RegPermissions
  <2> QED
    BY <2>1, <2>2, <2>3, <2>4
<1>4. RegTypes'
  <2>1. /\ left' \in [kv : SUBSET Registration!Flags, creds : SUBSET Registration!Ids]
        /\ response' \in Registration!Responses \cup {None} /\ answered' \subseteq Registration!Ids
        /\ resets' \in 0 .. MaxResets /\ given' \in Nat /\ torn' \in BOOLEAN
    BY <1>0 DEF RegTypes, Registration!TypeOK
  <2>2. kv_store' \subseteq Registration!Flags
    BY <1>3
  <2> QED
    BY <1>0, <1>3, <2>1, <2>2, RegTypesKept
<1>5. RegDrawn' /\ RegStores' /\ RegPin' /\ RegDue' /\ RegPermissions'
  BY <1>0, <1>3 DEF RegDrawn, RegStores, RegPin, RegDue, RegPermissions
<1>6. Registration!RegisteredIsStored' /\ Registration!AlwaysUvHonoured'
  BY <1>0 DEF Registration!RegisteredIsStored, Registration!AlwaysUvHonoured
<1> QED
  BY <1>4, <1>5, <1>6

\* A Reset deletes with nothing owed, and what it leaves behind when cut short is torn.
LEMMA RegReset ==
  ASSUME RegInv,
         \/ Registration!handle_reset
         \/ \E f \in Registration!Flags : Registration!ClearKey(f)
         \/ Registration!FinishReset \/ Registration!PowerLoss \/ Registration!load_from_backend
  PROVE  RegInv'
<1> USE DEF RegInv
<1>0. UNCHANGED <<creds, attestation, response, enables, given, faulty, drawn>>
  BY DEF Registration!handle_reset, Registration!ClearKey, Registration!FinishReset,
         Registration!PowerLoss, Registration!load_from_backend, Registration!ghosts
<1>1. pc' # "attest"
  BY DEF Registration!handle_reset, Registration!ClearKey, Registration!FinishReset,
         Registration!PowerLoss, Registration!load_from_backend
<1>2. /\ kv' \subseteq kv /\ kv_store' \subseteq kv_store /\ answered' \subseteq answered
      /\ torn' \in BOOLEAN /\ (torn => torn') /\ token' \in {token, None}
      /\ pc' \in {"idle", "attest", "clear", "off"}
      /\ credentials' = credentials \/ credentials' = creds \/ credentials' = Registration!NoCreds
  <2>1. torn \in BOOLEAN
    BY DEF RegTypes
  <2>2. CASE Registration!PowerLoss
    BY <2>1, <2>2 DEF Registration!PowerLoss
  <2>3. CASE ~Registration!PowerLoss
    BY <2>1, <2>3 DEF Registration!handle_reset, Registration!ClearKey, Registration!FinishReset,
         Registration!load_from_backend, Registration!ghosts
  <2> QED
    BY <2>2, <2>3
<1> DEFINE LeftOK == left' \in [kv : SUBSET Registration!Flags, creds : SUBSET Registration!Ids]
<1>3. LeftOK /\ resets' \in 0 .. MaxResets
  <2>1. /\ left \in [kv : SUBSET Registration!Flags, creds : SUBSET Registration!Ids]
        /\ resets \in 0 .. MaxResets /\ kv \subseteq Registration!Flags
        /\ DOMAIN creds \subseteq Registration!Ids /\ MaxResets \in Nat
    BY Constants DEF Constants, Registration!ConstantsOK, RegTypes, Registration!TypeOK
  <2>2. CASE Registration!handle_reset
    BY <2>1, <2>2 DEF Registration!handle_reset
  <2>3. ASSUME NEW f \in Registration!Flags, Registration!ClearKey(f)
        PROVE  LeftOK /\ resets' \in 0 .. MaxResets
    BY <2>1, <2>3 DEF Registration!ClearKey, Registration!ghosts
  <2>4. CASE Registration!FinishReset \/ Registration!PowerLoss \/ Registration!load_from_backend
    BY <2>1, <2>4 DEF Registration!FinishReset, Registration!PowerLoss,
       Registration!load_from_backend, Registration!Nothing, Registration!ghosts
  <2> QED
    BY <2>2, <2>3, <2>4
<1>4. RegTypes'
  <2>1. /\ kv' \subseteq Registration!Flags /\ kv_store' \subseteq Registration!Flags
        /\ token' \in Rps \cup {Registration!Unbound, None}
        /\ response' \in Registration!Responses \cup {None} /\ answered' \subseteq Registration!Ids
        /\ enables' \in 0 .. MaxEnables /\ given' \in Nat
    BY <1>0, <1>2 DEF RegTypes, Registration!TypeOK
  <2>2. faulty' \in BOOLEAN
    BY <1>0 DEF RegTypes
  <2> QED
    BY <1>0, <1>2, <1>3, <2>1, <2>2, RegTypesKept
<1>5. RegStores'
  <2>1. CASE Registration!handle_reset
    BY <2>1 DEF Registration!handle_reset, RegStores
  <2>2. ASSUME NEW f \in Registration!Flags, Registration!ClearKey(f) PROVE RegStores'
    <3>1. /\ pc = "clear" /\ pc' = pc /\ kv' = kv \ {f} /\ left' = [left EXCEPT !.kv = @ \ {f}]
          /\ answered' = answered
      BY <2>2 DEF Registration!ClearKey, Registration!ghosts
    <3>2. left'.kv = left.kv \ {f}
      BY <3>1 DEF RegTypes, Registration!TypeOK
    <3> QED
      BY <3>1, <3>2 DEF RegStores
  <2>3. CASE Registration!FinishReset \/ Registration!PowerLoss
    BY <2>3 DEF Registration!FinishReset, Registration!PowerLoss, RegStores
  <2>4. CASE Registration!load_from_backend
    BY <2>4 DEF Registration!load_from_backend, RegStores
  <2> QED
    BY <2>1, <2>2, <2>3, <2>4
<1>6. RegPin'
  <2> USE DEF Registration!IsSet
  <2>1. CASE Registration!FinishReset
    BY <2>1 DEF Registration!FinishReset, RegStores, RegPin, Registration!Nothing
  <2>2. CASE Registration!PowerLoss
    <3>1. CASE pc = "clear"
      BY <2>2, <3>1 DEF Registration!PowerLoss, RegPin
    <3>2. CASE pc # "clear"
      BY <2>2, <3>2 DEF Registration!PowerLoss, RegPin, RegStores
    <3> QED
      BY <3>1, <3>2
  <2>3. CASE pc' = "clear"
    BY <2>3 DEF RegPin
  <2>4. CASE Registration!load_from_backend
    BY <2>4 DEF Registration!load_from_backend, RegPin, Registration!ghosts
  <2> QED
    BY <2>1, <2>2, <2>3, <2>4 DEF Registration!handle_reset, Registration!ClearKey
<1>7. RegDrawn' /\ RegDue'
  BY <1>0, <1>1 DEF RegDrawn, RegDue
<1>8. RegPermissions'
  <2>1. Registration!IsSet("ep_pending")' => Registration!IsSet("ep_pending")
    BY <1>2 DEF Registration!IsSet
  <2>2. given \in Nat /\ enables \in Nat
    BY DEF RegTypes, Registration!TypeOK
  <2> QED
    BY <1>0, <2>1, <2>2 DEF RegPermissions
<1>9. Registration!RegisteredIsStored'
  BY <1>0, <1>2 DEF Registration!RegisteredIsStored
<1>10. Registration!AlwaysUvHonoured'
  BY <1>0, <1>2 DEF Registration!AlwaysUvHonoured
<1> QED
  BY <1>4, <1>5, <1>6, <1>7, <1>8, <1>9, <1>10

LEMMA RegClear ==
  ASSUME RegInv, NEW c \in Registration!Ids, Registration!ClearCredential(c)
  PROVE  RegInv'
<1> USE DEF RegInv
<1>1. /\ pc = "clear" /\ left' = [left EXCEPT !.creds = @ \ {c}]
      /\ creds' = [d \in DOMAIN creds \ {c} |-> creds[d]]
      /\ UNCHANGED <<kv, kv_store, credentials, token, attestation, pc, req, response, drawn,
                     answered, enables, given, faulty, torn, resets>>
  BY DEF Registration!ClearCredential, Registration!ghosts
<1>2. /\ left' \in [kv : SUBSET Registration!Flags, creds : SUBSET Registration!Ids]
      /\ left'.kv = left.kv
  BY <1>1 DEF RegTypes, Registration!TypeOK
<1>3. RegTypes'
  <2>1. DOMAIN creds' \subseteq Registration!Ids /\ \A d \in DOMAIN creds' : creds'[d] \in Supported
    BY <1>1 DEF RegTypes, Registration!TypeOK
  <2> QED
    BY <1>1, <1>2, <2>1, Zenon DEF RegTypes, Registration!TypeOK
<1>4. RegDrawn' /\ RegStores' /\ RegDue'
  BY <1>1, <1>2 DEF RegDrawn, RegStores, RegDue
<1>5. RegPin' /\ RegPermissions'
  BY <1>1 DEF RegPin, RegPermissions, Registration!IsSet
<1>6. Registration!RegisteredIsStored' /\ Registration!AlwaysUvHonoured'
  BY <1>1 DEF RegStores, Registration!RegisteredIsStored, Registration!AlwaysUvHonoured
<1> QED
  BY <1>3, <1>4, <1>5, <1>6

LEMMA RegStep == RegInv /\ [Registration!Next]_(Registration!vars) => RegInv'
<1> SUFFICES ASSUME RegInv, [Registration!Next]_(Registration!vars) PROVE RegInv'
  OBVIOUS
<1>1. CASE UNCHANGED Registration!vars
  <2>1. UNCHANGED <<kv, creds, kv_store, credentials, token, attestation, pc, req, left, response,
                    drawn, answered, enables, given, faulty, torn, resets>>
    BY <1>1 DEF Registration!vars, Registration!ghosts
  <2> QED
    BY <2>1 DEF RegInv, RegTypes, Registration!TypeOK, RegDrawn, RegStores, RegPin, RegDue,
       RegPermissions, Registration!IsSet, Registration!RegisteredIsStored,
       Registration!AlwaysUvHonoured
<1>2. CASE Registration!Next
  BY <1>2, RegMake, RegAttest, RegSettings, RegReset, RegClear DEF Registration!Next
<1> QED
  BY <1>1, <1>2

----------------------------------------------------------------------------
(* Credential management preserves its invariant *)

\* The rank of an element is its place: a set of numbers has an ascending enumeration.
LEMMA AscendingExists ==
  ASSUME NEW n \in Nat, NEW S \in SUBSET (1 .. n)
  PROVE  \E s \in [1 .. Cardinality(S) -> S] : \A i, j \in DOMAIN s : i < j => s[i] < s[j]
<1> DEFINE N == Cardinality(S)
<1> DEFINE UpTo(c) == {d \in S : d <= c}
<1> DEFINE rank == [c \in S |-> Cardinality(UpTo(c))]
<1>0. \A c \in S : c \in Nat
  OBVIOUS
<1>1. IsFiniteSet(S) /\ N \in Nat
  <2>1. IsFiniteSet(1 .. n)
    BY FS_Interval
  <2>2. IsFiniteSet(S)
    BY <2>1, FS_Subset
  <2> QED
    BY <2>2, FS_CardinalityType
<1>2. ASSUME NEW c \in S PROVE IsFiniteSet(UpTo(c)) /\ Cardinality(UpTo(c)) \in 1 .. N
  <2>1. IsFiniteSet(UpTo(c)) /\ Cardinality(UpTo(c)) <= N
    BY <1>1, FS_Subset
  <2>2. c \in UpTo(c)
    OBVIOUS
  <2>3. Cardinality(UpTo(c)) \in Nat /\ Cardinality(UpTo(c)) # 0
    BY <2>1, <2>2, FS_CardinalityType, FS_EmptySet
  <2> QED
    BY <1>1, <2>1, <2>3
<1>3. ASSUME NEW c \in S, NEW d \in S, c < d PROVE rank[c] < rank[d]
  <2>0. c \in Nat /\ d \in Nat /\ c < d
    BY <1>0, <1>3
  <2>1. UpTo(c) \subseteq UpTo(d) /\ d \in UpTo(d) /\ d \notin UpTo(c)
    <3>1. ASSUME NEW x \in S, x <= c PROVE x <= d
      BY <1>0, <2>0, <3>1
    <3>2. ~(d <= c) /\ d <= d
      BY <2>0
    <3> QED
      BY <3>1, <3>2
  <2>2. /\ Cardinality(UpTo(c)) <= Cardinality(UpTo(d))
        /\ Cardinality(UpTo(c)) # Cardinality(UpTo(d))
    BY <1>2, <2>1, FS_Subset
  <2>3. Cardinality(UpTo(c)) \in 1 .. N /\ Cardinality(UpTo(d)) \in 1 .. N
    BY <1>2
  <2> QED
    BY <1>1, <2>2, <2>3
<1>4. rank \in [S -> 1 .. N]
  BY <1>2
<1> HIDE DEF rank, UpTo, N
<1>5. \A c, d \in S : rank[c] = rank[d] => c = d
  <2> SUFFICES ASSUME NEW c \in S, NEW d \in S, c # d PROVE rank[c] # rank[d]
    OBVIOUS
  <2>1. c < d \/ d < c
    OBVIOUS
  <2>2. rank[c] \in Nat /\ rank[d] \in Nat
    BY <1>1, <1>4
  <2> QED
    BY <1>3, <2>1, <2>2
<1>6. rank \in Surjection(S, 1 .. N)
  <2>1. rank \in Injection(S, 1 .. N)
    BY <1>4, <1>5 DEF Injection, IsInjective
  <2>2. IsFiniteSet(1 .. N) /\ Cardinality(1 .. N) = N
    BY <1>1, FS_Interval
  <2> QED
    BY <2>1, <2>2, FS_Injection DEF N
<1>7. \A i \in 1 .. N : \E c \in S : rank[c] = i
  BY <1>6 DEF Surjection
<1> DEFINE s == [i \in 1 .. N |-> CHOOSE c \in S : rank[c] = i]
<1>8. \A i \in 1 .. N : s[i] \in S /\ rank[s[i]] = i
  BY <1>7
<1>9. s \in [1 .. N -> S]
  BY <1>8
<1> HIDE DEF s
<1>10. ASSUME NEW i \in 1 .. N, NEW j \in 1 .. N, i < j PROVE s[i] < s[j]
  <2>1. s[i] \in S /\ s[j] \in S /\ rank[s[i]] = i /\ rank[s[j]] = j
    BY <1>8
  <2>2. s[i] \in Nat /\ s[j] \in Nat
    BY <1>0, <2>1, Zenon
  <2>5. i \in Int /\ j \in Int
    BY <1>1
  <2>3. CASE s[j] < s[i]
    <3>1. rank[s[j]] < rank[s[i]]
      BY <1>3, <2>1, <2>3, Zenon
    <3>2. j < i
      BY <2>1, <3>1, Zenon
    <3> QED
      BY <1>10, <2>5, <3>2
  <2>4. CASE s[j] = s[i]
    BY <1>10, <2>1, <2>4, <2>5
  <2> QED
    BY <2>2, <2>3, <2>4
<1>11. DOMAIN s = 1 .. N
  BY <1>9
<1> QED
  BY <1>9, <1>10, <1>11 DEF N

\* A list of ids in order has each of them once.
LEMMA InOrderOnce ==
  ASSUME NEW S \in SUBSET CredManagement!Creds
  PROVE  /\ CredManagement!InOrder(S) \in Seq(S)
         /\ CredManagement!IsInjective(CredManagement!InOrder(S))
<1>1. CredManagement!Cardinality(S) = Cardinality(S)
  BY DEF CredManagement!Cardinality, Cardinality
<1>2. MaxManaged \in Nat /\ S \in SUBSET (1 .. MaxManaged)
  BY Constants DEF Constants, CredManagement!ConstantsOK, CredManagement!Creds
<1>3. Cardinality(S) \in Nat /\ \A c \in S : c \in Nat
  <2>1. IsFiniteSet(1 .. MaxManaged)
    BY <1>2, FS_Interval
  <2>2. IsFiniteSet(S)
    BY <1>2, <2>1, FS_Subset
  <2> QED
    BY <1>2, <2>2, FS_CardinalityType
<1> DEFINE s == CredManagement!InOrder(S)
<1>4. s \in [1 .. Cardinality(S) -> S] /\ \A i, j \in DOMAIN s : i < j => s[i] < s[j]
  BY <1>1, <1>2, AscendingExists DEF CredManagement!InOrder
<1> HIDE DEF s
<1>5. s \in Seq(S)
  BY <1>3, <1>4
<1>6. ASSUME NEW i \in DOMAIN s, NEW j \in DOMAIN s, s[i] = s[j] PROVE i = j
  <2>0. i \in 1 .. Cardinality(S) /\ j \in 1 .. Cardinality(S) /\ s[i] \in S /\ s[j] \in S
    BY <1>4
  <2>1. i \in Int /\ j \in Int /\ s[i] \in Nat /\ s[j] \in Nat
    BY <1>3, <2>0
  <2> QED
    BY <1>4, <1>6, <2>1
<1> QED
  BY <1>5, <1>6 DEF s, CredManagement!IsInjective

\* enumerate_rps lists each relying party once.
LEMMA RpsOnce ==
  /\ CredManagement!enumerate_rps \in Seq(Rps)
  /\ CredManagement!IsInjective(CredManagement!enumerate_rps)
<1> DEFINE firsts == {c \in CredManagement!Resident :
                        \A d \in CredManagement!Resident : d < c => RpOf[d] # RpOf[c]}
<1> DEFINE ids == CredManagement!InOrder(firsts)
<1> DEFINE rps == [i \in 1 .. Len(ids) |-> RpOf[ids[i]]]
<1>1. CredManagement!enumerate_rps = rps
  BY DEF CredManagement!enumerate_rps
<1>2. /\ firsts \subseteq CredManagement!Creds /\ firsts \subseteq Nat
      /\ RpOf \in [CredManagement!Creds -> Rps]
  BY Constants DEF CredManagement!Resident, Constants, CredManagement!ConstantsOK, CredManagement!Creds
<1>3. \A c, d \in firsts : RpOf[c] = RpOf[d] => c = d
  BY <1>2
<1>4. ids \in Seq(firsts) /\ CredManagement!IsInjective(ids)
  BY <1>2, InOrderOnce
<1> HIDE DEF firsts, ids
<1>5. Len(ids) \in Nat /\ DOMAIN ids = 1 .. Len(ids) /\ \A i \in 1 .. Len(ids) : ids[i] \in firsts
  BY <1>4
<1>6. rps \in Seq(Rps)
  <2>1. \A i \in 1 .. Len(ids) : RpOf[ids[i]] \in Rps
    BY <1>2, <1>5
  <2> QED
    BY <1>5, <2>1
<1>7. DOMAIN rps = 1 .. Len(ids) /\ \A i \in 1 .. Len(ids) : rps[i] = RpOf[ids[i]]
  OBVIOUS
<1> HIDE DEF rps
<1>8. CredManagement!IsInjective(rps)
  BY <1>3, <1>4, <1>5, <1>7 DEF CredManagement!IsInjective
<1> QED
  BY <1>1, <1>6, <1>8

LEMMA CmInit == CredManagement!Init => CmInv
<1> SUFFICES ASSUME CredManagement!Init PROVE CmInv
  OBVIOUS
<1> USE DEF CredManagement!Init
<1>1. MaxManaged \in Nat /\ MaxResets \in Nat /\ MaxFaults \in Nat
  BY Constants DEF Constants, CredManagement!ConstantsOK
<1>2. CmData
  <2>1. token \in BOOLEAN
    BY Zenon
  <2> QED
    BY <1>1, <2>1 DEF CmData, CredManagement!NoRecords, CredManagement!AckedNameKept
<1>3. CmCursors
  BY DEF CmCursors, CmCursor, CredManagement!Closed, CredManagement!Untold, CredManagement!NotBegun
<1> QED
  BY <1>2, <1>3 DEF CmInv

\* An enumeration begins: a new cursor in the place of the old one.
LEMMA CmBegin ==
  ASSUME CmInv, NEW k \in CredManagement!Cursors, NEW items \in Seq(CredManagement!EntriesOf(k)),
         CredManagement!IsInjective(items), CredManagement!Begin(k, items)
  PROVE  CmInv'
<1> USE DEF CmInv
<1>1. /\ items # <<>>
      /\ cursors' = [cursors EXCEPT ![k] = [items |-> items, current_index |-> 0]]
      /\ told' = [told EXCEPT ![k] = <<items[1]>>]
      /\ began' = [began EXCEPT ![k] = [set |-> CredManagement!Range(items), at |-> resets]]
      /\ UNCHANGED <<disk, credentials, token, pc, left, drawn, acked, refused, resets, faults>>
  BY DEF CredManagement!Begin
<1>2. CmData'
  BY <1>1 DEF CmData, CredManagement!AckedNameKept
<1>3. Len(items) \in Nat /\ Len(items) >= 1 /\ items[1] \in CredManagement!EntriesOf(k)
  BY <1>1
<1>4. /\ cursors \in [CredManagement!Cursors -> CredManagement!CursorStates \cup {None}]
      /\ DOMAIN told = CredManagement!Cursors /\ DOMAIN began = CredManagement!Cursors
  BY DEF CmCursors
<1>5. items \in Seq(Rps \cup CredManagement!Creds)
  BY DEF CredManagement!EntriesOf
<1>6. [items |-> items, current_index |-> 0] \in CredManagement!CursorStates
  BY <1>5 DEF CredManagement!CursorStates
<1>7. /\ cursors' \in [CredManagement!Cursors -> CredManagement!CursorStates \cup {None}]
      /\ DOMAIN told' = CredManagement!Cursors /\ DOMAIN began' = CredManagement!Cursors
  BY <1>1, <1>4, <1>6
<1>8. ASSUME NEW l \in CredManagement!Cursors PROVE CmCursor(l)'
  <2>1. CASE l = k
    <3>1. /\ cursors'[l] = [items |-> items, current_index |-> 0] /\ told'[l] = <<items[1]>>
          /\ began'[l] = [set |-> CredManagement!Range(items), at |-> resets]
      BY <1>1, <1>4, <2>1
    <3>2. /\ cursors'[l].items = items /\ cursors'[l].current_index = 0
          /\ began'[l].set = CredManagement!Range(items) /\ began'[l].at = resets
      BY <3>1
    <3>3. /\ told'[l] \in Seq(CredManagement!EntriesOf(k)) /\ Len(told'[l]) = 1
          /\ \A i \in 1 .. Len(told'[l]) : told'[l][i] = items[i]
      BY <1>3, <3>1
    <3>4. 0 \in 0 .. Len(items) - 1 /\ 0 + 1 = 1
      BY <1>3
    <3> QED
      BY <1>1, <2>1, <3>2, <3>3, <3>4 DEF CmCursor
  <2>2. CASE l # k
    <3>1. cursors'[l] = cursors[l] /\ told'[l] = told[l] /\ began'[l] = began[l] /\ resets' = resets
      BY <1>1, <1>4, <2>2
    <3>2. CmCursor(l)
      BY DEF CmCursors
    <3> QED
      BY <3>1, <3>2 DEF CmCursor
  <2> QED
    BY <2>1, <2>2
<1> QED
  BY <1>2, <1>7, <1>8 DEF CmCursors

\* An enumeration tells the next entry, or ends.
LEMMA CmNext ==
  ASSUME CmInv, NEW k \in CredManagement!Cursors, CredManagement!GetNext(k)
  PROVE  CmInv'
<1> USE DEF CmInv
<1>1. /\ cursors[k] # None
      /\ UNCHANGED <<disk, credentials, token, pc, left, drawn, acked, refused, resets, faults>>
  BY DEF CredManagement!GetNext
<1>2. CmData'
  BY <1>1 DEF CmData, CredManagement!AckedNameKept
<1>3. /\ cursors \in [CredManagement!Cursors -> CredManagement!CursorStates \cup {None}]
      /\ DOMAIN told = CredManagement!Cursors /\ DOMAIN began = CredManagement!Cursors
      /\ \A l \in CredManagement!Cursors : CmCursor(l)
  BY DEF CmCursors
<1> DEFINE items == cursors[k].items
<1> DEFINE i == cursors[k].current_index
<1>4. /\ cursors[k] = [items |-> items, current_index |-> i]
      /\ items \in Seq(CredManagement!EntriesOf(k)) /\ i \in 0 .. Len(items) - 1
      /\ items \in Seq(Rps \cup CredManagement!Creds) /\ i \in Nat /\ Len(items) \in Nat
  BY <1>1, <1>3 DEF CmCursor, CredManagement!CursorStates
<1>5. CASE i + 1 >= Len(items)
  <2>1. /\ cursors' = [cursors EXCEPT ![k] = None] /\ told' = [told EXCEPT ![k] = <<>>]
        /\ began' = [began EXCEPT ![k] = CredManagement!NoEntries]
    BY <1>5 DEF CredManagement!GetNext
  <2>2. /\ cursors' \in [CredManagement!Cursors -> CredManagement!CursorStates \cup {None}]
        /\ DOMAIN told' = CredManagement!Cursors /\ DOMAIN began' = CredManagement!Cursors
    BY <1>3, <2>1
  <2>3. ASSUME NEW l \in CredManagement!Cursors PROVE CmCursor(l)'
    BY <1>1, <1>3, <2>1 DEF CmCursor
  <2> QED
    BY <1>2, <2>2, <2>3 DEF CmCursors
<1>6. CASE ~(i + 1 >= Len(items))
  <2>1. /\ cursors' = [cursors EXCEPT ![k].current_index = i + 1] /\ began' = began
        /\ told' = [told EXCEPT ![k] = Append(told[k], items[i + 2])]
    <3>1. (i + 1) + 1 = i + 2
      BY <1>4
    <3> QED
      BY <1>6, <3>1 DEF CredManagement!GetNext
  <2>2. cursors' = [cursors EXCEPT ![k] = [items |-> items, current_index |-> i + 1]]
    <3> HIDE DEF items, i
    <3>1. [cursors[k] EXCEPT !.current_index = i + 1] = [items |-> items, current_index |-> i + 1]
      BY <1>4
    <3> QED
      BY <2>1, <3>1
  <2>3. [items |-> items, current_index |-> i + 1] \in CredManagement!CursorStates
    BY <1>4 DEF CredManagement!CursorStates
  <2>4. /\ cursors' \in [CredManagement!Cursors -> CredManagement!CursorStates \cup {None}]
        /\ DOMAIN told' = CredManagement!Cursors /\ DOMAIN began' = CredManagement!Cursors
    BY <1>3, <2>1, <2>2, <2>3
  <2>5. CmCursor(k)'
    <3>1. /\ cursors'[k] = [items |-> items, current_index |-> i + 1]
          /\ told'[k] = Append(told[k], items[i + 2]) /\ began'[k] = began[k]
      BY <1>3, <2>1, <2>2
    <3>2. /\ told[k] \in Seq(CredManagement!EntriesOf(k)) /\ Len(told[k]) = i + 1
          /\ \A n \in 1 .. Len(told[k]) : told[k][n] = items[n]
          /\ CredManagement!IsInjective(items)
          /\ began[k].set = CredManagement!Range(items) /\ began[k].at = resets
      BY <1>1, <1>3 DEF CmCursor
    <3> HIDE DEF items, i
    <3>3. i + 1 \in 0 .. Len(items) - 1 /\ i + 2 \in 1 .. Len(items)
      BY <1>4, <1>6
    <3>4. items[i + 2] \in CredManagement!EntriesOf(k)
      BY <1>4, <3>3
    <3>5. /\ told'[k] \in Seq(CredManagement!EntriesOf(k)) /\ Len(told'[k]) = i + 2
          /\ \A n \in 1 .. Len(told'[k]) : told'[k][n] = items[n]
      BY <1>4, <3>1, <3>2, <3>4
    <3> QED
      BY <1>1, <1>4, <3>1, <3>2, <3>3, <3>5 DEF CmCursor
  <2>6. ASSUME NEW l \in CredManagement!Cursors, l # k PROVE CmCursor(l)'
    <3>1. cursors'[l] = cursors[l] /\ told'[l] = told[l] /\ began'[l] = began[l]
      BY <1>3, <2>1, <2>2, <2>6
    <3> QED
      BY <1>1, <1>3, <3>1 DEF CmCursor
  <2> QED
    BY <1>2, <2>4, <2>5, <2>6 DEF CmCursors
<1> QED
  BY <1>5, <1>6

LEMMA CmCursorsKept ==
  ASSUME CmCursors, UNCHANGED <<cursors, told, began, resets>>
  PROVE  CmCursors'
BY DEF CmCursors, CmCursor

LEMMA CmCursorsClosed ==
  ASSUME cursors' = CredManagement!Closed, told' = CredManagement!Untold,
         began' = CredManagement!NotBegun
  PROVE  CmCursors'
BY DEF CmCursors, CmCursor, CredManagement!Closed, CredManagement!Untold, CredManagement!NotBegun

\* The commands that write or delete a record: a name in RAM or in the backend is the
\* last one acknowledged, or was refused since.
LEMMA CmWrites ==
  ASSUME CmInv,
         \/ CredManagement!make_credential
         \/ \E c \in CredManagement!Creds :
               \/ CredManagement!get_assertion(c) \/ CredManagement!ClearKey(c)
               \/ CredManagement!handle_cred_mgmt_delete_credential(c)
               \/ \E name \in Names : CredManagement!handle_cred_mgmt_update_user(c, name)
  PROVE  CmInv'
<1> USE DEF CmInv, CmData, CredManagement!AckedNameKept
<1>0. /\ MaxManaged \in Nat /\ MaxFaults \in Nat /\ FirstName \in Names
      /\ CredManagement!Creds = 1 .. MaxManaged
  BY Constants DEF Constants, CredManagement!ConstantsOK, CredManagement!Creds
<1>1. CASE CredManagement!make_credential
  <2>1. /\ drawn' = drawn + 1 /\ drawn < MaxManaged
        /\ disk' = [disk EXCEPT ![drawn'] = FirstName]
        /\ credentials' = [credentials EXCEPT ![drawn'] = FirstName]
        /\ acked' = [acked EXCEPT ![drawn'] = FirstName]
        /\ UNCHANGED <<cursors, token, pc, left, told, began, refused, resets, faults>>
    BY <1>1 DEF CredManagement!make_credential, CredManagement!ghosts
  <2>2. drawn' \in 0 .. MaxManaged /\ drawn' \in CredManagement!Creds
    BY <1>0, <2>1
  <2>3. CmData'
    BY <1>0, <2>1, <2>2
  <2> QED
    BY <2>1, <2>3, CmCursorsKept
<1>2. ASSUME NEW c \in CredManagement!Creds, CredManagement!get_assertion(c) PROVE CmInv'
  <2>1. /\ disk' = [disk EXCEPT ![c] = credentials[c]]
        /\ UNCHANGED <<credentials, cursors, token, pc, left, drawn, told, began, acked, refused,
                       resets, faults>>
    BY <1>2 DEF CredManagement!get_assertion, CredManagement!ghosts
  <2>2. CmData'
    BY <2>1
  <2> QED
    BY <2>1, <2>2, CmCursorsKept
<1>3. ASSUME NEW c \in CredManagement!Creds,
             CredManagement!ClearKey(c) \/ CredManagement!handle_cred_mgmt_delete_credential(c)
      PROVE  CmInv'
  <2>1. /\ credentials' \in {credentials, [credentials EXCEPT ![c] = Absent]}
        /\ disk' \in {disk, [disk EXCEPT ![c] = Absent]} /\ left' \subseteq left
        /\ faults' = faults \/ (faults < MaxFaults /\ faults' = faults + 1)
        /\ UNCHANGED <<cursors, token, pc, drawn, told, began, acked, refused, resets>>
    BY <1>3 DEF CredManagement!ClearKey, CredManagement!handle_cred_mgmt_delete_credential,
       CredManagement!ghosts, CredManagement!Fault
  <2>2. faults' \in 0 .. MaxFaults /\ left' \subseteq CredManagement!Creds
    BY <1>0, <2>1
  <2>3. CmData'
    BY <2>1, <2>2
  <2> QED
    BY <2>1, <2>3, CmCursorsKept
<1>4. ASSUME NEW c \in CredManagement!Creds, NEW name \in Names,
             CredManagement!handle_cred_mgmt_update_user(c, name)
      PROVE  CmInv'
  <2>1. /\ credentials' = [credentials EXCEPT ![c] = name]
        /\ \/ /\ disk' = [disk EXCEPT ![c] = name]
              /\ acked' = [acked EXCEPT ![c] = name] /\ refused' = [refused EXCEPT ![c] = {}]
              /\ faults' = faults
           \/ /\ faults < MaxFaults /\ faults' = faults + 1
              /\ refused' = [refused EXCEPT ![c] = @ \cup {name}]
              /\ disk' = disk /\ acked' = acked
        /\ UNCHANGED <<cursors, token, pc, left, drawn, told, began, resets>>
    BY <1>4 DEF CredManagement!handle_cred_mgmt_update_user, CredManagement!ghosts,
       CredManagement!Fault
  <2>2. faults' \in 0 .. MaxFaults
    BY <1>0, <2>1
  <2>3. CmData'
    BY <2>1, <2>2
  <2> QED
    BY <2>1, <2>3, CmCursorsKept
<1> QED
  BY <1>1, <1>2, <1>3, <1>4

\* The other commands leave the records alone, or take what the backend has.
LEMMA CmOthers ==
  ASSUME CmInv,
         \/ CredManagement!IssueToken \/ CredManagement!handle_reset \/ CredManagement!FinishReset
         \/ CredManagement!PowerLoss \/ CredManagement!load_from_backend
  PROVE  CmInv'
<1> USE DEF CmInv, CmData, CredManagement!AckedNameKept
<1>1. CASE CredManagement!IssueToken
  <2>1. CmData'
    BY <1>1 DEF CredManagement!IssueToken
  <2> QED
    BY <1>1, <2>1, CmCursorsKept DEF CredManagement!IssueToken, CredManagement!ghosts
<1>2. CASE CredManagement!handle_reset
  <2>1. CmData'
    BY <1>2 DEF CredManagement!handle_reset
  <2> QED
    BY <1>2, <2>1, CmCursorsKept DEF CredManagement!handle_reset, CredManagement!ghosts
<1>3. CASE CredManagement!FinishReset
  <2>1. pc = "clear" /\ resets' = resets + 1
    BY <1>3 DEF CredManagement!FinishReset
  <2>2. resets' \in 0 .. MaxResets
    <3>1. MaxResets \in Nat
      BY Constants DEF Constants, CredManagement!ConstantsOK
    <3> QED
      BY <2>1, <3>1
  <2>3. CmData'
    BY <1>3, <2>2 DEF CredManagement!FinishReset, CredManagement!NoRecords
  <2> QED
    BY <1>3, <2>3, CmCursorsClosed DEF CredManagement!FinishReset
<1>4. CASE CredManagement!PowerLoss
  <2>1. CmData'
    BY <1>4 DEF CredManagement!PowerLoss, CredManagement!NoRecords
  <2> QED
    BY <1>4, <2>1, CmCursorsClosed DEF CredManagement!PowerLoss
<1>5. CASE CredManagement!load_from_backend
  <2>1. CmData'
    BY <1>5 DEF CredManagement!load_from_backend
  <2> QED
    BY <1>5, <2>1, CmCursorsKept DEF CredManagement!load_from_backend, CredManagement!ghosts
<1> QED
  BY <1>1, <1>2, <1>3, <1>4, <1>5

LEMMA CmStep == CmInv /\ [CredManagement!Next]_(CredManagement!vars) => CmInv'
<1> SUFFICES ASSUME CmInv, [CredManagement!Next]_(CredManagement!vars) PROVE CmInv'
  OBVIOUS
<1>1. CASE UNCHANGED CredManagement!vars
  <2>1. UNCHANGED <<disk, credentials, cursors, token, pc, left, drawn, told, began, acked, refused,
                    resets, faults>>
    BY <1>1 DEF CredManagement!vars
  <2>2. CmData'
    BY <2>1 DEF CmInv, CmData, CredManagement!AckedNameKept
  <2> QED
    BY <2>1, <2>2, CmCursorsKept DEF CmInv
<1>2. ASSUME NEW k \in {"rps", "cm_rps"}, CredManagement!Begin(k, CredManagement!enumerate_rps)
      PROVE  CmInv'
  BY <1>2, RpsOnce, CmBegin DEF CredManagement!Cursors, CredManagement!EntriesOf
<1>3. ASSUME NEW rp \in Rps, CredManagement!Begin("cm_creds", CredManagement!find_credentials_by_rp_hash(rp))
      PROVE  CmInv'
  <2> DEFINE S == {c \in CredManagement!Resident : RpOf[c] = rp}
  <2>1. S \in SUBSET CredManagement!Creds
    BY DEF CredManagement!Resident
  <2> HIDE DEF S
  <2>2. /\ CredManagement!InOrder(S) \in Seq(CredManagement!Creds)
        /\ CredManagement!IsInjective(CredManagement!InOrder(S))
    BY <2>1, InOrderOnce
  <2>3. CredManagement!find_credentials_by_rp_hash(rp) = CredManagement!InOrder(S)
    BY DEF CredManagement!find_credentials_by_rp_hash, S
  <2> QED
    BY <1>3, <2>2, <2>3, CmBegin DEF CredManagement!Cursors, CredManagement!EntriesOf
<1>4. ASSUME NEW k \in CredManagement!Cursors, CredManagement!GetNext(k) PROVE CmInv'
  BY <1>4, CmNext
<1>5. CASE \/ CredManagement!handle_enumerate_rps_initial \/ CredManagement!handle_enumerate_rps_next
  BY <1>2, <1>4, <1>5
  DEF CredManagement!handle_enumerate_rps_initial, CredManagement!handle_enumerate_rps_next,
      CredManagement!Cursors
<1>6. CASE CredManagement!handle_credential_management
  BY <1>2, <1>3, <1>4, <1>6, CmWrites
  DEF CredManagement!handle_credential_management, CredManagement!Cursors,
      CredManagement!handle_cred_mgmt_enumerate_rps_begin,
      CredManagement!handle_cred_mgmt_enumerate_rps_next,
      CredManagement!handle_cred_mgmt_enumerate_creds_begin,
      CredManagement!handle_cred_mgmt_enumerate_creds_next
<1>7. CASE CredManagement!Next
  BY <1>5, <1>6, <1>7, CmWrites, CmOthers DEF CredManagement!Next
<1> QED
  BY <1>1, <1>7

\* An enumeration that ends by itself was at its last entry, with all of them told.
LEMMA CmEnds == CmInv /\ [CredManagement!Next]_(CredManagement!vars) => CredManagement!EndsComplete
<1> SUFFICES ASSUME CmInv, [CredManagement!Next]_(CredManagement!vars),
                    NEW k \in CredManagement!Cursors,
                    cursors[k] # None, cursors'[k] = None, pc = "idle", pc' = "idle"
             PROVE  CredManagement!Range(told[k]) = began[k].set /\ CredManagement!IsInjective(told[k])
  BY DEF CredManagement!EndsComplete
<1>0. /\ cursors \in [CredManagement!Cursors -> CredManagement!CursorStates \cup {None}]
      /\ CmCursor(k)
  BY DEF CmInv, CmCursors
\* Only its own GetNext closes a cursor of a device that stays idle.
<1>1. CredManagement!GetNext(k)
  <2>1. ASSUME NEW l \in CredManagement!Cursors, CredManagement!GetNext(l), l # k PROVE FALSE
    <3>1. cursors'[k] = cursors[k]
      BY <1>0, <2>1 DEF CredManagement!GetNext
    <3> QED
      BY <3>1
  <2>2. ASSUME NEW l \in CredManagement!Cursors, NEW items \in Seq(Rps \cup CredManagement!Creds),
               CredManagement!Begin(l, items)
        PROVE  FALSE
    <3>1. cursors' = [cursors EXCEPT ![l] = [items |-> items, current_index |-> 0]]
      BY <2>2 DEF CredManagement!Begin
    <3>2. [items |-> items, current_index |-> 0] \in CredManagement!CursorStates
      BY DEF CredManagement!CursorStates
    <3>3. None \notin CredManagement!CursorStates
      BY Constants DEF Constants, CredManagement!ConstantsOK
    <3>4. cursors'[k] = cursors[k] \/ cursors'[k] = [items |-> items, current_index |-> 0]
      BY <1>0, <3>1
    <3> QED
      BY <3>2, <3>3, <3>4
  <2>3. ASSUME UNCHANGED cursors PROVE FALSE
    BY <2>3
  <2>4. CredManagement!enumerate_rps \in Seq(Rps \cup CredManagement!Creds)
    BY RpsOnce
  <2>5. ASSUME NEW rp
        PROVE  CredManagement!find_credentials_by_rp_hash(rp) \in Seq(Rps \cup CredManagement!Creds)
    <3> DEFINE S == {c \in CredManagement!Resident : RpOf[c] = rp}
    <3>1. S \in SUBSET CredManagement!Creds
      BY DEF CredManagement!Resident
    <3> HIDE DEF S
    <3>2. CredManagement!InOrder(S) \in Seq(Rps \cup CredManagement!Creds)
      BY <3>1, InOrderOnce
    <3> QED
      BY <3>2 DEF CredManagement!find_credentials_by_rp_hash, S
  <2>6. CASE CredManagement!handle_credential_management
    BY <2>1, <2>2, <2>3, <2>4, <2>5, <2>6
    DEF CredManagement!handle_credential_management, CredManagement!Cursors,
        CredManagement!handle_cred_mgmt_enumerate_rps_begin,
        CredManagement!handle_cred_mgmt_enumerate_rps_next,
        CredManagement!handle_cred_mgmt_enumerate_creds_begin,
        CredManagement!handle_cred_mgmt_enumerate_creds_next,
        CredManagement!handle_cred_mgmt_delete_credential,
        CredManagement!handle_cred_mgmt_update_user
  <2>7. CASE CredManagement!handle_enumerate_rps_initial \/ CredManagement!handle_enumerate_rps_next
    BY <2>1, <2>2, <2>4, <2>7
    DEF CredManagement!handle_enumerate_rps_initial, CredManagement!handle_enumerate_rps_next,
        CredManagement!Cursors
  <2>8. ASSUME \/ CredManagement!make_credential
               \/ \E c \in CredManagement!Creds :
                     CredManagement!get_assertion(c) \/ CredManagement!ClearKey(c)
               \/ CredManagement!IssueToken \/ CredManagement!handle_reset
               \/ CredManagement!FinishReset \/ CredManagement!PowerLoss
               \/ CredManagement!load_from_backend \/ UNCHANGED CredManagement!vars
        PROVE  FALSE
    BY <2>3, <2>8
    DEF CredManagement!make_credential, CredManagement!get_assertion, CredManagement!ClearKey,
        CredManagement!IssueToken, CredManagement!handle_reset, CredManagement!FinishReset,
        CredManagement!PowerLoss, CredManagement!load_from_backend, CredManagement!vars
  <2> QED
    BY <2>6, <2>7, <2>8 DEF CredManagement!Next
<1> DEFINE items == cursors[k].items
<1> DEFINE i == cursors[k].current_index
<1>2. /\ items \in Seq(CredManagement!EntriesOf(k)) /\ i \in 0 .. Len(items) - 1
      /\ CredManagement!IsInjective(items)
      /\ told[k] \in Seq(CredManagement!EntriesOf(k)) /\ Len(told[k]) = i + 1
      /\ \A n \in 1 .. Len(told[k]) : told[k][n] = items[n]
      /\ began[k].set = CredManagement!Range(items)
  BY <1>0 DEF CmCursor
<1>3. i + 1 >= Len(items)
  <2>1. ASSUME ~(i + 1 >= Len(items)) PROVE FALSE
    <3>1. cursors' = [cursors EXCEPT ![k].current_index = i + 1]
      BY <1>1, <2>1 DEF CredManagement!GetNext
    <3>2. cursors[k] \in CredManagement!CursorStates
      BY <1>0
    <3>3. cursors'[k] = [cursors[k] EXCEPT !.current_index = i + 1] /\ i + 1 \in Nat
      BY <1>0, <1>2, <3>1
    <3>4. cursors'[k] \in CredManagement!CursorStates
      BY <3>2, <3>3 DEF CredManagement!CursorStates
    <3> QED
      BY <3>4, Constants DEF Constants, CredManagement!ConstantsOK
  <2> QED
    BY <2>1
<1>4. told[k] = items
  <2> HIDE DEF items, i
  <2>1. Len(items) \in Nat /\ Len(told[k]) = Len(items)
    BY <1>2, <1>3
  <2> QED
    BY <1>2, <2>1
<1> QED
  BY <1>2, <1>4

----------------------------------------------------------------------------
(* The properties of the run *)

LEMMA ManageInduction == Spec => []ManageInv
<1>1. Init => ManageInv
  <2>1. CASE part = "registration" /\ Registration!Init
    BY <2>1, RegInit DEF ManageInv
  <2>2. CASE part = "management" /\ CredManagement!Init
    BY <2>2, CmInit DEF ManageInv
  <2> QED
    BY <2>1, <2>2 DEF Init
<1>2. ManageInv /\ [Next]_vars => ManageInv'
  BY PartSteps, RegStep, CmStep DEF ManageInv
<1> QED
  BY <1>1, <1>2, PTL DEF Spec

\* A credential whose response was sent is in the backend with its algorithm until a
\* Reset, over losses of power and failed registrations, and each permission is worth
\* one enterprise statement (make_credential, consume_ep_pending).
THEOREM RegistrationsStored == Spec => []RegisteredIsStored
<1>1. ManageInv => RegisteredIsStored
  <2> SUFFICES ASSUME ManageInv, part = "registration"
               PROVE  /\ Registration!TypeOK /\ Registration!RegisteredIsStored
                      /\ Registration!EnterpriseOnce
    BY DEF RegisteredIsStored
  <2>1. RegInv /\ given \in Nat /\ enables \in Nat
    BY DEF ManageInv, RegInv, RegTypes, Registration!TypeOK
  <2>2. Registration!EnterpriseOnce
    BY <2>1 DEF RegInv, RegPermissions, Registration!EnterpriseOnce
  <2> QED
    BY <2>1, <2>2 DEF RegInv, RegTypes
<1> QED
  BY <1>1, ManageInduction, PTL

\* UV is claimed only by a command that showed a token for its relying party, and
\* alwaysUv is honoured unless a Reset was cut short between the PIN and the setting
\* (make_credential, is_always_uv).
THEOREM UvIsHonest == Spec => []UvHonest
<1>1. ManageInv => UvHonest
  <2> SUFFICES ASSUME ManageInv, part = "registration"
               PROVE  Registration!UvFlagHonest /\ Registration!AlwaysUvHonoured
    BY DEF UvHonest
  <2>1. RegInv
    BY DEF ManageInv
  <2>2. None \notin Rps \cup {Registration!Unbound}
    BY Constants DEF Constants, Registration!ConstantsOK
  <2>3. Registration!UvFlagHonest
    BY <2>1, <2>2 DEF RegInv, RegDue, RegPin, Registration!UvFlagHonest
  <2> QED
    BY <2>1, <2>3 DEF RegInv
<1> QED
  BY <1>1, ManageInduction, PTL

\* A credential has the name last acknowledged for it, or one refused since, in RAM and
\* after a restart (update_user_info).
THEOREM NamesKept == Spec => []AckedNameKept
<1>1. ManageInv => AckedNameKept
  BY DEF ManageInv, CmInv, CmData, AckedNameKept
<1> QED
  BY <1>1, ManageInduction, PTL

\* An enumeration that ends by itself told every entry it began with, once, whatever ran
\* in between, and no cursor outlives a Reset (the three cursors, handle_reset).
THEOREM EnumerationsComplete == Spec => EnumerationSound
<1>1. ManageInv => (part = "management" => CredManagement!TypeOK /\ CredManagement!CursorOfThisLife)
  <2> SUFFICES ASSUME CmInv PROVE CredManagement!TypeOK /\ CredManagement!CursorOfThisLife
    BY DEF ManageInv
  <2>1. CredManagement!CursorOfThisLife
    BY DEF CmInv, CmCursors, CmCursor, CredManagement!CursorOfThisLife
  <2>2. CredManagement!TypeOK
    BY DEF CmInv, CmData, CmCursors, CmCursor, CredManagement!TypeOK
  <2> QED
    BY <2>1, <2>2
<1>2. ManageInv /\ [Next]_vars => (part = "management" => CredManagement!EndsComplete)
  BY PartSteps, CmEnds DEF ManageInv
<1> QED
  BY <1>1, <1>2, ManageInduction, PTL DEF Spec, EnumerationSound
=============================================================================
