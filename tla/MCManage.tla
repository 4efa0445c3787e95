----------------------------- MODULE MCManage -----------------------------
(***************************************************************************)
(* Registrations and credential management.  The part is chosen at the     *)
(* start, lives in the variables it has in its module, and leaves the      *)
(* others alone.                                                           *)
(***************************************************************************)
EXTENDS Integers, Sequences, TLC

CONSTANTS None, Absent, Rps, MaxResets,
          MaxRegistered, Supported, Requested, CertKeys, MaxEnables,    \* Registration
          MaxManaged, RpOf, Names, FirstName, MaxFaults,                \* CredManagement
          r1, r2            \* relying parties of the instance

\* EdDSA and ES256 are generated and RS256 is not; attestation keys are EdDSA keys.
MCSupported == {-7, -8}
MCRequested == {<<>>, <<-257, -7>>}
MCCertKeys == {-8}
MCRpOf == <<r1, r2, r1>>

VARIABLES part, kv, creds, kv_store, credentials, token, attestation, pc, req, left,
          response, drawn, answered, enables, given, faulty, torn, resets, disk, cursors,
          told, began, acked, refused, faults

vars == <<part, kv, creds, kv_store, credentials, token, attestation, pc, req, left,
          response, drawn, answered, enables, given, faulty, torn, resets, disk, cursors,
          told, began, acked, refused, faults>>

Registration == INSTANCE Registration WITH MaxCreds <- MaxRegistered
CredManagement == INSTANCE CredManagement WITH MaxCreds <- MaxManaged
ASSUME Constants == Registration!ConstantsOK /\ CredManagement!ConstantsOK

Init ==
    \/ /\ part = "registration" /\ Registration!Init
       /\ disk = None /\ cursors = None /\ told = None /\ began = None /\ acked = None
       /\ refused = None /\ faults = None
    \/ /\ part = "management" /\ CredManagement!Init
       /\ kv = None /\ creds = None /\ kv_store = None /\ attestation = None /\ req = None
       /\ response = None /\ answered = None /\ enables = None /\ given = None
       /\ faulty = None /\ torn = None

Next ==
    \/ /\ part = "registration" /\ Registration!Next
       /\ UNCHANGED <<part, disk, cursors, told, began, acked, refused, faults>>
    \/ /\ part = "management" /\ CredManagement!Next
       /\ UNCHANGED <<part, kv, creds, kv_store, attestation, req, response, answered,
                       enables, given, faulty, torn>>

Spec == Init /\ [][Next]_vars

----------------------------------------------------------------------------
(* The properties of each part's module, of the part that runs. *)

\* MakeCredential: an answered credential is stored until a Reset (store_credential),
\* and one enterprise statement goes out for each permission (consume_ep_pending).
RegisteredIsStored ==
    part = "registration" => /\ Registration!TypeOK /\ Registration!RegisteredIsStored
                             /\ Registration!EnterpriseOnce
\* MakeCredential: UV is claimed only for a verification, and alwaysUv holds unless a
\* Reset was cut short (make_credential, is_always_uv).
UvHonest ==
    part = "registration" => Registration!UvFlagHonest /\ Registration!AlwaysUvHonoured

\* Credential management: an enumeration that ends by itself told every entry it began
\* with, once, and no cursor outlives a Reset (the three cursors, handle_reset).
EnumerationSound ==
    /\ [](part = "management" => CredManagement!TypeOK /\ CredManagement!CursorOfThisLife)
    /\ [][part = "management" => CredManagement!EndsComplete]_vars
\* Credential management: no acknowledged name is lost (update_user_info).
AckedNameKept == part = "management" => CredManagement!AckedNameKept
=============================================================================
