----------------------------- MODULE MCApplets -----------------------------
(***************************************************************************)
(* The four applets of the card.  Each keeps its own record and shares     *)
(* nothing with the others but the router, which runs one at a time, so    *)
(* one run checks all of them: the applet is chosen at the start, lives in *)
(* the variables it has in its module, and leaves the others alone.        *)
(***************************************************************************)
EXTENDS Naturals, Sequences, TLC

CONSTANTS None, Bare, MaxRetries,
          Pins, DefaultPin, PivSlots, AuthSlot, PivKeys,            \* Piv
          Passwords, DefaultPw1, DefaultPw3, PgpKeys,               \* OpenPgp
          Names, NameLen, MaxNameLen, AccessKeys, MaxCredentials,
          MaxCounter, MaxSecrets, MaxChallenges,                    \* Oath
          Caps, Supported, Modes, Locks, Zero, MaxSerial, Timings,
          Absent, Malformed,                                        \* Management
          a, b, empty, otp, ccid, fido      \* names and capabilities of the instance

\* The third name has length 0.
MCNameLen == a :> 1 @@ b :> 2 @@ empty :> 0
MCModes == <<{otp}, {ccid}, {otp, ccid}, {fido}>>

VARIABLES applet, disk, state, pc, req, reply, used, wrong, failed,
          verified, pw1_verified, given,
          validated, selected, issued, macs, proved, intruded, codes, repeats,
          factory, shown, lost

pivVars == <<disk, state, verified, pc, req, reply, used, wrong, failed>>
pgpVars == <<disk, state, pw1_verified, pc, req, reply, used, wrong, given, failed>>
oathVars == <<disk, state, validated, selected, pc, req, used, issued,
              macs, proved, intruded, codes, repeats>>
mgmtVars == <<disk, state, pc, factory, shown, lost>>
vars == <<applet, pivVars, pgpVars, oathVars, mgmtVars>>

Piv == INSTANCE Piv WITH Slots <- PivSlots, MaxKeys <- PivKeys
OpenPgp == INSTANCE OpenPgp WITH MaxKeys <- PgpKeys
Oath == INSTANCE Oath
Management == INSTANCE Management

ASSUME Constants == /\ Piv!ConstantsOK /\ OpenPgp!ConstantsOK
                    /\ Oath!ConstantsOK /\ Management!ConstantsOK

Init ==
    \/ /\ applet = "piv" /\ Piv!Init
       /\ pw1_verified = None /\ given = None /\ validated = None /\ selected = None
       /\ issued = None /\ macs = None /\ proved = None /\ intruded = None /\ codes = None
       /\ repeats = None /\ factory = None /\ shown = None /\ lost = None
    \/ /\ applet = "openpgp" /\ OpenPgp!Init
       /\ verified = None /\ validated = None /\ selected = None
       /\ issued = None /\ macs = None /\ proved = None /\ intruded = None /\ codes = None
       /\ repeats = None /\ factory = None /\ shown = None /\ lost = None
    \/ /\ applet = "oath" /\ Oath!Init
       /\ verified = None /\ pw1_verified = None /\ given = None /\ reply = None
       /\ wrong = None /\ failed = None /\ factory = None /\ shown = None /\ lost = None
    \/ /\ applet = "management" /\ Management!Init
       /\ verified = None /\ pw1_verified = None /\ given = None /\ reply = None /\ req = None
       /\ wrong = None /\ failed = None /\ used = None /\ validated = None /\ selected = None
       /\ issued = None /\ macs = None /\ proved = None /\ intruded = None /\ codes = None
       /\ repeats = None

Next ==
    \/ /\ applet = "piv" /\ Piv!Next
       /\ UNCHANGED <<applet, pw1_verified, given, validated, selected, issued, macs, proved,
                      intruded, codes, repeats, factory, shown, lost>>
    \/ /\ applet = "openpgp" /\ OpenPgp!Next
       /\ UNCHANGED <<applet, verified, validated, selected, issued, macs, proved,
                      intruded, codes, repeats, factory, shown, lost>>
    \/ /\ applet = "oath" /\ Oath!Next
       /\ UNCHANGED <<applet, reply, wrong, failed, verified, pw1_verified, given,
                      factory, shown, lost>>
    \/ /\ applet = "management" /\ Management!Next
       /\ UNCHANGED <<applet, req, reply, used, wrong, failed, verified, pw1_verified, given,
                      validated, selected, issued, macs, proved, intruded, codes, repeats>>

Spec == Init /\ [][Next]_vars

----------------------------------------------------------------------------
(* The properties of each applet's module, of the applet that runs. *)

\* PIV: failed comparisons with the PIN are paid for with attempts, and a blocked PIN
\* leaves no verified session (consume_retry); keys and certificates a host was shown are
\* in the record (rollback); a certificate stands only beside its key (cmd_generate).
PivSafe ==
    applet = "piv" => /\ Piv!TypeOK /\ Piv!AttemptsTaken /\ Piv!BlockedEndsSession
                      /\ Piv!AnsweredIsStored /\ Piv!CertificateFollowsKey

\* OpenPGP: each password's failed comparisons are paid for with its attempts, and a
\* signature session needs PW1 itself (cmd_verify); the key a host was shown is in the
\* record (rollback of cmd_generate).
OpenPgpSafe ==
    applet = "openpgp" => /\ OpenPgp!TypeOK /\ OpenPgp!PasswordAttempts
                          /\ OpenPgp!SessionNeedsPw1 /\ OpenPgp!SignerIsStored

\* PIV and OpenPGP: a stored key is lost only to a GENERATE on its slot, or with a record
\* that cannot be read.
KeyLostOnlyToGenerate ==
    [][/\ applet = "piv" => Piv!KeyLoss
       /\ applet = "openpgp" => OpenPgp!SignerLoss]_vars

\* OATH: no HOTP code is handed out twice below the largest factor (cmd_calculate); only
\* a holder of the access code opens a session (select, cmd_validate), and the code
\* changes only in one (cmd_set_code); what is written can be read back (parse_state).
OathSafe ==
    applet = "oath" => /\ Oath!TypeOK /\ Oath!HotpCodeOnce /\ Oath!ValidatedByHolder
                       /\ Oath!CodeChangedByHolder /\ Oath!RecordReadable

\* Management: the serial a host was told is stable (ensure_loaded), only supported
\* capabilities are enabled (cmd_write_config, cmd_set_mode), and what is written can be
\* read back (parse_state).
ManagementSafe ==
    /\ [](applet = "management" => /\ Management!TypeOK /\ Management!RecordReadable
                                   /\ Management!EnabledAreSupported)
    /\ [][applet = "management" => Management!SerialChange]_vars

\* Management: SET MODE never stops the firmware.
NeverPanics == applet = "management" => Management!NeverPanics
=============================================================================
