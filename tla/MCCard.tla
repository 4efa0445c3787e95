------------------------------- MODULE MCCard -------------------------------
(***************************************************************************)
(* Card with the registered AIDs and small lengths: a packet of 3 bytes, a *)
(* header of 1, messages of at most 8 (in the code 64, 10 and 288), Le up  *)
(* to 4 (256) and a window of 3 (255).                                     *)
(***************************************************************************)
EXTENDS Card

\* register_multiprotocol_applets.
MCApplets ==
    << [name |-> "management", aid |-> <<160, 0, 0, 5, 39, 71, 17, 23>>],
       [name |-> "oath", aid |-> <<160, 0, 0, 5, 39, 33, 1>>],
       [name |-> "piv", aid |-> <<160, 0, 0, 3, 8, 0, 0, 16, 0, 1, 0>>],
       [name |-> "openpgp", aid |-> <<210, 118, 0, 1, 36, 1, 3, 0, 0, 0, 0, 0, 0, 0, 0, 0>>] >>

\* Exact, the vendor prefix two AIDs share, and unknown.
MCAids == { <<160, 0, 0, 5, 39, 33, 1>>, <<160, 0, 0, 5, 39>>, <<7>> }

\* What answers the host's APDU is what that APDU asked for, from the applet the host
\* believes selected (CardRouter::process, send_response).
ApduAnswered == TypeOK /\ AnswersOwnApdu /\ HostKnowsApplet

\* The reply the host waits for is not overwritten, arrives in one piece, and leaves the
\* slot free (queue_response, the CCID IN endpoint).
ReplyIntact == ReplyOnItsWay /\ NoTornReply /\ SlotFrees

\* Every card command is answered and every CTAPHID reply ends, though each is sent from
\* a loop that serves the other (send_hid_packets).
BothEnd == AlwaysAnswered /\ HidEnds
=============================================================================
