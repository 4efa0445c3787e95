----------------------------- MODULE MCFirmware -----------------------------
(***************************************************************************)
(* The RP2350 firmware: its start, its CTAPHID channels, and the wait for  *)
(* a touch.  The part is chosen at the start, lives in the variables it    *)
(* has in its module, and leaves the others alone.                         *)
(***************************************************************************)
EXTENDS Naturals, Sequences, TLC

CONSTANTS None,
          Applets, IdWords, RollsBack, Width, Gamma, MaxBoots, MaxChanges,      \* Firmware
          Clients, CidCount, FirstCid, MaxPackets, MaxPolls, Lengths, MaxReply,
          MaxRequests,                                                          \* CtapHid
          Window                                                                \* Presence

\* OATH draws a salt of two words and Management a serial.
MCApplets == <<"oath", "management">>
MCIdWords == [oath |-> 2, management |-> 1]

VARIABLES part, disk, pc, loaded, boots, rng, key, state, changes, credentials, told,
          seals, seeds, repeated, ep_out, out_buf, active_state, next_cid, active_channels,
          tx, polls, client, assembled, overrun, round, gpio25, ws2812, cs, pressed,
          sample, confirmed, blinks, down, steady, missed

vars == <<part, disk, pc, loaded, boots, rng, key, state, changes, credentials, told,
          seals, seeds, repeated, ep_out, out_buf, active_state, next_cid, active_channels,
          tx, polls, client, assembled, overrun, round, gpio25, ws2812, cs, pressed,
          sample, confirmed, blinks, down, steady, missed>>

Firmware == INSTANCE Firmware
CtapHid == INSTANCE CtapHid
Presence == INSTANCE Presence

ASSUME Constants == /\ Firmware!ConstantsOK /\ CtapHid!ConstantsOK
                    /\ Presence!ConstantsOK

Init ==
    \/ /\ part = "firmware" /\ Firmware!Init
       /\ ep_out = None /\ out_buf = None /\ active_state = None /\ next_cid = None
       /\ active_channels = None /\ tx = None /\ polls = None /\ client = None
       /\ assembled = None /\ overrun = None /\ round = None /\ gpio25 = None
       /\ ws2812 = None /\ cs = None /\ pressed = None /\ sample = None /\ confirmed = None
       /\ blinks = None /\ down = None /\ steady = None /\ missed = None
    \/ /\ part = "hid" /\ CtapHid!Init
       /\ disk = None /\ pc = None /\ loaded = None /\ boots = None /\ rng = None
       /\ key = None /\ state = None /\ changes = None /\ credentials = None /\ told = None
       /\ seals = None /\ seeds = None /\ repeated = None /\ round = None /\ gpio25 = None
       /\ ws2812 = None /\ cs = None /\ pressed = None /\ sample = None /\ confirmed = None
       /\ blinks = None /\ down = None /\ steady = None /\ missed = None
    \/ /\ part = "presence" /\ Presence!Init
       /\ disk = None /\ loaded = None /\ boots = None /\ rng = None /\ key = None
       /\ state = None /\ changes = None /\ credentials = None /\ told = None
       /\ seals = None /\ seeds = None /\ repeated = None /\ ep_out = None
       /\ out_buf = None /\ active_state = None /\ next_cid = None
       /\ active_channels = None /\ tx = None /\ polls = None /\ client = None
       /\ assembled = None /\ overrun = None

Next ==
    \/ /\ part = "firmware" /\ Firmware!Next
       /\ UNCHANGED <<part, ep_out, out_buf, active_state, next_cid, active_channels, tx,
                       polls, client, assembled, overrun, round, gpio25, ws2812, cs,
                       pressed, sample, confirmed, blinks, down, steady, missed>>
    \/ /\ part = "hid" /\ CtapHid!Next
       /\ UNCHANGED <<part, disk, pc, loaded, boots, rng, key, state, changes,
                       credentials, told, seals, seeds, repeated, round, gpio25, ws2812,
                       cs, pressed, sample, confirmed, blinks, down, steady, missed>>
    \/ /\ part = "presence" /\ Presence!Next
       /\ UNCHANGED <<part, disk, loaded, boots, rng, key, state, changes, credentials,
                       told, seals, seeds, repeated, ep_out, out_buf, active_state,
                       next_cid, active_channels, tx, polls, client, assembled, overrun>>

\* is_present and send_hid_packets run on their own once called.
Fairness ==
    /\ WF_vars(/\ part = "presence" /\ Presence!is_present
               /\ UNCHANGED <<part, disk, loaded, boots, rng, key, state, changes, credentials,
                             told, seals, seeds, repeated, ep_out, out_buf, active_state,
                             next_cid, active_channels, tx, polls, client, assembled, overrun>>)
    /\ WF_vars(/\ part = "hid" /\ CtapHid!send_hid_packets
               /\ UNCHANGED <<part, disk, pc, loaded, boots, rng, key, state, changes,
                             credentials, told, seals, seeds, repeated, round, gpio25, ws2812,
                             cs, pressed, sample, confirmed, blinks, down, steady, missed>>)

Spec == Init /\ [][Next]_vars /\ Fairness
FirmwareSpec == (Init /\ part = "firmware") /\ [][Next]_vars

----------------------------------------------------------------------------
(* The properties of each part's module, of the part that runs. *)

\* Firmware: no nonce seals two records under one master key (entropy_fill,
\* encrypt_with_random_nonce), and every applet starts with the state its host was told
\* last or a new one, never an older one (ensure_loaded).
BootSound ==
    part = "firmware" => Firmware!TypeOK /\ Firmware!NonceOnce /\ Firmware!LastOrNew
\* Firmware: what an applet acknowledged survives a power cycle ("serial do Management e
\* estado OATH vivem no mesmo kv e sobrevivem a power cycles", main).
SurvivesPowerCycle == part = "firmware" => Firmware!SurvivesPowerCycle

\* CTAPHID: a message is made of the packets of one program (CtaphidAssembler), and no
\* two programs work on one channel (ChannelManager::allocate_cid).
ChannelsKept ==
    part = "hid" => /\ CtapHid!TypeOK /\ CtapHid!MessagesIntact /\ CtapHid!NoSharedChannel

\* Presence: a touch held through a round is seen (is_present), and the lamps are dark
\* and the flash selected on return (read_bootsel_button, set_presence_led).
TouchSeen ==
    part = "presence" => Presence!TypeOK /\ Presence!HeldTouchSeen /\ Presence!CleanReturn

\* The loops that wait for someone outside end: every CTAPHID reply is sent or given up
\* (send_hid_packets), and so is the wait for a touch (timeout_iterations).
LoopsEnd ==
    /\ (part = "hid" /\ tx # <<>>) ~> (tx = <<>>)
    /\ (part = "presence" /\ pc # "idle") ~> (pc = "idle")
=============================================================================
