------------------------------- MODULE CtapHid -------------------------------
(***************************************************************************)
(* The CTAPHID side of the RP2350 firmware: the one-packet buffer of       *)
(* CtapHidClass, CtaphidAssembler, ChannelManager, the main loop's         *)
(* dispatch and send_hid_packets, under several host programs that share   *)
(* the device without knowing of each other and may give up on a request   *)
(* at any time.                                                            *)
(*                                                                         *)
(* A message is counted in packets: one INIT and, for a long one, CONTs    *)
(* numbered in sequence (128 at most, so the 7-bit sequence never wraps).  *)
(* Payloads are the ghosts that tell which request a packet belongs to.    *)
(***************************************************************************)
EXTENDS Naturals, Sequences, FiniteSets

CONSTANTS Clients,
          CidCount,     \* channel ids are 0 .. CidCount - 1; 2^32 in the code
          FirstCid,     \* 0x00010001 in the code
          MaxPackets,   \* packets of the longest message; 129 in the code
          MaxPolls,     \* attempts to send a packet; 500000 in the code
          Lengths,      \* bound: packets of the requests explored
          MaxReply,     \* bound: packets of a CBOR reply
          MaxRequests,  \* bound: requests of each client
          None

Invalid == 0
Broadcast == CidCount - 1
Cids == 0 .. CidCount - 1
Channels == Cids \ {Invalid, Broadcast}
VARIABLES
    \* the device
    ep_out,             \* the packet in the OUT endpoint: the host is NAKed until it is read
    out_buf,            \* CtapHidClass::out_buf, None unless out_ready
    active_state,       \* CtaphidAssembler
    next_cid, active_channels,      \* ChannelManager
    tx, polls,          \* send_hid_packets: packets left, attempts at the first
    \* the host programs
    client,
    \* ghosts: the packets of the last message handed to dispatch, and whether a
    \* packet was ever overwritten in out_buf
    assembled, overrun

device == <<ep_out, out_buf, active_state, next_cid, active_channels, tx, polls>>
ghosts == <<assembled, overrun>>
vars == <<device, client, ghosts>>

Tags == [from : Clients, number : 1 .. MaxRequests, index : 0 .. MaxPackets]
Commands == {"init", "cbor", "cancel"}
Packets == [cid : Cids, cmd : Commands \cup {"cont"}, total : 1 .. MaxPackets + 1, tag : Tags]
Assemblies == [cid : Cids, cmd : Commands, total : 1 .. MaxPackets, buffer : Seq(Tags)]
Replies == [cid : Cids, cmd : Commands \cup {"error"}, last : BOOLEAN,
            assigned : Channels \cup {None}, tag : Tags]

\* Every request may allocate a channel, and none is ever released.
ConstantsOK ==
    /\ CidCount \in Nat /\ FirstCid \in Channels
    /\ IsFiniteSet(Clients) /\ Cardinality(Clients) * MaxRequests <= CidCount - 2
    /\ MaxPackets \in Nat \ {0} /\ MaxPolls \in Nat \ {0}
    /\ MaxReply \in Nat \ {0} /\ MaxRequests \in Nat
    /\ Lengths \subseteq 1 .. MaxPackets + 1 /\ None \notin Packets

TypeOK ==
    /\ ep_out \in Packets \cup {None} /\ out_buf \in Packets \cup {None}
    /\ active_state \in Assemblies \cup {None}
    /\ active_state # None => Len(active_state.buffer) < active_state.total
    /\ next_cid \in Cids /\ active_channels \in Seq(Channels)
    /\ tx \in Seq(Replies) /\ polls \in 0 .. MaxPolls - 1
    /\ client \in [Clients -> [cid : Channels \cup {Broadcast}, number : 0 .. MaxRequests,
                               cmd : Commands, total : 1 .. MaxPackets + 1,
                               left : 0 .. MaxPackets, waiting : BOOLEAN]]
    /\ assembled \in Seq(Tags) /\ overrun \in BOOLEAN

Init ==
    /\ ep_out = None /\ out_buf = None /\ active_state = None
    /\ next_cid = FirstCid /\ active_channels = <<>>
    /\ tx = <<>> /\ polls = 0
    /\ client = [c \in Clients |-> [cid |-> Broadcast, number |-> 0, cmd |-> "init",
                                    total |-> 1, left |-> 0, waiting |-> FALSE]]
    /\ assembled = <<>> /\ overrun = FALSE

----------------------------------------------------------------------------
(* The host programs *)

\* A new request: INIT on the broadcast channel first, then CBOR or CANCEL on the
\* channel it assigned.  A message announced too long is not continued.
StartRequest(c, cmd, total) ==
    /\ ep_out = None /\ ~client[c].waiting /\ client[c].number < MaxRequests
    /\ cmd = "init" <=> client[c].cid = Broadcast
    /\ cmd \in {"init", "cancel"} => total = 1
    /\ client' = [client EXCEPT ![c].number = @ + 1, ![c].cmd = cmd, ![c].total = total,
                                ![c].left = IF total > MaxPackets THEN 0 ELSE total - 1,
                                ![c].waiting = TRUE]
    /\ ep_out' = [cid |-> client[c].cid, cmd |-> cmd, total |-> total,
                  tag |-> [from |-> c, number |-> client[c].number + 1, index |-> 0]]
    /\ UNCHANGED <<out_buf, active_state, next_cid, active_channels, tx, polls, ghosts>>

SendCont(c) ==
    /\ ep_out = None /\ client[c].waiting /\ client[c].left > 0
    /\ client' = [client EXCEPT ![c].left = @ - 1]
    /\ ep_out' = [cid |-> client[c].cid, cmd |-> "cont", total |-> client[c].total,
                  tag |-> [from |-> c, number |-> client[c].number,
                           index |-> client[c].total - client[c].left]]
    /\ UNCHANGED <<out_buf, active_state, next_cid, active_channels, tx, polls, ghosts>>

\* The program times out.
GiveUp(c) ==
    /\ client[c].waiting
    /\ client' = [client EXCEPT ![c].waiting = FALSE, ![c].left = 0]
    /\ UNCHANGED <<device, ghosts>>

\* A reply reaches the program on its channel, on broadcast by its nonce.
Addressed(c, reply) ==
    /\ client[c].waiting /\ client[c].cid = reply.cid
    /\ reply.cid = Broadcast => reply.tag.from = c /\ reply.tag.number = client[c].number

Received(reply) ==
    [c \in Clients |->
        IF Addressed(c, reply) /\ reply.last
        THEN [client[c] EXCEPT !.waiting = FALSE, !.left = 0,
                               !.cid = IF reply.assigned # None THEN reply.assigned ELSE @]
        ELSE client[c]]

----------------------------------------------------------------------------
(* The device *)

\* allocate_cid: the next id that is neither reserved nor active.
Nth(n) == (next_cid + n) % CidCount
IsFree(cid) == cid \in Channels /\ \A i \in DOMAIN active_channels : active_channels[i] # cid
allocate_cid ==
    LET skipped == CHOOSE n \in 0 .. CidCount - 1 :
                      IsFree(Nth(n)) /\ \A m \in 0 .. n - 1 : ~IsFree(Nth(m))
    IN  Nth(skipped)

Reply(cid, cmd, assigned, tag, n) ==
    [i \in 1 .. n |-> [cid |-> cid, cmd |-> cmd, last |-> i = n, assigned |-> assigned, tag |-> tag]]

Refuse(p) ==
    /\ tx' = Reply(p.cid, "error", None, p.tag, 1)
    /\ UNCHANGED <<next_cid, active_channels, assembled>>

\* A complete message: INIT gets a channel, CBOR its response, CANCEL an echo.
dispatch(cid, cmd, buffer) ==
    /\ assembled' = buffer
    /\ IF cmd = "init"
       THEN /\ tx' = Reply(cid, cmd, allocate_cid, buffer[1], 1)
            /\ active_channels' = Append(active_channels, allocate_cid)
            /\ next_cid' = (allocate_cid + 1) % CidCount
       ELSE /\ \E n \in 1 .. (IF cmd = "cbor" THEN MaxReply ELSE 1) :
                  tx' = Reply(cid, cmd, None, buffer[1], n)
            /\ UNCHANGED <<next_cid, active_channels>>

TooLong(p) == p.total > MaxPackets

\* An INIT packet from any channel, CANCEL included, ends the transaction in progress.
InitPacket(p) ==
    \/ /\ TooLong(p)
       /\ active_state' = None /\ Refuse(p)
    \/ /\ p.total = 1
       /\ active_state' = None /\ dispatch(p.cid, p.cmd, <<p.tag>>)
    \/ /\ p.total > 1 /\ ~TooLong(p)
       /\ active_state' = [cid |-> p.cid, cmd |-> p.cmd, total |-> p.total, buffer |-> <<p.tag>>]
       /\ tx' = <<>> /\ UNCHANGED <<next_cid, active_channels, assembled>>

Ongoing_mutant(cid) == active_state # None
Ongoing(cid) == active_state # None /\ active_state.cid = cid
\* The sequence number a transaction expects is the number of CONTs it has.
Expected(p) == p.tag.index = Len(active_state.buffer)

ContPacket(p) ==
    \/ /\ ~Ongoing(p.cid)
       /\ Refuse(p) /\ UNCHANGED active_state
    \/ /\ Ongoing(p.cid)
       /\ \/ /\ ~Expected(p)
             /\ active_state' = None /\ Refuse(p)
          \/ /\ Expected(p)
             /\ LET buffer == Append(active_state.buffer, p.tag)
                IN  IF Len(buffer) = active_state.total
                    THEN active_state' = None
                         /\ dispatch(active_state.cid, active_state.cmd, buffer)
                    ELSE /\ active_state' = [active_state EXCEPT !.buffer = buffer]
                         /\ tx' = <<>> /\ UNCHANGED <<next_cid, active_channels, assembled>>

process_packet(p) == IF p.cmd = "cont" THEN ContPacket(p) ELSE InitPacket(p)

\* poll: endpoint_out reads a packet into out_buf whether or not the last one was taken.
Polled == IF ep_out # None THEN ep_out ELSE out_buf
Overwriting == ep_out # None /\ out_buf # None

MainLoop ==
    /\ tx = <<>> /\ Polled # None
    /\ ep_out' = None /\ out_buf' = None /\ overrun' = (overrun \/ Overwriting)
    /\ process_packet(Polled)
    /\ UNCHANGED <<polls, client>>

\* send_hid_packets: poll, then try to send; the rest is dropped after MaxPolls.
SendReport ==
    /\ tx # <<>>
    /\ ep_out' = None /\ out_buf' = Polled /\ overrun' = (overrun \/ Overwriting)
    /\ tx' = Tail(tx) /\ polls' = 0
    /\ client' = Received(Head(tx))
    /\ UNCHANGED <<active_state, next_cid, active_channels, assembled>>

EndpointBusy_mutant ==
    /\ tx # <<>>
    /\ ep_out' = None /\ out_buf' = Polled /\ overrun' = (overrun \/ Overwriting)
    /\ polls' = (polls + 1) % MaxPolls
    /\ UNCHANGED <<tx, active_state, next_cid, active_channels, client, assembled>>
EndpointBusy ==
    /\ tx # <<>>
    /\ ep_out' = None /\ out_buf' = Polled /\ overrun' = (overrun \/ Overwriting)
    /\ polls' = (polls + 1) % MaxPolls
    /\ tx' = IF polls + 1 = MaxPolls THEN <<>> ELSE tx
    /\ UNCHANGED <<active_state, next_cid, active_channels, client, assembled>>

send_hid_packets == SendReport \/ EndpointBusy
Device == MainLoop \/ send_hid_packets

Next ==
    \/ \E c \in Clients :
          \/ \E cmd \in Commands, total \in Lengths : StartRequest(c, cmd, total)
          \/ SendCont(c) \/ GiveUp(c)
    \/ Device

\* The main loop never stops.
Spec == Init /\ [][Next]_vars /\ WF_vars(Device)

----------------------------------------------------------------------------
\* However requests interleave and are given up, a message handed to dispatch is
\* made of consecutive packets of one program and, as long as no packet was lost in
\* the one-packet buffer, of one and the same request (CtaphidAssembler).
MessagesIntact ==
    \A i \in DOMAIN assembled :
        /\ assembled[i].index = i - 1
        /\ assembled[i].from = assembled[1].from
        /\ overrun \/ assembled[i].number = assembled[1].number

\* Two programs never work on the same channel, replies to INIT being lost, late or
\* meant for another (ChannelManager::allocate_cid).
NoSharedChannel ==
    \A c, d \in Clients : c # d /\ client[c].cid # Broadcast => client[c].cid # client[d].cid

\* A program that stops reading cannot block the device for the others: every reply
\* is sent or given up, and the main loop goes on (send_hid_packets).
ServesAgain == tx # <<>> ~> tx = <<>>
=============================================================================
