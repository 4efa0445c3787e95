-------------------------------- MODULE Card --------------------------------
(***************************************************************************)
(* The card of the RP2350 firmware: the main loop (poll the USB stack,     *)
(* serve a held APDU, then one CTAPHID step), the CCID class and the       *)
(* router, against a host that sends commands, probes the slot, reads      *)
(* long responses, gives up with ABORT and resets the bus.                 *)
(***************************************************************************)
EXTENDS Naturals, Sequences, FiniteSets

CONSTANTS Applets, NoLe, LeMax, ResponseWindow,             \* CardRouter
          PacketSize, HeaderLen, MaxMsgLen, AtrLen, ParamLen, SwLen, DefaultParams,
          Empty,            \* nothing there
          Les,              \* the Le a host asks with
          Aids,             \* what it sends in a SELECT
          BodyLens,         \* lengths of an applet's answer
          SelectLen,        \* the longest of the answers to SELECT, which leave whole
          ApduLens,         \* lengths of an APDU
          OtherParams,      \* parameters SetParameters may set
          Ways,             \* what a host does: read long responses with "get_response"
                            \* or "send_remaining", or "control" the slot
          SendsZlp,         \* a zero-length packet may end a full last packet
          MaxProbes,        \* GetSlotStatus a host sends without an answer
          MaxSeq, MaxTag,   \* largest bSeq and name of a body in use at one time
          MaxHidPackets, MaxTries   \* packets of a CTAPHID answer; 500_000

Router == INSTANCE CardRouter WITH Nothing <- Empty
Class == INSTANCE Ccid

\* What travels: the pieces of a body, the replies, the packets of the endpoint, the APDUs
\* and the commands a host waits for.
Instructions == {"malformed", "command", "select", "get_response", "send_remaining"}
AllParams == OtherParams \cup {DefaultParams}
Chunks == [tag : Nat \cup {Empty}, of : Nat, from : Nat, to : Nat, sw : Router!StatusWords]
Replies == [type : {"data_block", "slot_status", "parameters"}, seq : Nat,
            err : {"none", "not_supported", "slot_busy", "overrun", "underrun"},
            active : BOOLEAN, data : Chunks \cup AllParams \cup {"atr", Empty},
            len : HeaderLen..MaxMsgLen]
Draining == [reply : Replies, sent : Nat]
InPackets == [reply : Replies, from : Nat, to : Nat]
NamedApdus == [ins : Instructions, le : Les \cup {NoLe}, aid : Aids \cup {<< >>}, tag : Nat]
Wants == [cmd : Class!Commands, seq : Nat, ins : Instructions \cup {Empty}, tag : Nat,
          from : Nat]

\* Lengths as the descriptor and the applets have them: a header with a short APDU is one
\* short packet, an answer cut to Le fits a message, a message does not end with a full
\* packet.  The driver waits for the answer to a probe (bMaxCCIDBusySlots is 1).
ASSUME ConstantsOK ==
    /\ Router!ConstantsOK /\ Class!ConstantsOK
    /\ Ways \subseteq {"control", "get_response", "send_remaining"} /\ SendsZlp \in BOOLEAN
    /\ MaxProbes \in 0..1 /\ MaxHidPackets \in Nat
    /\ HeaderLen + 1 < PacketSize /\ MaxMsgLen % PacketSize # 0
    /\ Les \subseteq (1..LeMax) \cup {NoLe} /\ LeMax + SwLen <= Class!MaxPayloadLen
    /\ SelectLen \in Nat /\ SelectLen + SwLen <= Class!MaxPayloadLen
    /\ BodyLens \subseteq Nat /\ ApduLens \subseteq 1..Class!MaxPayloadLen
    /\ ParamLen + 1 <= Class!MaxPayloadLen
    /\ {MaxSeq, MaxTag, MaxTries} \subseteq Nat \ {0} /\ MaxSeq >= 7 /\ MaxTag >= 7
    /\ Empty \notin Nat \cup Chunks \cup Replies \cup Draining \cup InPackets \cup NamedApdus
         \cup Wants \cup {Applets[i].name : i \in DOMAIN Applets}
         \cup [reply : Replies, n : Nat] \cup [tag : Nat, n : Nat] \cup Instructions
         \cup {"oath"}

VARIABLES pc,               \* the stage of the loop
          class, router,
          hid,              \* [left, tries, busy]: the answer send_hid_packets sends
          out,              \* packets of the host's transfer not yet received
          want,             \* the command the host waits for
          probes,           \* bSeq of its unanswered probes
          got,              \* the reply it has read part of
          read,             \* the response it has read part of: [tag, n]
          way, applet       \* what it does, the applet it has selected

device == <<pc, class, router, hid>>
host == <<out, want, probes, got, read, way, applet>>
vars == <<device, host>>

Init ==
    /\ pc = "poll" /\ class = Class!build /\ router = Router!new
    /\ hid = [left |-> 0, tries |-> 0, busy |-> FALSE]
    /\ out = << >> /\ want = Empty /\ probes = {} /\ got = Empty /\ read = Empty
    /\ way \in Ways /\ applet = Empty

-----------------------------------------------------------------------------
(* The device.                                                             *)

\* device.poll(): at most one OUT packet, then CcidClass::process.
Poll ==
    /\ pc = "poll" /\ pc' = "serve"
    /\ class' = Class!process(IF out = << >> THEN class
                              ELSE Class!rx_append(class, Head(out).n, Head(out).head))
    /\ out' = IF out = << >> THEN out ELSE Tail(out)
    /\ UNCHANGED <<router, hid, want, probes, got, read, way, applet>>

\* The loop's CCID stage: take the APDU, route it, send the answer.  It runs
\* in the main loop and, with the same poll before it, in send_hid_packets.
Serve ==
    /\ pc = "serve" /\ pc' = "hid"
    /\ IF class.pending = Empty
       THEN UNCHANGED <<class, router>>
       ELSE \E accepts \in BOOLEAN,
               len \in IF class.pending.ins = "select" THEN {SelectLen} ELSE BodyLens :
              LET apdu == class.pending
                  served == Router!process(router, apdu, apdu.tag, accepts, len)
              IN /\ router' = served.r
                 /\ class' = Class!send_response(Class!take_pending_request(class), served.out,
                                                 Router!Length(served.out) + SwLen)
    /\ UNCHANGED <<hid, host>>

\* The loop's CTAPHID stage: a request completes and is answered with some
\* packets (0: none arrived), or send_hid_packets tries its next packet and
\* gives the message up after MaxTries polls.
Receive == \E n \in 0..MaxHidPackets : hid' = [hid EXCEPT !.left = n, !.tries = 0]
Send ==
    hid' = IF ~hid.busy THEN [left |-> hid.left - 1, tries |-> 0, busy |-> TRUE]
           ELSE IF hid.tries + 1 = MaxTries THEN [hid EXCEPT !.left = 0, !.tries = 0]
           ELSE [hid EXCEPT !.tries = @ + 1]
Hid ==
    /\ pc = "hid" /\ pc' = "poll"
    /\ IF hid.left = 0 THEN Receive ELSE Send
    /\ UNCHANGED <<class, router, host>>

-----------------------------------------------------------------------------
(* The host.                                                               *)

\* Replies on their way to the host.
InFlight == {r.reply : r \in {got, class.ep, class.tx} \ {Empty}} \cup ({class.q} \ {Empty})

\* bSeq counts modulo 256 and far fewer are in use at one time: take the
\* least that is not.  Likewise for the names of the bodies.
Least(S) == CHOOSE x \in S : \A y \in S : x <= y
Fields(records) == {r.tag : r \in records \ {Empty}}
seq == Least((0..MaxSeq) \ ({r.seq : r \in InFlight} \cup probes \cup {class.head.seq}
                            \cup IF want = Empty THEN {} ELSE {want.seq}))
tag == Least((0..MaxTag) \
         (Fields({d \in {r.data : r \in {r \in InFlight : r.type = "data_block"}} : d # "atr"})
          \cup Fields({router.mirror, router.chain, read})))

Header(cmd, dw, level, payload) ==
    [cmd |-> cmd, seq |-> seq, dw |-> dw, level |-> level, payload |-> payload]

\* The packets of a transfer of len bytes.
Packets(h, len, zlp) ==
    LET full == [i \in 1..(len \div PacketSize) |-> [n |-> PacketSize, head |-> h]]
        rest == len % PacketSize
    IN IF rest > 0 \/ zlp THEN Append(full, [n |-> rest, head |-> h]) ELSE full

Transfer(h, len) ==
    /\ out = << >>
    /\ \E zlp \in {FALSE, SendsZlp} : out' = Packets(h, len, zlp)

\* The slot's commands other than XfrBlock and ABORT, each on its own and
\* with the lengths a message may get wrong: dwLength past the bytes sent,
\* past the limit, and more bytes than the limit.
Wait(cmd) == want' = [cmd |-> cmd, seq |-> seq, ins |-> Empty, tag |-> 0, from |-> 0]
Command ==
    /\ way = "control" /\ want = Empty
    /\ \/ \E cmd \in {"power_on", "power_off", "get_params", "unknown"} :
            Wait(cmd) /\ Transfer(Header(cmd, 0, TRUE, Empty), HeaderLen)
       \/ \E p \in OtherParams, known \in BOOLEAN, n \in {ParamLen, ParamLen + 1} :
            /\ Wait("set_params")
            /\ Transfer(Header("set_params", n, known, p), HeaderLen + n)
       \/ \E dw \in {1, Class!MaxPayloadLen + 1} :
            /\ Wait("power_on")
            /\ Transfer(Header("power_on", dw, TRUE, Empty),
                        IF dw = 1 THEN HeaderLen ELSE PacketSize)
       \/ /\ Wait("power_on")
          /\ Transfer(Header("power_on", Class!MaxPayloadLen, TRUE, Empty),
                      PacketSize * (MaxMsgLen \div PacketSize + 1))
    /\ read' = Empty
    /\ UNCHANGED <<device, probes, got, way, applet>>

\* An APDU: a fresh one, or the continuation of the response being read.
\* The host that controls the slot sends malformed ones, of every length.
Apdus == [ins : {"malformed"}, le : {NoLe}, aid : {<< >>}]
    \cup IF way = "control" THEN {}
         ELSE [ins : {"command"}, le : Les, aid : {<< >>}]
              \cup [ins : {"select"}, le : {NoLe}, aid : Aids]
Name(apdu, t) == [ins |-> apdu.ins, le |-> apdu.le, aid |-> apdu.aid, tag |-> t]

Ask ==
    /\ want = Empty
    /\ \E apdu \in Apdus, n \in ApduLens, level \in BOOLEAN :
         /\ way # "control" => level /\ n = 1
         /\ Transfer(Header("xfr_block", n, level, Name(apdu, tag)), HeaderLen + n)
         /\ want' = [cmd |-> "xfr_block", seq |-> seq, ins |-> apdu.ins, tag |-> tag, from |-> 0]
    /\ read' = Empty
    /\ UNCHANGED <<device, probes, got, way, applet>>

Continue ==
    /\ want = Empty /\ read # Empty
    /\ LET ins == IF applet = "oath" THEN way ELSE "get_response"
       IN \E le \in IF ins = "send_remaining" THEN Les \ {NoLe} ELSE Les :
            /\ Transfer(Header("xfr_block", 1, TRUE,
                               [ins |-> ins, le |-> le, aid |-> << >>, tag |-> read.tag]),
                        HeaderLen + 1)
            /\ want' = [cmd |-> "xfr_block", seq |-> seq, ins |-> ins,
                        tag |-> read.tag, from |-> read.n]
    /\ UNCHANGED <<device, probes, got, read, way, applet>>

\* The driver probes the slot while it waits, or between commands.
Probe ==
    /\ want # Empty => want.cmd # "abort"
    /\ Cardinality(probes) < MaxProbes
    /\ probes' = probes \cup {seq}
    /\ Transfer(Header("slot_status", 0, TRUE, Empty), HeaderLen)
    /\ UNCHANGED <<device, want, got, read, way, applet>>

\* It gives an APDU up: control ABORT, then PC_to_RDR_Abort.
GiveUp ==
    /\ want # Empty /\ want.cmd = "xfr_block"
    /\ Wait("abort") /\ Transfer(Header("abort", 0, TRUE, Empty), HeaderLen)
    /\ probes' = {} /\ read' = Empty
    /\ applet' = IF want.ins = "select" THEN Empty ELSE applet
    /\ UNCHANGED <<device, got, way>>

\* A reply read to its end, matched by bSeq.
Answer(reply) ==
    LET data == reply.data
        apdu == want.cmd = "xfr_block" /\ reply.type = "data_block" /\ reply.err = "none"
    IN IF want # Empty /\ reply.seq = want.seq
       THEN /\ want' = Empty
            /\ read' = IF apdu /\ data.sw = "more" THEN [tag |-> want.tag, n |-> data.to]
                       ELSE Empty
            /\ applet' = IF apdu /\ want.ins = "select" /\ data.sw = "ok" THEN router.selected
                         ELSE applet
            /\ UNCHANGED probes
       ELSE /\ probes' = probes \ {reply.seq}
            /\ UNCHANGED <<want, read, applet>>
Read ==
    /\ class.ep # Empty
    /\ class' = [class EXCEPT !.ep = Empty]
    /\ IF class.ep.to = class.ep.reply.len
       THEN got' = Empty /\ Answer(class.ep.reply)
       ELSE got' = [reply |-> class.ep.reply, n |-> class.ep.to]
            /\ UNCHANGED <<want, read, applet, probes>>
    /\ UNCHANGED <<pc, router, hid, out, way>>

ReadHid ==
    /\ hid.busy /\ hid' = [hid EXCEPT !.busy = FALSE]
    /\ UNCHANGED <<pc, class, router, host>>

\* The bus is reset; the stack reports it to the class in a poll.
BusReset ==
    /\ pc = "poll"
    /\ class' = Class!reset(class)
    /\ out' = << >> /\ want' = Empty /\ probes' = {} /\ got' = Empty /\ read' = Empty
    /\ applet' = Empty
    /\ UNCHANGED <<pc, router, hid, way>>

-----------------------------------------------------------------------------
Device == Poll \/ Serve \/ Hid
Next == \/ Device
        \/ Command \/ Ask \/ Continue \/ Probe \/ GiveUp \/ Read \/ ReadHid \/ BusReset

\* The loop never blocks, so it polls and serves for ever, and the driver
\* keeps an IN transfer open, so the endpoint is emptied again and again:
\* weak fairness of Device and of Read, said of the states they lead to.
Fairness == []<>(pc = "poll") /\ []<>(pc = "serve") /\ []<>(class.ep = Empty)
Spec == Init /\ [][Next]_vars /\ Fairness

-----------------------------------------------------------------------------
TypeOK ==
    /\ pc \in {"poll", "serve", "hid"} /\ DOMAIN class = DOMAIN Class!build
    /\ class.rx.len \in 0..MaxMsgLen /\ \A r \in InFlight : r.len \in HeaderLen..MaxMsgLen
    /\ class.tx # Empty => class.tx.sent < class.tx.reply.len
    /\ router.selected \in {Applets[i].name : i \in DOMAIN Applets} \cup {Empty}
    /\ hid \in [left : 0..MaxHidPackets, tries : 0..MaxTries - 1, busy : BOOLEAN]
    /\ probes \subseteq 0..MaxSeq /\ Cardinality(probes) <= MaxProbes

\* What answers the host's APDU is what that APDU asked for: a piece of its
\* own body, starting where the last piece ended, and the end of the body if
\* the status word says that nothing follows.
AnswersOwnApdu ==
    \A r \in InFlight :
      (want # Empty /\ want.cmd = "xfr_block" /\ r.seq = want.seq
         /\ r.type = "data_block" /\ r.err = "none") =>
        /\ r.data.from < r.data.to => r.data.tag = want.tag /\ r.data.from = want.from
        /\ r.data.sw = "ok" => r.data.to = r.data.of

\* The reply to the command the host waits for is never overwritten: the
\* command is still to be received or served, or its reply is on its way.
ReplyOnItsWay ==
    want # Empty =>
      \/ \E i \in DOMAIN out : out[i].head.seq = want.seq
      \/ class.rx.len > 0 /\ class.head.seq = want.seq
      \/ class.pending # Empty /\ class.answering = want.seq
      \/ \E r \in InFlight : r.seq = want.seq

\* A reply reaches the host in one piece: once its first packet is out, the
\* next packets are the rest of it.
NoTornReply ==
    /\ got # Empty =>
         \/ class.ep # Empty /\ class.ep.reply = got.reply /\ class.ep.from = got.n
         \/ class.ep = Empty /\ class.tx = [reply |-> got.reply, sent |-> got.n]
    /\ got = Empty /\ class.ep # Empty => class.ep.from = 0

\* The slot is free again when the loop returns to its poll: no XfrBlock can
\* find it busy unless the host has one outstanding.
SlotFrees == pc = "poll" => class.pending = Empty /\ ~class.awaiting

\* The applet the host believes selected is the one its APDUs reach, across
\* refused and aborted SELECTs and bus resets.
HostKnowsApplet ==
    applet # Empty /\ (want = Empty \/ want.ins # "select") => router.selected = applet

\* Every command is answered, aborted or cut off by a reset of the bus, even
\* when no one reads the CTAPHID endpoint.
AlwaysAnswered == want # Empty ~> want = Empty

\* send_hid_packets ends although the CTAPHID host reads nothing.
HidEnds == hid.left > 0 ~> hid.left = 0

=============================================================================
