-------------------------------- MODULE Ccid --------------------------------
(***************************************************************************)
(* CcidClass of usb_ccid_backend.rs: messages assembled from bulk OUT      *)
(* packets, the slot's commands, and replies drained packet by packet into *)
(* the bulk IN endpoint behind a queue of one.                             *)
(*                                                                         *)
(* A method of the class is an operator on its state c; lengths are in     *)
(* bytes, contents are names.  c.ep is the packet in the IN endpoint.      *)
(***************************************************************************)
EXTENDS Naturals

CONSTANTS PacketSize, HeaderLen, MaxMsgLen,     \* 64, 10, 288
          AtrLen, ParamLen, SwLen,              \* 15, 5, 2
          DefaultParams,
          Empty             \* no message, no packet

ConstantsOK ==
    /\ {HeaderLen, AtrLen, ParamLen, SwLen, PacketSize, MaxMsgLen} \subseteq Nat \ {0}
    /\ HeaderLen <= PacketSize /\ PacketSize < MaxMsgLen
    /\ HeaderLen + AtrLen <= MaxMsgLen /\ HeaderLen + ParamLen <= MaxMsgLen

MaxPayloadLen == MaxMsgLen - HeaderLen

\* What a header says: dw is dwLength; level, that wLevelParameter (XfrBlock)
\* or bProtocolNum (SetParameters) is one the class knows; payload, the APDU
\* or the parameters.
Commands == {"power_on", "power_off", "slot_status", "get_params", "set_params",
             "xfr_block", "abort", "unknown"}

NoHeader == [cmd |-> "unknown", seq |-> 0, dw |-> 0, level |-> TRUE, payload |-> Empty]

build == [rx |-> [len |-> 0, ready |-> FALSE, overflow |-> FALSE], head |-> NoHeader,
          tx |-> Empty, q |-> Empty, ep |-> Empty,
          powered |-> FALSE, params |-> DefaultParams,
          pending |-> Empty, awaiting |-> FALSE, answering |-> Empty]

\* Replies.  active is bmICCStatus; len counts the header.
Reply(c, type, seq, err, data, n) ==
    [type |-> type, seq |-> seq, err |-> err, active |-> c.powered, data |-> data,
     len |-> HeaderLen + n]
\* Of the message a cleared buffer still holds only bSeq is ever used again.
clear_rx(c) == [c EXCEPT !.rx = build.rx, !.head = [NoHeader EXCEPT !.seq = c.head.seq]]

tx_active(c) == c.tx # Empty

\* flush_tx: promote the queue when nothing drains, write a packet if the
\* endpoint is free, promote again if that was the last one.
Promote_mutant(c) == c
Promote(c) ==
    IF ~tx_active(c) /\ c.q # Empty
    THEN [c EXCEPT !.tx = [reply |-> c.q, sent |-> 0], !.q = Empty] ELSE c
WritePacket(c) ==
    LET end == IF c.tx.sent + PacketSize < c.tx.reply.len
               THEN c.tx.sent + PacketSize ELSE c.tx.reply.len
    IN [c EXCEPT !.ep = [reply |-> c.tx.reply, from |-> c.tx.sent, to |-> end],
                 !.tx = IF end = c.tx.reply.len THEN Empty ELSE [@ EXCEPT !.sent = end]]
flush_tx(c) ==
    LET ready == Promote(c)
    IN IF tx_active(ready) /\ ready.ep = Empty THEN Promote(WritePacket(ready)) ELSE ready

\* queue_response: behind the message that drains, over whatever queued there.
queue_response_mutant(c, reply) ==
    flush_tx([c EXCEPT !.tx = [reply |-> reply, sent |-> 0]])
queue_response(c, reply) ==
    flush_tx(IF tx_active(c) THEN [c EXCEPT !.q = reply]
                             ELSE [c EXCEPT !.tx = [reply |-> reply, sent |-> 0]])

Fail(c, type, seq, err) == queue_response(clear_rx(c), Reply(c, type, seq, err, Empty, 0))
SlotStatus(c, seq) ==
    queue_response(clear_rx(c), Reply(c, "slot_status", seq, "none", Empty, 0))
queue_parameters(c, seq) ==
    queue_response(clear_rx(c), Reply(c, "parameters", seq, "none", c.params, ParamLen))

\* rx_append: a packet of n bytes, the first of a message carrying its header.
rx_append(c, n, head) ==
    LET fits == n <= MaxMsgLen - c.rx.len
        len == IF fits THEN c.rx.len + n ELSE MaxMsgLen
        h == IF c.rx.len = 0 /\ n >= HeaderLen THEN head ELSE c.head
        impossible == n = PacketSize /\ h.dw > MaxPayloadLen
        complete == n < PacketSize \/ len >= HeaderLen + h.dw
    IN IF c.rx.ready THEN c
       ELSE [c EXCEPT !.head = h,
                      !.rx = [len |-> len, overflow |-> ~fits \/ impossible,
                              ready |-> ~fits \/ impossible \/ complete]]

\* XfrBlock in the firmware's mode: the APDU is held for take_pending_request.
Xfr(c, m) ==
    IF ~m.level THEN Fail(c, "data_block", m.seq, "not_supported")
    ELSE IF c.pending # Empty \/ c.awaiting THEN Fail(c, "data_block", m.seq, "slot_busy")
    ELSE clear_rx([c EXCEPT !.pending = m.payload, !.answering = m.seq])

\* dispatch_rx.  A transfer shorter than a header is answered with the slot
\* and sequence number the buffer still holds.
Refused(c, m) == c.rx.overflow \/ c.rx.len < HeaderLen \/ HeaderLen + m.dw > c.rx.len
dispatch_rx(c) ==
    LET m == c.head
        off == [c EXCEPT !.powered = FALSE]
        on == [c EXCEPT !.powered = TRUE]
    IN CASE Refused(c, m) ->
              Fail(c, "slot_status", m.seq, IF c.rx.overflow THEN "overrun"
                        ELSE IF c.rx.len < HeaderLen THEN "not_supported" ELSE "underrun")
         [] ~Refused(c, m) /\ m.cmd = "power_on" ->
              queue_response(clear_rx(on), Reply(on, "data_block", m.seq, "none", "atr", AtrLen))
         [] ~Refused(c, m) /\ m.cmd = "power_off" -> SlotStatus(off, m.seq)
         [] ~Refused(c, m) /\ m.cmd = "slot_status" -> SlotStatus(c, m.seq)
         [] ~Refused(c, m) /\ m.cmd = "get_params" -> queue_parameters(c, m.seq)
         [] ~Refused(c, m) /\ m.cmd = "set_params" ->
              IF m.level /\ m.dw = ParamLen
              THEN queue_parameters([c EXCEPT !.params = m.payload], m.seq)
              ELSE Fail(c, "slot_status", m.seq, "not_supported")
         [] ~Refused(c, m) /\ m.cmd = "abort" ->
              SlotStatus([c EXCEPT !.pending = Empty, !.awaiting = FALSE, !.answering = Empty], m.seq)
         [] ~Refused(c, m) /\ m.cmd = "xfr_block" -> Xfr(c, m)
         [] OTHER -> Fail(c, "slot_status", m.seq, "not_supported")

\* CcidClass::process.
process(c) == flush_tx(IF c.rx.ready THEN dispatch_rx(c) ELSE c)

take_pending_request(c) == [c EXCEPT !.pending = Empty, !.awaiting = TRUE]

\* send_response: an answer too long for a message is refused, and the slot
\* goes on waiting for one.  The loop ignores the error.
send_response(c, data, n) ==
    IF ~c.awaiting \/ n > MaxPayloadLen THEN c
    ELSE queue_response([c EXCEPT !.awaiting = FALSE, !.answering = Empty],
                        Reply(c, "data_block", c.answering, "none", data, n))

\* A bus reset drops what is on the wire; the card session and a request
\* being answered survive it.
reset(c) == [clear_rx(c) EXCEPT !.tx = Empty, !.q = Empty, !.ep = Empty]
=============================================================================
