----------------------------- MODULE CardProofs -----------------------------
(***************************************************************************)
(* Proofs about Card, the CCID class and the router above it, for every    *)
(* list of applets, every set of APDUs and every packet and message size   *)
(* the assumptions of Card allow.                                          *)
(*                                                                         *)
(* A request and its reply are in several variables on their way, and the  *)
(* replies to status probes and to an aborted command travel with them.    *)
(* CardInv adds to the two properties: which packets, transmit buffer and  *)
(* queue can stand together with what the host has read (Shape); that the  *)
(* command the host waits for is arriving, being served or answered, in    *)
(* exactly one of these states, and where its reply stands in the queue    *)
(* (Core); how much of a message has arrived (Transit); that it is the     *)
(* command the host meant (Linked); and what the router must still know    *)
(* for a reply read in several parts (Reading).                            *)
(***************************************************************************)
EXTENDS MCCard, FiniteSetTheorems, SequenceTheorems, WellFoundedInduction, TLAPS

PS == PacketSize
Headers == [cmd : Class!Commands, seq : Nat, dw : Nat, level : BOOLEAN,
            payload : NamedApdus \cup AllParams \cup {Empty}]
AppletNames == {Applets[i].name : i \in DOMAIN Applets}
Classes == [rx : [len : 0..MaxMsgLen, ready : BOOLEAN, overflow : BOOLEAN], head : Headers,
            tx : Draining \cup {Empty}, q : Replies \cup {Empty}, ep : InPackets \cup {Empty},
            powered : BOOLEAN, params : AllParams, pending : NamedApdus \cup {Empty},
            awaiting : BOOLEAN, answering : Nat \cup {Empty}]
Partials == [reply : Replies, n : Nat]

\* The lengths the proofs use.
LEMMA Lengths ==
    /\ HeaderLen \in Nat \ {0} /\ PacketSize \in Nat \ {0} /\ MaxMsgLen \in Nat \ {0}
    /\ AtrLen \in Nat \ {0} /\ ParamLen \in Nat \ {0} /\ SwLen \in Nat \ {0}
    /\ HeaderLen + 1 < PacketSize /\ PacketSize < MaxMsgLen
    /\ HeaderLen + AtrLen <= MaxMsgLen /\ HeaderLen + ParamLen <= MaxMsgLen
    /\ Class!MaxPayloadLen \in Nat /\ HeaderLen + Class!MaxPayloadLen = MaxMsgLen
    /\ MaxMsgLen % PacketSize # 0
BY ConstantsOK DEF Class!ConstantsOK, Class!MaxPayloadLen

\* Nothing that travels is Empty.
LEMMA EmptyIsNone ==
    /\ Empty \notin Nat /\ Empty \notin Chunks /\ Empty \notin Replies /\ Empty \notin Draining
    /\ Empty \notin InPackets /\ Empty \notin NamedApdus /\ Empty \notin Wants
    /\ Empty \notin AppletNames /\ Empty \notin Partials /\ Empty \notin [tag : Nat, n : Nat]
    /\ Empty # "oath" /\ Empty \notin Instructions
BY ConstantsOK DEF AppletNames, Partials

-----------------------------------------------------------------------------
(* The queue of replies: the packet e in the endpoint, the reply t that      *)
(* drains, the reply q behind it, and g, what the host has read of one.      *)

\* What flush_tx makes of it.
Flushed(e, t, q, e2, t2, q2) ==
    \/ (e # Empty \/ t = Empty) /\ e2 = e /\ t2 = t /\ q2 = q
    \/ /\ e = Empty /\ t # Empty
       /\ e2 \in InPackets /\ e2.reply = t.reply /\ e2.from = t.sent /\ e2.to <= t.reply.len
       /\ e2.to = t.reply.len \/ e2.to = t.sent + PS
       /\ \/ /\ e2.to < t.reply.len /\ q2 = q
             /\ t2 = [reply |-> t.reply, sent |-> e2.to]
          \/ /\ e2.to = t.reply.len /\ q2 = Empty
             /\ t2 = IF q = Empty THEN Empty ELSE [reply |-> q, sent |-> 0]

\* What queue_response of r makes of it.
Queued(e, t, q, e2, t2, q2, r) ==
    IF t = Empty THEN Flushed(e, [reply |-> r, sent |-> 0], q, e2, t2, q2)
                 ELSE Flushed(e, t, r, e2, t2, q2)

\* What the methods that only send leave alone.
Same(c, d) ==
    /\ d.rx = c.rx /\ d.head = c.head /\ d.powered = c.powered /\ d.params = c.params
    /\ d.pending = c.pending /\ d.awaiting = c.awaiting /\ d.answering = c.answering

LEMMA WritePacketLemma ==
    ASSUME NEW c \in Classes, c.tx # Empty, c.tx.sent < c.tx.reply.len
    PROVE  LET d == Class!WritePacket(c)
           IN /\ d \in Classes /\ Same(c, d) /\ d.q = c.q
              /\ d.ep \in InPackets /\ d.ep.reply = c.tx.reply /\ d.ep.from = c.tx.sent
              /\ d.ep.to <= c.tx.reply.len
              /\ d.ep.to = c.tx.reply.len \/ d.ep.to = c.tx.sent + PS
              /\ d.tx = IF d.ep.to = c.tx.reply.len THEN Empty
                        ELSE [reply |-> c.tx.reply, sent |-> d.ep.to]
<1> DEFINE end == IF c.tx.sent + PacketSize < c.tx.reply.len
                  THEN c.tx.sent + PacketSize ELSE c.tx.reply.len
           e2 == [reply |-> c.tx.reply, from |-> c.tx.sent, to |-> end]
           t2 == IF end = c.tx.reply.len THEN Empty ELSE [c.tx EXCEPT !.sent = end]
<1>1. c.tx \in Draining
  BY DEF Classes
<1>2. /\ c.tx.reply \in Replies /\ c.tx.reply.len \in Nat /\ c.tx.sent \in Nat
      /\ end \in Nat /\ end <= c.tx.reply.len
      /\ end = c.tx.reply.len \/ end = c.tx.sent + PS
  BY <1>1, Lengths DEF Draining, Replies, PS
<1>3. e2 \in InPackets
  BY <1>2 DEF InPackets
<1>4. t2 = IF end = c.tx.reply.len THEN Empty ELSE [reply |-> c.tx.reply, sent |-> end]
  BY <1>1 DEF Draining
<1>5. t2 \in Draining \cup {Empty}
  BY <1>2, <1>4 DEF Draining
<1> HIDE DEF end
<1>6. Class!WritePacket(c) = [c EXCEPT !.ep = e2, !.tx = t2]
  BY DEF Class!WritePacket, end
<1> HIDE DEF e2, t2
<1>7. /\ [c EXCEPT !.ep = e2, !.tx = t2] \in Classes
      /\ Same(c, [c EXCEPT !.ep = e2, !.tx = t2])
      /\ [c EXCEPT !.ep = e2, !.tx = t2].q = c.q
      /\ [c EXCEPT !.ep = e2, !.tx = t2].ep = e2
      /\ [c EXCEPT !.ep = e2, !.tx = t2].tx = t2
  BY <1>3, <1>5 DEF Classes, Same
<1>8. /\ e2.reply = c.tx.reply /\ e2.from = c.tx.sent /\ e2.to = end
  BY DEF e2
<1> QED
  BY <1>2, <1>3, <1>4, <1>6, <1>7, <1>8

LEMMA PromoteLemma ==
    ASSUME NEW c \in Classes
    PROVE  LET d == Class!Promote(c)
           IN /\ d \in Classes /\ Same(c, d) /\ d.ep = c.ep
              /\ c.tx # Empty \/ c.q = Empty => d = c
              /\ c.tx = Empty /\ c.q # Empty =>
                   d.tx = [reply |-> c.q, sent |-> 0] /\ d.q = Empty
<1>1. CASE c.tx # Empty \/ c.q = Empty
  BY <1>1 DEF Class!Promote, Class!tx_active, Same
<1>2. CASE c.tx = Empty /\ c.q # Empty
  <2> DEFINE t2 == [reply |-> c.q, sent |-> 0]
  <2>1. t2 \in Draining
    BY <1>2 DEF Draining, Classes
  <2>2. Class!Promote(c) = [c EXCEPT !.tx = t2, !.q = Empty]
    BY <1>2 DEF Class!Promote, Class!tx_active
  <2> HIDE DEF t2
  <2>3. LET d == [c EXCEPT !.tx = t2, !.q = Empty]
        IN d \in Classes /\ Same(c, d) /\ d.ep = c.ep /\ d.tx = t2 /\ d.q = Empty
    BY <2>1 DEF Classes, Same
  <2> QED BY <1>2, <2>2, <2>3 DEF t2
<1> QED BY <1>1, <1>2

LEMMA FlushLemma ==
    ASSUME NEW c \in Classes, c.q # Empty => c.tx # Empty,
           c.tx # Empty => c.tx.sent < c.tx.reply.len
    PROVE  LET d == Class!flush_tx(c)
           IN /\ d \in Classes /\ Same(c, d)
              /\ Flushed(c.ep, c.tx, c.q, d.ep, d.tx, d.q)
              /\ c.ep # Empty \/ c.tx = Empty => d = c
<1>1. Class!Promote(c) = c
  BY PromoteLemma
<1>2. CASE c.ep # Empty \/ c.tx = Empty
  <2>1. Class!flush_tx(c) = c
    BY <1>1, <1>2 DEF Class!flush_tx, Class!tx_active
  <2> QED BY <1>2, <2>1 DEF Flushed, Same
<1>3. CASE c.ep = Empty /\ c.tx # Empty
  <2> DEFINE w == Class!WritePacket(c)
             d == Class!Promote(w)
  <2>1. Class!flush_tx(c) = d
    BY <1>1, <1>3 DEF Class!flush_tx, Class!tx_active
  <2>2. /\ w \in Classes /\ Same(c, w) /\ w.q = c.q
        /\ w.ep \in InPackets /\ w.ep.reply = c.tx.reply /\ w.ep.from = c.tx.sent
        /\ w.ep.to <= c.tx.reply.len
        /\ w.ep.to = c.tx.reply.len \/ w.ep.to = c.tx.sent + PS
        /\ w.tx = IF w.ep.to = c.tx.reply.len THEN Empty
                  ELSE [reply |-> c.tx.reply, sent |-> w.ep.to]
    BY <1>3, WritePacketLemma
  <2> HIDE DEF w
  <2>3. /\ d \in Classes /\ Same(w, d) /\ d.ep = w.ep
        /\ w.tx # Empty \/ w.q = Empty => d = w
        /\ w.tx = Empty /\ w.q # Empty => d.tx = [reply |-> w.q, sent |-> 0] /\ d.q = Empty
    BY <2>2, PromoteLemma
  <2> HIDE DEF d
  <2>4. Same(c, d)
    BY <2>2, <2>3 DEF Same
  <2>5. w.ep.to < c.tx.reply.len \/ w.ep.to = c.tx.reply.len
    BY <1>3, <2>2 DEF InPackets, Classes, Draining, Replies
  <2>6. w.ep.to < c.tx.reply.len => w.tx # Empty /\ d = w
    <3> SUFFICES ASSUME w.ep.to < c.tx.reply.len PROVE w.tx # Empty /\ d = w
      OBVIOUS
    <3>1. w.tx = [reply |-> c.tx.reply, sent |-> w.ep.to]
      BY <1>3, <2>2 DEF InPackets, Classes, Draining, Replies
    <3>2. w.tx \in Draining
      BY <1>3, <2>2, <3>1 DEF InPackets, Classes, Draining
    <3> QED BY <2>3, <3>2, EmptyIsNone
  <2>7. Flushed(c.ep, c.tx, c.q, d.ep, d.tx, d.q)
    <3>1. CASE w.ep.to < c.tx.reply.len
      <4>1. w.ep.to # c.tx.reply.len
        BY <1>3, <2>2, <3>1 DEF InPackets, Classes, Draining, Replies
      <4> QED BY <1>3, <2>2, <2>6, <3>1, <4>1 DEF Flushed
    <3>2. CASE w.ep.to = c.tx.reply.len
      <4>1. w.tx = Empty
        BY <2>2, <3>2
      <4>2. d.tx = (IF c.q = Empty THEN Empty ELSE [reply |-> c.q, sent |-> 0]) /\ d.q = Empty
        BY <2>2, <2>3, <4>1
      <4> QED BY <1>3, <2>2, <2>3, <3>2, <4>2 DEF Flushed
    <3> QED BY <2>5, <3>1, <3>2
  <2> QED BY <1>3, <2>1, <2>3, <2>4, <2>7
<1> QED BY <1>2, <1>3

LEMMA QueueLemma ==
    ASSUME NEW c \in Classes, NEW r \in Replies, c.q # Empty => c.tx # Empty,
           c.tx # Empty => c.tx.sent < c.tx.reply.len
    PROVE  LET d == Class!queue_response(c, r)
           IN /\ d \in Classes /\ Same(c, d)
              /\ Queued(c.ep, c.tx, c.q, d.ep, d.tx, d.q, r)
<1>1. r # Empty /\ r.len \in Nat /\ 0 < r.len
  BY EmptyIsNone, Lengths DEF Replies
<1>2. CASE c.tx = Empty
  <2> DEFINE t2 == [reply |-> r, sent |-> 0]
             c2 == [c EXCEPT !.tx = t2]
  <2>1. t2 \in Draining /\ t2.reply = r /\ t2.sent = 0
    BY DEF Draining
  <2>2. t2 # Empty
    BY <2>1, EmptyIsNone
  <2>3. Class!queue_response(c, r) = Class!flush_tx(c2)
    BY <1>2 DEF Class!queue_response, Class!tx_active
  <2> HIDE DEF t2
  <2>4. c2 \in Classes /\ Same(c, c2) /\ c2.ep = c.ep /\ c2.tx = t2 /\ c2.q = c.q
    BY <2>1 DEF Classes, Same
  <2> HIDE DEF c2
  <2>5. LET d == Class!flush_tx(c2)
        IN d \in Classes /\ Same(c2, d) /\ Flushed(c2.ep, c2.tx, c2.q, d.ep, d.tx, d.q)
    BY <1>1, <2>1, <2>2, <2>4, FlushLemma
  <2>6. Same(c, Class!flush_tx(c2))
    BY <2>4, <2>5 DEF Same
  <2> QED BY <1>2, <2>3, <2>4, <2>5, <2>6 DEF Queued, t2
<1>3. CASE c.tx # Empty
  <2> DEFINE c2 == [c EXCEPT !.q = r]
  <2>3. Class!queue_response(c, r) = Class!flush_tx(c2)
    BY <1>3 DEF Class!queue_response, Class!tx_active
  <2>4. c2 \in Classes /\ Same(c, c2) /\ c2.ep = c.ep /\ c2.tx = c.tx /\ c2.q = r
    BY DEF Classes, Same
  <2> HIDE DEF c2
  <2>5. LET d == Class!flush_tx(c2)
        IN d \in Classes /\ Same(c2, d) /\ Flushed(c2.ep, c2.tx, c2.q, d.ep, d.tx, d.q)
    BY <1>3, <2>4, FlushLemma
  <2>6. Same(c, Class!flush_tx(c2))
    BY <2>4, <2>5 DEF Same
  <2> QED BY <1>3, <2>3, <2>4, <2>5, <2>6 DEF Queued
<1> QED BY <1>2, <1>3

-----------------------------------------------------------------------------
(* The commands of the slot.                                                 *)

Settled(c) == /\ c.q # Empty => c.tx # Empty
              /\ c.tx # Empty => c.tx.sent < c.tx.reply.len

LEMMA ReplyType ==
    ASSUME NEW c \in Classes,
           NEW type \in {"data_block", "slot_status", "parameters"}, NEW s \in Nat,
           NEW err \in {"none", "not_supported", "slot_busy", "overrun", "underrun"},
           NEW data \in Chunks \cup AllParams \cup {"atr", Empty}, NEW n \in Nat,
           HeaderLen + n <= MaxMsgLen
    PROVE  LET r == Class!Reply(c, type, s, err, data, n)
           IN /\ r \in Replies
              /\ r.type = type /\ r.seq = s /\ r.err = err /\ r.data = data
              /\ r.len = HeaderLen + n
<1>1. c.powered \in BOOLEAN
  BY DEF Classes
<1>2. HeaderLen + n \in HeaderLen..MaxMsgLen
  BY Lengths
<1> QED
  BY <1>1, <1>2 DEF Class!Reply, Replies

LEMMA ClearLemma ==
    ASSUME NEW c \in Classes
    PROVE  LET d == Class!clear_rx(c)
           IN /\ d \in Classes /\ d.rx = Class!build.rx /\ d.head.seq = c.head.seq
              /\ d.tx = c.tx /\ d.q = c.q /\ d.ep = c.ep /\ d.powered = c.powered
              /\ d.params = c.params /\ d.pending = c.pending /\ d.awaiting = c.awaiting
              /\ d.answering = c.answering
<1> DEFINE h == [Class!NoHeader EXCEPT !.seq = c.head.seq]
<1>1. c.head.seq \in Nat
  BY DEF Classes, Headers
<1>2. h \in Headers /\ h.seq = c.head.seq
  BY <1>1 DEF Headers, Class!NoHeader, Class!Commands
<1>3. Class!build.rx \in [len : 0..MaxMsgLen, ready : BOOLEAN, overflow : BOOLEAN]
  BY Lengths DEF Class!build
<1>4. Class!clear_rx(c) = [c EXCEPT !.rx = Class!build.rx, !.head = h]
  BY DEF Class!clear_rx
<1> HIDE DEF h
<1> QED
  BY <1>2, <1>3, <1>4 DEF Classes

\* The reply r to the message m that c holds, sent from a state of the class that clears
\* the message.
Replied(c, d, m, r) ==
    /\ d \in Classes /\ r \in Replies /\ r.seq = m.seq
    /\ Queued(c.ep, c.tx, c.q, d.ep, d.tx, d.q, r)
    /\ d.rx = Class!build.rx /\ d.head.seq = m.seq
    /\ d.pending = Empty /\ d.awaiting = FALSE
    /\ r.type = "data_block" /\ r.err = "none" => m.cmd = "power_on"
    /\ m.cmd \in {"slot_status", "abort"} => r.len = HeaderLen
    /\ c.rx.len < HeaderLen => r.len = HeaderLen /\ r.type # "data_block"

LEMMA RepliedLemma ==
    ASSUME NEW c \in Classes, Settled(c), NEW c2 \in Classes, NEW r \in Replies,
           r.seq = c.head.seq,
           c2.tx = c.tx, c2.q = c.q, c2.ep = c.ep, c2.head.seq = c.head.seq,
           c2.pending = Empty, c2.awaiting = FALSE,
           r.type = "data_block" /\ r.err = "none" => c.head.cmd = "power_on",
           c.head.cmd \in {"slot_status", "abort"} => r.len = HeaderLen,
           c.rx.len < HeaderLen => r.len = HeaderLen /\ r.type # "data_block"
    PROVE  Replied(c, Class!queue_response(Class!clear_rx(c2), r), c.head, r)
<1> DEFINE k == Class!clear_rx(c2)
           d == Class!queue_response(k, r)
<1>1. /\ k \in Classes /\ k.rx = Class!build.rx /\ k.head.seq = c.head.seq
      /\ k.tx = c.tx /\ k.q = c.q /\ k.ep = c.ep /\ k.pending = Empty /\ k.awaiting = FALSE
  BY ClearLemma
<1> HIDE DEF k
<1>2. d \in Classes /\ Same(k, d) /\ Queued(k.ep, k.tx, k.q, d.ep, d.tx, d.q, r)
  BY <1>1, QueueLemma DEF Settled
<1> HIDE DEF d
<1>3. Replied(c, d, c.head, r)
  BY <1>1, <1>2 DEF Replied, Same
<1> QED BY <1>3 DEF d, k

\* XfrBlock holds the APDU.
Held(c, d, m) ==
    /\ m.cmd = "xfr_block" /\ d \in Classes /\ ~(c.rx.len < HeaderLen)
    /\ d.ep = c.ep /\ d.tx = c.tx /\ d.q = c.q
    /\ d.rx = Class!build.rx /\ d.head.seq = m.seq
    /\ d.pending = m.payload /\ d.answering = m.seq /\ d.awaiting = FALSE

LEMMA FailLemma ==
    ASSUME NEW c \in Classes, Settled(c), c.pending = Empty, c.awaiting = FALSE,
           NEW type \in {"data_block", "slot_status"},
           NEW err \in {"not_supported", "slot_busy", "overrun", "underrun"},
           type = "data_block" => ~(c.rx.len < HeaderLen)
    PROVE  \E r \in Replies : Replied(c, Class!Fail(c, type, c.head.seq, err), c.head, r)
<1> DEFINE r == Class!Reply(c, type, c.head.seq, err, Empty, 0)
<1>1. c.head.seq \in Nat
  BY DEF Classes, Headers
<1>2. /\ r \in Replies /\ r.type = type /\ r.seq = c.head.seq /\ r.err = err
      /\ r.len = HeaderLen + 0
  <2>1. HeaderLen + 0 <= MaxMsgLen /\ 0 \in Nat
    BY Lengths
  <2>2. /\ type \in {"data_block", "slot_status", "parameters"}
        /\ err \in {"none", "not_supported", "slot_busy", "overrun", "underrun"}
        /\ Empty \in Chunks \cup AllParams \cup {"atr", Empty}
    OBVIOUS
  <2> QED BY <1>1, <2>1, <2>2, ReplyType
<1>3. Class!Fail(c, type, c.head.seq, err) = Class!queue_response(Class!clear_rx(c), r)
  BY DEF Class!Fail
<1> HIDE DEF r
<1>4. r.len = HeaderLen /\ r.err # "none"
  BY <1>2, Lengths
<1>5. Replied(c, Class!queue_response(Class!clear_rx(c), r), c.head, r)
  BY <1>2, <1>4, RepliedLemma
<1> QED BY <1>2, <1>3, <1>5

LEMMA DispatchLemma ==
    ASSUME NEW c \in Classes, Settled(c), c.pending = Empty, c.awaiting = FALSE,
           ~(c.rx.len < HeaderLen) /\ c.head.cmd = "set_params" => c.head.payload \in AllParams,
           ~(c.rx.len < HeaderLen) /\ c.head.cmd = "xfr_block" => c.head.payload \in NamedApdus
    PROVE  \/ \E r \in Replies : Replied(c, Class!dispatch_rx(c), c.head, r)
           \/ Held(c, Class!dispatch_rx(c), c.head)
<1> DEFINE m == c.head
<1>0. m \in Headers /\ m.seq \in Nat /\ m.cmd \in Class!Commands /\ m.level \in BOOLEAN
  BY DEF Classes, Headers
<1>a. c.rx.len \in Nat /\ m.dw \in Nat
  BY <1>0, Lengths DEF Classes, Headers
<1>1. CASE Class!Refused(c, m)
  <2> DEFINE err == IF c.rx.overflow THEN "overrun"
                    ELSE IF c.rx.len < HeaderLen THEN "not_supported" ELSE "underrun"
  <2>1. Class!dispatch_rx(c) = Class!Fail(c, "slot_status", m.seq, err)
    BY <1>1 DEF Class!dispatch_rx
  <2>2. err \in {"not_supported", "slot_busy", "overrun", "underrun"}
    OBVIOUS
  <2> HIDE DEF err
  <2> QED BY <2>1, <2>2, FailLemma
<1>2. ASSUME ~Class!Refused(c, m) PROVE ~(c.rx.len < HeaderLen)
  BY <1>2 DEF Class!Refused
<1>3. CASE ~Class!Refused(c, m) /\ m.cmd = "power_on"
  <2> DEFINE on == [c EXCEPT !.powered = TRUE]
             r == Class!Reply(on, "data_block", m.seq, "none", "atr", AtrLen)
  <2>1. Class!dispatch_rx(c) = Class!queue_response(Class!clear_rx(on), r)
    BY <1>3 DEF Class!dispatch_rx
  <2>2. /\ on \in Classes /\ on.tx = c.tx /\ on.q = c.q /\ on.ep = c.ep /\ on.head = c.head
        /\ on.pending = Empty /\ on.awaiting = FALSE
    BY DEF Classes
  <2> HIDE DEF on
  <2>3. r \in Replies /\ r.seq = m.seq
    <3>1. "atr" \in Chunks \cup AllParams \cup {"atr", Empty}
      OBVIOUS
    <3>2. AtrLen \in Nat /\ HeaderLen + AtrLen <= MaxMsgLen
      BY Lengths
    <3>3. on \in Classes /\ m.seq \in Nat
      BY <1>0, <2>2
    <3>4. /\ "data_block" \in {"data_block", "slot_status", "parameters"}
          /\ "none" \in {"none", "not_supported", "slot_busy", "overrun", "underrun"}
      OBVIOUS
    <3> QED BY <3>1, <3>2, <3>3, <3>4, ReplyType
  <2> HIDE DEF r
  <2>4. Replied(c, Class!queue_response(Class!clear_rx(on), r), c.head, r)
    BY <1>2, <1>3, <2>2, <2>3, RepliedLemma
  <2> QED BY <2>1, <2>3, <2>4
<1>b. ASSUME NEW c2 \in Classes, c2.tx = c.tx, c2.q = c.q, c2.ep = c.ep, c2.head = c.head,
             c2.pending = Empty, c2.awaiting = FALSE, ~(c.rx.len < HeaderLen)
      PROVE  \E r \in Replies : Replied(c, Class!SlotStatus(c2, m.seq), c.head, r)
  <2> DEFINE r == Class!Reply(c2, "slot_status", m.seq, "none", Empty, 0)
  <2>1. r \in Replies /\ r.seq = m.seq /\ r.type = "slot_status" /\ r.len = HeaderLen + 0
    <3>1. Empty \in Chunks \cup AllParams \cup {"atr", Empty}
      OBVIOUS
    <3>2. 0 \in Nat /\ HeaderLen + 0 <= MaxMsgLen
      BY Lengths
    <3> QED BY <1>0, <3>1, <3>2, ReplyType
  <2>2. Class!SlotStatus(c2, m.seq) = Class!queue_response(Class!clear_rx(c2), r)
    BY DEF Class!SlotStatus
  <2> HIDE DEF r
  <2>3. r.len = HeaderLen
    BY <2>1, Lengths
  <2>4. Replied(c, Class!queue_response(Class!clear_rx(c2), r), c.head, r)
    BY <1>b, <2>1, <2>3, RepliedLemma
  <2> QED BY <2>1, <2>2, <2>4
<1>c. ASSUME NEW c2 \in Classes, c2.tx = c.tx, c2.q = c.q, c2.ep = c.ep, c2.head = c.head,
             c2.pending = Empty, c2.awaiting = FALSE, ~(c.rx.len < HeaderLen),
             m.cmd \notin {"slot_status", "abort"}
      PROVE  \E r \in Replies : Replied(c, Class!queue_parameters(c2, m.seq), c.head, r)
  <2> DEFINE r == Class!Reply(c2, "parameters", m.seq, "none", c2.params, ParamLen)
  <2>1. c2.params \in AllParams
    BY <1>c DEF Classes
  <2>2. r \in Replies /\ r.seq = m.seq /\ r.type = "parameters"
    <3>1. c2.params \in Chunks \cup AllParams \cup {"atr", Empty}
      BY <2>1
    <3>2. ParamLen \in Nat /\ HeaderLen + ParamLen <= MaxMsgLen
      BY Lengths
    <3>3. ASSUME NEW sq \in Nat, NEW data \in Chunks \cup AllParams \cup {"atr", Empty}
          PROVE  LET r2 == Class!Reply(c2, "parameters", sq, "none", data, ParamLen)
                 IN r2 \in Replies /\ r2.seq = sq /\ r2.type = "parameters"
      BY <3>2, ReplyType
    <3> QED BY <1>0, <3>1, <3>3
  <2>3. Class!queue_parameters(c2, m.seq) = Class!queue_response(Class!clear_rx(c2), r)
    BY DEF Class!queue_parameters
  <2> HIDE DEF r
  <2>4. Replied(c, Class!queue_response(Class!clear_rx(c2), r), c.head, r)
    BY <1>c, <2>2, RepliedLemma
  <2> QED BY <2>2, <2>3, <2>4
<1>4. CASE ~Class!Refused(c, m) /\ m.cmd = "power_off"
  <2> DEFINE off == [c EXCEPT !.powered = FALSE]
  <2>1. Class!dispatch_rx(c) = Class!SlotStatus(off, m.seq)
    BY <1>4 DEF Class!dispatch_rx
  <2>2. /\ off \in Classes /\ off.tx = c.tx /\ off.q = c.q /\ off.ep = c.ep
        /\ off.head = c.head /\ off.pending = Empty /\ off.awaiting = FALSE
    BY DEF Classes
  <2> HIDE DEF off
  <2> QED BY <1>2, <1>4, <1>b, <2>1, <2>2
<1>5. CASE ~Class!Refused(c, m) /\ m.cmd = "slot_status"
  <2>1. Class!dispatch_rx(c) = Class!SlotStatus(c, m.seq)
    BY <1>5 DEF Class!dispatch_rx
  <2> QED BY <1>2, <1>5, <1>b, <2>1
<1>6. CASE ~Class!Refused(c, m) /\ m.cmd = "get_params"
  <2>1. Class!dispatch_rx(c) = Class!queue_parameters(c, m.seq)
    BY <1>6 DEF Class!dispatch_rx
  <2> QED BY <1>2, <1>6, <1>c, <2>1
<1>7. CASE ~Class!Refused(c, m) /\ m.cmd = "set_params"
  <2>1. CASE m.level /\ m.dw = ParamLen
    <3> DEFINE c2 == [c EXCEPT !.params = m.payload]
    <3>1. Class!dispatch_rx(c) = Class!queue_parameters(c2, m.seq)
      BY <1>7, <2>1 DEF Class!dispatch_rx
    <3>2. /\ c2 \in Classes /\ c2.tx = c.tx /\ c2.q = c.q /\ c2.ep = c.ep
          /\ c2.head = c.head /\ c2.pending = Empty /\ c2.awaiting = FALSE
      BY <1>2, <1>7 DEF Classes
    <3> HIDE DEF c2
    <3> QED BY <1>2, <1>7, <1>c, <3>1, <3>2
  <2>2. CASE ~(m.level /\ m.dw = ParamLen)
    <3>1. Class!dispatch_rx(c) = Class!Fail(c, "slot_status", m.seq, "not_supported")
      BY <1>7, <2>2 DEF Class!dispatch_rx
    <3> QED BY <3>1, FailLemma
  <2> QED BY <2>1, <2>2
<1>8. CASE ~Class!Refused(c, m) /\ m.cmd = "abort"
  <2> DEFINE c2 == [c EXCEPT !.pending = Empty, !.awaiting = FALSE, !.answering = Empty]
  <2>1. Class!dispatch_rx(c) = Class!SlotStatus(c2, m.seq)
    BY <1>8 DEF Class!dispatch_rx
  <2>2. /\ c2 \in Classes /\ c2.tx = c.tx /\ c2.q = c.q /\ c2.ep = c.ep
        /\ c2.head = c.head /\ c2.pending = Empty /\ c2.awaiting = FALSE
    BY DEF Classes
  <2> HIDE DEF c2
  <2> QED BY <1>2, <1>8, <1>b, <2>1, <2>2
<1>9. CASE ~Class!Refused(c, m) /\ m.cmd = "xfr_block"
  <2>1. Class!dispatch_rx(c) = Class!Xfr(c, m)
    BY <1>9 DEF Class!dispatch_rx
  <2>2. CASE ~m.level
    <3>1. Class!Xfr(c, m) = Class!Fail(c, "data_block", m.seq, "not_supported")
      BY <2>2 DEF Class!Xfr
    <3>2. \E r \in Replies : Replied(c, Class!Fail(c, "data_block", m.seq, "not_supported"), m, r)
      BY <1>2, <1>9, FailLemma
    <3> QED BY <2>1, <3>1, <3>2
  <2>3. CASE m.level
    <3> DEFINE c2 == [c EXCEPT !.pending = m.payload, !.answering = m.seq]
    <3>1. Class!Xfr(c, m) = Class!clear_rx(c2)
      BY <2>3 DEF Class!Xfr
    <3>2. /\ c2 \in Classes /\ c2.tx = c.tx /\ c2.q = c.q /\ c2.ep = c.ep
          /\ c2.head = c.head /\ c2.pending = m.payload /\ c2.answering = m.seq
          /\ c2.awaiting = FALSE
      BY <1>0, <1>2, <1>9 DEF Classes
    <3> HIDE DEF c2
    <3>3. Held(c, Class!clear_rx(c2), m)
      BY <1>2, <1>9, <3>2, ClearLemma DEF Held
    <3> QED BY <2>1, <3>1, <3>3
  <2> QED BY <2>2, <2>3
<1>10. CASE ~Class!Refused(c, m) /\ m.cmd = "unknown"
  <2>1. Class!dispatch_rx(c) = Class!Fail(c, "slot_status", m.seq, "not_supported")
    BY <1>10 DEF Class!dispatch_rx
  <2> QED BY <2>1, FailLemma
<1> QED
  BY <1>0, <1>1, <1>3, <1>4, <1>5, <1>6, <1>7, <1>8, <1>9, <1>10 DEF Class!Commands

-----------------------------------------------------------------------------
(* What drains, in order: a reply goes out packet by packet, and the host    *)
(* has read what is before the packet in the endpoint.                       *)
Shape(e, t, q, g) ==
    /\ e \in InPackets \cup {Empty} /\ t \in Draining \cup {Empty}
    /\ q \in Replies \cup {Empty} /\ g \in Partials \cup {Empty}
    /\ q # Empty => t # Empty
    /\ t # Empty => t.sent < t.reply.len
    /\ g # Empty => \/ e # Empty /\ e.reply = g.reply /\ e.from = g.n
                    \/ e = Empty /\ t = [reply |-> g.reply, sent |-> g.n]
    /\ g = Empty /\ e # Empty => e.from = 0
    /\ g = Empty /\ e = Empty /\ t # Empty => t.sent = 0
    /\ e # Empty => /\ e.to <= e.reply.len
                    /\ e.to < e.reply.len => t = [reply |-> e.reply, sent |-> e.to]
                    /\ e.to = e.reply.len /\ t # Empty => t.sent = 0

\* The replies on their way, and whether one of them has the bSeq s.
Flight(e, t, q) == {p.reply : p \in {e, t} \ {Empty}} \cup ({q} \ {Empty})
Flies(e, t, q, s) == \/ e # Empty /\ e.reply.seq = s
                     \/ t # Empty /\ t.reply.seq = s
                     \/ q # Empty /\ q.seq = s

Complete(e) == e # Empty /\ e.to = e.reply.len
OfWant(w, r) == w # Empty /\ r.seq = w.seq
Stale(w, P, r) == r.seq \notin P /\ ~OfWant(w, r)
Live(w) == w = Empty \/ w.cmd # "abort"

\* The reply the host waits for is the last.
Last(e, t, q, w) ==
    /\ Complete(e) /\ OfWant(w, e.reply) => t = Empty
    /\ t # Empty /\ OfWant(w, t.reply) => q = Empty

\* Unless the host aborts: nothing stale in the queue, and before it only if it goes out at
\* once; a probe is answered once; the reply waited for is queued only behind an earlier
\* one to the same command (whose zero-length packet was answered too) or to a probe.
Queue(e, t, q, g, w, P) ==
    /\ q # Empty => ~Stale(w, P, q)
    /\ t # Empty /\ Stale(w, P, t.reply) => e = Empty /\ g = Empty /\ t.reply.len <= PS
    /\ Complete(e) /\ e.reply.seq \in P => /\ t # Empty => t.reply.seq # e.reply.seq
                                           /\ q # Empty => q.seq # e.reply.seq
    /\ t # Empty /\ t.reply.seq \in P /\ q # Empty => q.seq # t.reply.seq
    /\ q # Empty /\ OfWant(w, q) => /\ ~(Complete(e) /\ OfWant(w, e.reply))
                                    /\ OfWant(w, t.reply) \/ t.reply.seq \in P
    /\ Complete(e) /\ OfWant(w, e.reply) /\ t # Empty /\ OfWant(w, t.reply) =>
         t.reply.len <= PS
    /\ t # Empty /\ OfWant(w, t.reply) /\ q # Empty /\ OfWant(w, q) => q.len <= PS

\* Who waits for what.  m says whether a transfer, whose command has bSeq s, is arriving or
\* has only its zero-length packet left; x is the bSeq of the APDU the slot holds.
Core(e, t, q, g, w, P, m, s, x) ==
    /\ P \subseteq Nat /\ \A a, b \in P : a = b
    /\ w \in Wants \cup {Empty} /\ s \in Nat /\ x \in Nat \cup {Empty}
    /\ m \in {"none", "arriving", "zlp"}
    /\ w # Empty => w.seq \notin P
    /\ m # "none" => \/ w # Empty /\ s = w.seq
                     \/ s \in P /\ Live(w)
                     \/ w = Empty /\ m = "zlp"
    /\ m = "zlp" => s \notin P /\ Live(w)
    /\ m = "arriving" => ~Flies(e, t, q, s) /\ s # x
    /\ x # Empty => /\ ~Flies(e, t, q, x) /\ w # Empty /\ x \notin P
                    /\ IF Live(w) THEN x = w.seq
                       ELSE x # w.seq /\ m = "arriving" /\ s = w.seq
    /\ w # Empty => \/ m = "arriving" /\ s = w.seq
                    \/ x = w.seq
                    \/ Flies(e, t, q, w.seq)
    /\ ~Live(w) => P = {} /\ (Flies(e, t, q, w.seq) => m = "none" /\ x = Empty)
    /\ w # Empty /\ (m = "zlp" \/ ~Live(w)) => Last(e, t, q, w)
    /\ w = Empty /\ m = "zlp" => e = Empty /\ t = Empty /\ q = Empty
    /\ Live(w) => Queue(e, t, q, g, w, P)

LEMMA ShapeFlushed ==
    ASSUME NEW e, NEW t, NEW q, NEW g, NEW e2, NEW t2, NEW q2,
           Shape(e, t, q, g), Flushed(e, t, q, e2, t2, q2)
    PROVE  /\ Shape(e2, t2, q2, g)
           /\ Flight(e2, t2, q2) = Flight(e, t, q)
           /\ \A s : Flies(e2, t2, q2, s) <=> Flies(e, t, q, s)
<1>1. CASE (e # Empty \/ t = Empty) /\ e2 = e /\ t2 = t /\ q2 = q
  BY <1>1
<1>2. CASE /\ e = Empty /\ t # Empty
           /\ e2 \in InPackets /\ e2.reply = t.reply /\ e2.from = t.sent
           /\ e2.to < t.reply.len /\ e2.to = t.sent + PS
           /\ q2 = q /\ t2 = [reply |-> t.reply, sent |-> e2.to]
  <2>1. t \in Draining /\ t.reply \in Replies /\ t.reply.len \in Nat /\ t.sent \in Nat
        /\ e2.to \in Nat /\ e2 # Empty
    BY <1>2, EmptyIsNone DEF Shape, Draining, Replies, InPackets
  <2>2. t2 \in Draining /\ t2 # Empty /\ t2.reply = t.reply /\ t2.sent = e2.to
    BY <1>2, <2>1, EmptyIsNone DEF Draining
  <2>3. g # Empty => g.reply = t.reply /\ g.n = t.sent
    BY <1>2 DEF Shape
  <2>4. Shape(e2, t2, q2, g)
    BY <1>2, <2>1, <2>2, <2>3 DEF Shape
  <2>5. Flight(e2, t2, q2) = Flight(e, t, q)
    BY <1>2, <2>1, <2>2 DEF Flight
  <2>6. \A s : Flies(e2, t2, q2, s) <=> Flies(e, t, q, s)
    BY <1>2, <2>1, <2>2 DEF Flies
  <2> QED BY <2>4, <2>5, <2>6
<1>3. CASE /\ e = Empty /\ t # Empty
           /\ e2 \in InPackets /\ e2.reply = t.reply /\ e2.from = t.sent
           /\ e2.to = t.reply.len /\ q2 = Empty
           /\ t2 = IF q = Empty THEN Empty ELSE [reply |-> q, sent |-> 0]
  <2>1. t \in Draining /\ t.reply \in Replies /\ t.reply.len \in Nat /\ t.sent \in Nat
        /\ e2.to \in Nat /\ e2 # Empty
    BY <1>3, EmptyIsNone DEF Shape, Draining, Replies, InPackets
  <2>2. q # Empty => /\ t2 \in Draining /\ t2 # Empty /\ t2.reply = q /\ t2.sent = 0
                     /\ 0 < q.len
    BY <1>3, EmptyIsNone, Lengths DEF Draining, Shape, Replies
  <2>3. g # Empty => g.reply = t.reply /\ g.n = t.sent
    BY <1>3 DEF Shape
  <2>4. Shape(e2, t2, q2, g)
    BY <1>3, <2>1, <2>2, <2>3 DEF Shape
  <2>5. Flight(e2, t2, q2) = Flight(e, t, q)
    BY <1>3, <2>1, <2>2 DEF Flight
  <2>6. \A s : Flies(e2, t2, q2, s) <=> Flies(e, t, q, s)
    BY <1>3, <2>1, <2>2 DEF Flies
  <2> QED BY <2>4, <2>5, <2>6
<1> QED
  BY <1>1, <1>2, <1>3 DEF Flushed, Shape, InPackets, Draining, Replies

\* The queue before the flush that ends queue_response.
LEMMA ShapeQueued ==
    ASSUME NEW e, NEW t, NEW q, NEW g, NEW e2, NEW t2, NEW q2, NEW r \in Replies,
           Shape(e, t, q, g), Queued(e, t, q, e2, t2, q2, r)
    PROVE  /\ Shape(e2, t2, q2, g) /\ e2 # Empty
           /\ Flight(e2, t2, q2) \subseteq Flight(e, t, q) \cup {r}
           /\ Flies(e2, t2, q2, r.seq)
           /\ \A s : Flies(e2, t2, q2, s) => Flies(e, t, q, s) \/ s = r.seq
<1>1. r # Empty /\ r.len \in Nat /\ 0 < r.len
  BY EmptyIsNone, Lengths DEF Replies
<1>2. CASE t = Empty
  <2> DEFINE t1 == [reply |-> r, sent |-> 0]
  <2>1. t1 \in Draining /\ t1 # Empty /\ t1.reply = r /\ t1.sent = 0
    BY EmptyIsNone DEF Draining
  <2> HIDE DEF t1
  <2>2. q = Empty /\ Flushed(e, t1, q, e2, t2, q2)
    BY <1>2 DEF Shape, Queued, t1
  <2>3. e # Empty => e.to = e.reply.len
    BY <1>2, EmptyIsNone DEF Shape, InPackets, Replies, Draining
  <2>a. g # Empty => e # Empty /\ e.reply = g.reply /\ e.from = g.n
    <3> SUFFICES ASSUME g # Empty PROVE e # Empty /\ e.reply = g.reply /\ e.from = g.n
      OBVIOUS
    <3>1. [reply |-> g.reply, sent |-> g.n] \in Draining
      BY DEF Shape, Partials, Draining
    <3> QED BY <1>2, <3>1, EmptyIsNone DEF Shape
  <2>b. e # Empty => e.to <= e.reply.len /\ ~(e.to < e.reply.len)
    BY <2>3 DEF Shape, InPackets, Replies
  <2>4. Shape(e, t1, q, g)
    BY <1>1, <1>2, <2>1, <2>2, <2>3, <2>a, <2>b DEF Shape
  <2>5. Flight(e, t1, q) \subseteq Flight(e, t, q) \cup {r}
    BY <1>2, <2>1 DEF Flight
  <2>6. /\ Flies(e, t1, q, r.seq)
        /\ \A s : Flies(e, t1, q, s) => Flies(e, t, q, s) \/ s = r.seq
    BY <1>2, <2>1 DEF Flies
  <2>7. e2 # Empty
    BY <2>1, <2>2, EmptyIsNone DEF Flushed
  <2> QED BY <2>2, <2>4, <2>5, <2>6, <2>7, ShapeFlushed
<1>3. CASE t # Empty
  <2>1. Flushed(e, t, r, e2, t2, q2)
    BY <1>3 DEF Queued
  <2>2. Shape(e, t, r, g)
    BY <1>3 DEF Shape
  <2>3. Flight(e, t, r) \subseteq Flight(e, t, q) \cup {r}
    BY DEF Flight
  <2>4. /\ Flies(e, t, r, r.seq)
        /\ \A s : Flies(e, t, r, s) => Flies(e, t, q, s) \/ s = r.seq
    BY <1>1 DEF Flies
  <2>5. e2 # Empty
    BY <1>3, <2>1, EmptyIsNone DEF Flushed
  <2> QED BY <2>1, <2>2, <2>3, <2>4, <2>5, ShapeFlushed
<1> QED BY <1>2, <1>3

\* The three outcomes of a flush, with the facts about them the provers need.
Wrote(e, t, q, e2, t2, q2) ==
    /\ e = Empty /\ t # Empty /\ e2 # Empty /\ e2.reply = t.reply
    /\ \/ /\ e2.to # e2.reply.len /\ t2 # Empty /\ t2.reply = t.reply /\ q2 = q
          /\ t.reply.len > PS
       \/ /\ e2.to = e2.reply.len /\ q2 = Empty
          /\ q = Empty => t2 = Empty
          /\ q # Empty => t2 # Empty /\ t2.reply = q

LEMMA FlushedCases ==
    ASSUME NEW e, NEW t, NEW q, NEW g, NEW e2, NEW t2, NEW q2,
           Shape(e, t, q, g), Flushed(e, t, q, e2, t2, q2)
    PROVE  \/ e2 = e /\ t2 = t /\ q2 = q /\ (e # Empty \/ t = Empty)
           \/ Wrote(e, t, q, e2, t2, q2)
<1> SUFFICES ASSUME e = Empty /\ t # Empty PROVE Wrote(e, t, q, e2, t2, q2)
  BY DEF Flushed
<1>1. /\ e2 \in InPackets /\ e2.reply = t.reply /\ e2.from = t.sent /\ e2.to <= t.reply.len
      /\ e2.to = t.reply.len \/ e2.to = t.sent + PS
      /\ \/ /\ e2.to < t.reply.len /\ q2 = q
            /\ t2 = [reply |-> t.reply, sent |-> e2.to]
         \/ /\ e2.to = t.reply.len /\ q2 = Empty
            /\ t2 = IF q = Empty THEN Empty ELSE [reply |-> q, sent |-> 0]
  BY DEF Flushed
<1>2. /\ t.reply \in Replies /\ t.reply.len \in Nat /\ t.sent \in Nat /\ e2.to \in Nat
      /\ e2 # Empty /\ PS \in Nat
  BY <1>1, EmptyIsNone, Lengths DEF Shape, Draining, Replies, InPackets, PS
<1>3. [reply |-> t.reply, sent |-> e2.to] # Empty
  <2>1. [reply |-> t.reply, sent |-> e2.to] \in Draining
    BY <1>2 DEF Draining
  <2> QED BY <2>1, EmptyIsNone
<1>4. q # Empty => [reply |-> q, sent |-> 0] # Empty
  <2>1. q # Empty => [reply |-> q, sent |-> 0] \in Draining
    BY DEF Draining, Shape
  <2> QED BY <2>1, EmptyIsNone
<1> QED BY <1>1, <1>2, <1>3, <1>4 DEF Wrote

\* What a queued reply r makes of the queue.
Behind(e, t, q, e2, t2, q2, r) ==
    \/ e # Empty /\ t = Empty /\ e2 = e /\ t2 # Empty /\ t2.reply = r /\ q2 = Empty
    \/ e # Empty /\ t # Empty /\ e2 = e /\ t2 = t /\ q2 = r
    \/ /\ e = Empty /\ t = Empty /\ e2 # Empty /\ e2.reply = r /\ q2 = Empty
       /\ \/ e2.to = r.len /\ t2 = Empty
          \/ e2.to # r.len /\ t2 # Empty /\ t2.reply = r /\ r.len > PS
    \/ /\ e = Empty /\ t # Empty /\ e2 # Empty /\ e2.reply = t.reply
       /\ \/ e2.to = t.reply.len /\ t2 # Empty /\ t2.reply = r /\ q2 = Empty
          \/ e2.to # t.reply.len /\ t2 # Empty /\ t2.reply = t.reply /\ q2 = r /\ t.reply.len > PS

LEMMA QueuedCases ==
    ASSUME NEW e, NEW t, NEW q, NEW g, NEW e2, NEW t2, NEW q2, NEW r \in Replies,
           Shape(e, t, q, g), Queued(e, t, q, e2, t2, q2, r)
    PROVE  Behind(e, t, q, e2, t2, q2, r)
<1>1. r # Empty /\ r.len \in Nat /\ 0 < r.len
  BY EmptyIsNone, Lengths DEF Replies
<1>2. CASE t = Empty
  <2> DEFINE t1 == [reply |-> r, sent |-> 0]
  <2>1. t1 \in Draining /\ t1 # Empty /\ t1.reply = r /\ t1.sent = 0
    BY EmptyIsNone DEF Draining
  <2> HIDE DEF t1
  <2>2. q = Empty /\ Flushed(e, t1, q, e2, t2, q2)
    BY <1>2 DEF Shape, Queued, t1
  <2>3. CASE e # Empty
    BY <1>2, <2>1, <2>2, <2>3 DEF Flushed, Behind
  <2>4. CASE e = Empty
    <3>1. Shape(e, t1, q, Empty)
      BY <1>1, <1>2, <2>1, <2>2, <2>4 DEF Shape
    <3>2. Wrote(e, t1, q, e2, t2, q2)
      BY <2>1, <2>2, <2>4, <3>1, FlushedCases
    <3> QED BY <1>2, <2>1, <2>2, <2>4, <3>2 DEF Wrote, Behind
  <2> QED BY <2>3, <2>4
<1>3. CASE t # Empty
  <2>1. Flushed(e, t, r, e2, t2, q2)
    BY <1>3 DEF Queued
  <2>2. Shape(e, t, r, g)
    BY <1>3 DEF Shape
  <2>3. \/ e2 = e /\ t2 = t /\ q2 = r /\ (e # Empty \/ t = Empty)
        \/ Wrote(e, t, r, e2, t2, q2)
    BY <2>1, <2>2, FlushedCases
  <2> QED BY <1>1, <1>3, <2>3 DEF Wrote, Behind
<1> QED BY <1>2, <1>3

\* A flush changes nobody's wait.
LEMMA CoreFlushed ==
    ASSUME NEW e, NEW t, NEW q, NEW g, NEW e2, NEW t2, NEW q2, NEW w, NEW P, NEW m, NEW s,
           NEW x, Shape(e, t, q, g), Flushed(e, t, q, e2, t2, q2),
           Core(e, t, q, g, w, P, m, s, x)
    PROVE  Core(e2, t2, q2, g, w, P, m, s, x)
<1>1. CASE e2 = e /\ t2 = t /\ q2 = q
  BY <1>1
<1>2. CASE Wrote(e, t, q, e2, t2, q2)
  <2>1. \A y : Flies(e2, t2, q2, y) <=> Flies(e, t, q, y)
    BY ShapeFlushed
  <2>2. Queue(e, t, q, g, w, P) => Queue(e2, t2, q2, g, w, P)
    <3>1. t.reply \in Replies /\ t.reply.len \in Nat /\ PS \in Nat
      BY <1>2, Lengths DEF Wrote, Shape, Draining, Replies, PS
    <3>2. CASE /\ e2.to # e2.reply.len /\ t2 # Empty /\ t2.reply = t.reply /\ q2 = q
               /\ t.reply.len > PS
      <4>1. ~(t.reply.len <= PS) /\ ~Complete(e2) /\ ~Complete(e)
        BY <1>2, <3>1, <3>2 DEF Complete, Wrote
      <4> QED BY <1>2, <3>2, <4>1 DEF Queue, Wrote
    <3>3. CASE /\ e2.to = e2.reply.len /\ q2 = Empty
               /\ q = Empty => t2 = Empty
               /\ q # Empty => t2 # Empty /\ t2.reply = q
      <4>1. Complete(e2) /\ ~Complete(e)
        BY <1>2, <3>3 DEF Complete, Wrote
      <4> QED BY <1>2, <3>3, <4>1 DEF Queue, Wrote
    <3> QED BY <1>2, <3>2, <3>3 DEF Wrote
  <2>3. Last(e, t, q, w) => Last(e2, t2, q2, w)
    BY <1>2 DEF Last, Wrote, Complete
  <2> QED BY <1>2, <2>1, <2>2, <2>3 DEF Core, Wrote
<1> QED BY <1>1, <1>2, FlushedCases

\* A command that has arrived is answered.
LEMMA CoreArrived ==
    ASSUME NEW e, NEW t, NEW q, NEW g, NEW e2, NEW t2, NEW q2, NEW w, NEW P, NEW s,
           NEW r \in Replies, NEW m2 \in {"none", "zlp"},
           Shape(e, t, q, g), Queued(e, t, q, e2, t2, q2, r),
           Core(e, t, q, g, w, P, "arriving", s, Empty), r.seq = s,
           m2 = "zlp" => s \notin P /\ Live(w), ~Live(w) => r.len <= PS
    PROVE  Core(e2, t2, q2, g, w, P, m2, s, Empty)
<1>1. Behind(e, t, q, e2, t2, q2, r) /\ r # Empty /\ e2 # Empty
  BY QueuedCases, ShapeQueued, EmptyIsNone
<1>2. Flies(e2, t2, q2, s) /\ \A y : Flies(e2, t2, q2, y) => Flies(e, t, q, y) \/ y = s
  BY ShapeQueued
<1>3. ~Flies(e, t, q, s)
  BY DEF Core
<1>4. w # Empty => w.seq \in Nat /\ w.seq # Empty
  BY EmptyIsNone DEF Core, Wants
<1>5. r.len \in Nat /\ PS \in Nat
  BY Lengths DEF Replies, PS
<1>6. w # Empty => Flies(e2, t2, q2, w.seq)
  <2>1. CASE w # Empty /\ s = w.seq
    BY <1>2, <2>1
  <2>2. CASE w # Empty /\ s # w.seq
    <3>1. s \in P /\ Live(w) /\ P = {s} /\ Flies(e, t, q, w.seq) /\ Queue(e, t, q, g, w, P)
      BY <1>4, <2>2 DEF Core
    <3>2. (q # Empty => t # Empty) /\ (q # Empty /\ q.seq = w.seq => t.reply.seq = w.seq)
      BY <1>3, <2>2, <3>1 DEF Shape, Queue, Flies, OfWant
    <3> QED BY <1>1, <1>3, <2>2, <3>1, <3>2 DEF Behind, Flies
  <2> QED BY <2>1, <2>2
<1>7. w # Empty /\ (m2 = "zlp" \/ ~Live(w)) => Last(e2, t2, q2, w)
  <2> SUFFICES ASSUME w # Empty, m2 = "zlp" \/ ~Live(w) PROVE Last(e2, t2, q2, w)
    OBVIOUS
  <2>1. s = w.seq
    BY DEF Core
  <2> QED BY <1>1, <1>3, <2>1 DEF Behind, Flies, Last, Complete, OfWant
<1>8. Live(w) => Queue(e2, t2, q2, g, w, P)
  <2> SUFFICES ASSUME Live(w) PROVE Queue(e2, t2, q2, g, w, P)
    OBVIOUS
  <2>1. Queue(e, t, q, g, w, P)
    BY DEF Core
  <2>2. /\ (w # Empty /\ s = w.seq) \/ s \in P
        /\ w # Empty => w.seq \notin P
        /\ s \in P => P = {s}
    BY DEF Core
  <2>3. ~Stale(w, P, r)
    BY <2>2 DEF Stale, OfWant
  <2>4. t # Empty => t.reply.seq # s
    BY <1>3 DEF Flies
  <2>5. e # Empty => e.reply.seq # s
    BY <1>3 DEF Flies
  <2>6. t # Empty => t.reply.len \in Nat
    BY DEF Shape, Draining, Replies
  <2>7. CASE e # Empty /\ t = Empty /\ e2 = e /\ t2 # Empty /\ t2.reply = r /\ q2 = Empty
    BY <2>1, <2>2, <2>3, <2>5, <2>7 DEF Queue, OfWant, Complete
  <2>8. CASE e # Empty /\ t # Empty /\ e2 = e /\ t2 = t /\ q2 = r
    BY <2>1, <2>2, <2>3, <2>4, <2>5, <2>8 DEF Queue, OfWant, Complete, Stale
  <2>9. CASE e = Empty /\ t = Empty /\ e2 # Empty /\ e2.reply = r /\ q2 = Empty
             /\ \/ (e2.to = r.len /\ t2 = Empty)
                \/ (e2.to # r.len /\ t2 # Empty /\ t2.reply = r /\ r.len > PS)
    BY <2>1, <2>2, <2>3, <2>9 DEF Queue, OfWant, Complete, Stale
  <2>10. CASE e = Empty /\ t # Empty /\ e2 # Empty /\ e2.reply = t.reply
              /\ e2.to = t.reply.len /\ t2 # Empty /\ t2.reply = r /\ q2 = Empty
    BY <2>1, <2>2, <2>3, <2>4, <2>10 DEF Queue, OfWant, Complete, Stale
  <2>11. CASE e = Empty /\ t # Empty /\ e2 # Empty /\ e2.reply = t.reply
              /\ e2.to # t.reply.len /\ t2 # Empty /\ t2.reply = t.reply /\ q2 = r
              /\ t.reply.len > PS
    BY <1>5, <2>1, <2>2, <2>3, <2>4, <2>6, <2>11 DEF Queue, OfWant, Complete, Stale
  <2> QED BY <1>1, <2>7, <2>8, <2>9, <2>10, <2>11 DEF Behind
<1> QED
  BY <1>2, <1>4, <1>6, <1>7, <1>8 DEF Core

\* The zero-length packet after a command that has arrived is answered too.
LEMMA CoreZlp ==
    ASSUME NEW e, NEW t, NEW q, NEW g, NEW e2, NEW t2, NEW q2, NEW w, NEW P, NEW s,
           NEW r \in Replies,
           Shape(e, t, q, g), Queued(e, t, q, e2, t2, q2, r),
           Core(e, t, q, g, w, P, "zlp", s, Empty), r.seq = s, r.len <= PS
    PROVE  Core(e2, t2, q2, g, w, P, "none", s, Empty)
<1>1. Behind(e, t, q, e2, t2, q2, r) /\ r # Empty
  BY QueuedCases, EmptyIsNone
<1>2. Flies(e2, t2, q2, s) /\ \A y : Flies(e2, t2, q2, y) => Flies(e, t, q, y) \/ y = s
  BY ShapeQueued
<1>3. /\ r.len \in Nat /\ PS \in Nat /\ ~(r.len > PS)
      /\ t # Empty => t.reply.len \in Nat
  BY Lengths DEF Replies, PS, Shape, Draining
<1>4. Live(w) /\ s \notin P /\ Queue(e, t, q, g, w, P)
  BY DEF Core
<1>5. w # Empty => s = w.seq /\ w.seq # Empty
  BY EmptyIsNone DEF Core, Wants
<1>6. Queue(e2, t2, q2, g, w, P)
  <2>1. CASE w = Empty
    <3>1. e2 # Empty /\ t2 = Empty /\ q2 = Empty /\ e2.reply = r
      BY <1>1, <1>3, <2>1 DEF Behind, Core
    <3> QED BY <1>4, <2>1, <3>1 DEF Queue, Complete
  <2>2. CASE w # Empty
    <3>1. Last(e, t, q, w) /\ Flies(e, t, q, w.seq)
      BY <1>4, <1>5, <2>2, EmptyIsNone DEF Core, Wants
    <3>2. OfWant(w, r) /\ ~Stale(w, P, r) /\ w.seq \notin P
      BY <1>4, <1>5, <2>2 DEF OfWant, Stale
    <3>3. CASE e # Empty /\ t = Empty /\ e2 = e /\ t2 # Empty /\ t2.reply = r /\ q2 = Empty
      BY <1>3, <1>4, <1>5, <3>1, <3>2, <3>3 DEF Queue, OfWant, Complete
    <3>4. CASE e # Empty /\ t # Empty /\ e2 = e /\ t2 = t /\ q2 = r
      <4>1. (q # Empty /\ OfWant(w, q)) \/ OfWant(w, t.reply)
        <5>1. e.to # e.reply.len => t.reply = e.reply
          BY <3>4 DEF Shape, InPackets, Replies
        <5> QED BY <3>1, <3>4, <2>2, <5>1 DEF Flies, OfWant, Last, Complete
      <4> QED BY <1>3, <1>4, <1>5, <3>1, <3>2, <3>4, <4>1 DEF Queue, OfWant, Complete, Stale, Last
    <3>5. CASE e = Empty /\ t = Empty /\ e2 # Empty /\ e2.reply = r /\ q2 = Empty
               /\ e2.to = r.len /\ t2 = Empty
      BY <1>4, <3>2, <3>5 DEF Queue, OfWant, Complete, Stale
    <3>6. CASE e = Empty /\ t # Empty /\ e2 # Empty /\ e2.reply = t.reply
               /\ e2.to = t.reply.len /\ t2 # Empty /\ t2.reply = r /\ q2 = Empty
      BY <1>3, <1>4, <1>5, <3>2, <3>6 DEF Queue, OfWant, Complete, Stale
    <3>7. CASE e = Empty /\ t # Empty /\ e2 # Empty /\ e2.reply = t.reply
               /\ e2.to # t.reply.len /\ t2 # Empty /\ t2.reply = t.reply /\ q2 = r
               /\ t.reply.len > PS
      <4>1. (q # Empty /\ OfWant(w, q)) \/ OfWant(w, t.reply)
        BY <3>1, <3>7, <2>2 DEF Flies, OfWant
      <4> QED BY <1>3, <1>4, <1>5, <3>1, <3>2, <3>7, <4>1 DEF Queue, OfWant, Complete, Stale, Last
    <3> QED BY <1>1, <1>3, <3>3, <3>4, <3>5, <3>6, <3>7 DEF Behind
  <2> QED BY <2>1, <2>2
<1> QED
  BY <1>2, <1>4, <1>5, <1>6 DEF Core

\* An APDU that has arrived is held.
LEMMA CoreHeld ==
    ASSUME NEW e, NEW t, NEW q, NEW g, NEW w, NEW P, NEW s, NEW m2 \in {"none", "zlp"},
           Core(e, t, q, g, w, P, "arriving", s, Empty), s \notin P, Live(w)
    PROVE  Core(e, t, q, g, w, P, m2, s, s)
<1>1. w # Empty /\ s = w.seq /\ ~Flies(e, t, q, s) /\ s # Empty
  BY EmptyIsNone DEF Core
<1>2. Last(e, t, q, w)
  BY <1>1 DEF Last, Flies, OfWant, Complete
<1> QED
  BY <1>1, <1>2 DEF Core

\* And answered.
LEMMA CoreServed ==
    ASSUME NEW e, NEW t, NEW q, NEW g, NEW e2, NEW t2, NEW q2, NEW w, NEW P, NEW m, NEW s,
           NEW x, NEW r \in Replies,
           Shape(e, t, q, g), Queued(e, t, q, e2, t2, q2, r),
           Core(e, t, q, g, w, P, m, s, x), x # Empty, r.seq = x
    PROVE  Core(e2, t2, q2, g, w, P, m, s, Empty)
<1>1. Behind(e, t, q, e2, t2, q2, r) /\ r # Empty /\ e2 # Empty
  BY QueuedCases, ShapeQueued, EmptyIsNone
<1>2. Flies(e2, t2, q2, x) /\ \A y : Flies(e2, t2, q2, y) => Flies(e, t, q, y) \/ y = x
  BY ShapeQueued
<1>3. ~Flies(e, t, q, x) /\ w # Empty /\ x \notin P /\ (m = "arriving" => s # x)
  BY DEF Core
<1>4. /\ r.len \in Nat /\ PS \in Nat
      /\ t # Empty => t.reply.len \in Nat
  BY Lengths DEF Replies, PS, Shape, Draining
<1>5. s # Empty
  BY EmptyIsNone DEF Core
<1>6. CASE Live(w)
  <2>1. x = w.seq /\ Queue(e, t, q, g, w, P)
    BY <1>3, <1>6 DEF Core
  <2>2. OfWant(w, r) /\ ~Stale(w, P, r)
    BY <1>3, <2>1 DEF OfWant, Stale
  <2>3. /\ t # Empty => t.reply.seq # x
        /\ e # Empty => e.reply.seq # x
    BY <1>3 DEF Flies
  <2>4. Queue(e2, t2, q2, g, w, P)
    <3>3. CASE e # Empty /\ t = Empty /\ e2 = e /\ t2 # Empty /\ t2.reply = r /\ q2 = Empty
      BY <1>3, <1>4, <2>1, <2>2, <2>3, <3>3 DEF Queue, OfWant, Complete
    <3>4. CASE e # Empty /\ t # Empty /\ e2 = e /\ t2 = t /\ q2 = r
      BY <1>3, <1>4, <2>1, <2>2, <2>3, <3>4 DEF Queue, OfWant, Complete, Stale
    <3>5. CASE e = Empty /\ t = Empty /\ e2 # Empty /\ e2.reply = r /\ q2 = Empty
               /\ \/ (e2.to = r.len /\ t2 = Empty)
                  \/ (e2.to # r.len /\ t2 # Empty /\ t2.reply = r /\ r.len > PS)
      BY <1>3, <2>1, <2>2, <3>5 DEF Queue, OfWant, Complete, Stale
    <3>6. CASE e = Empty /\ t # Empty /\ e2 # Empty /\ e2.reply = t.reply
               /\ e2.to = t.reply.len /\ t2 # Empty /\ t2.reply = r /\ q2 = Empty
      BY <1>3, <2>1, <2>2, <2>3, <3>6 DEF Queue, OfWant, Complete, Stale
    <3>7. CASE e = Empty /\ t # Empty /\ e2 # Empty /\ e2.reply = t.reply
               /\ e2.to # t.reply.len /\ t2 # Empty /\ t2.reply = t.reply /\ q2 = r
               /\ t.reply.len > PS
      BY <1>3, <1>4, <2>1, <2>2, <2>3, <3>7 DEF Queue, OfWant, Complete, Stale
    <3> QED BY <1>1, <3>3, <3>4, <3>5, <3>6, <3>7 DEF Behind
  <2>5. Last(e2, t2, q2, w)
    BY <1>1, <2>1, <2>3 DEF Behind, Last, Complete, OfWant
  <2> QED
    BY <1>2, <1>3, <1>5, <1>6, <2>1, <2>4, <2>5 DEF Core
<1>7. CASE ~Live(w)
  <2>1. x # w.seq /\ m = "arriving" /\ s = w.seq
    BY <1>3, <1>7 DEF Core
  <2>2. ~Flies(e2, t2, q2, w.seq)
    BY <1>2, <2>1 DEF Core
  <2>3. Last(e2, t2, q2, w)
    BY <2>2 DEF Last, Complete, Flies, OfWant
  <2> QED
    BY <1>2, <1>3, <1>5, <1>7, <2>1, <2>2, <2>3 DEF Core
<1> QED BY <1>6, <1>7

\* The host sends a command, with a bSeq nothing else has.
LEMMA CoreSent ==
    ASSUME NEW e, NEW t, NEW q, NEW g, NEW P, NEW s, NEW s2 \in Nat, NEW x, NEW w2 \in Wants,
           Core(e, t, q, g, Empty, P, "none", s, x), w2.seq = s2, w2.cmd # "abort",
           ~Flies(e, t, q, s2), s2 \notin P
    PROVE  Core(e, t, q, g, w2, P, "arriving", s2, x)
<1>1. w2 # Empty /\ s2 # Empty /\ x = Empty /\ Queue(e, t, q, g, Empty, P) /\ Live(w2)
  BY EmptyIsNone DEF Core, Live
<1>2. /\ e # Empty => ~OfWant(w2, e.reply) /\ ~OfWant(Empty, e.reply)
      /\ t # Empty => ~OfWant(w2, t.reply) /\ ~OfWant(Empty, t.reply)
      /\ q # Empty => ~OfWant(w2, q) /\ ~OfWant(Empty, q)
  BY DEF Flies, OfWant
<1>3. Queue(e, t, q, g, w2, P)
  BY <1>1, <1>2 DEF Queue, Stale, Complete
<1> QED
  BY <1>1, <1>3 DEF Core

\* It probes the slot.
LEMMA CoreProbed ==
    ASSUME NEW e, NEW t, NEW q, NEW g, NEW w, NEW s, NEW s2 \in Nat, NEW x,
           Core(e, t, q, g, w, {}, "none", s, x), Live(w),
           ~Flies(e, t, q, s2), w # Empty => w.seq # s2
    PROVE  Core(e, t, q, g, w, {s2}, "arriving", s2, x)
<1>1. s2 # Empty /\ Queue(e, t, q, g, w, {}) /\ (x # Empty => w # Empty /\ x = w.seq)
  BY EmptyIsNone DEF Core
<1>2. /\ e # Empty => e.reply.seq # s2
      /\ t # Empty => t.reply.seq # s2
      /\ q # Empty => q.seq # s2
  BY DEF Flies
<1>3. Queue(e, t, q, g, w, {s2})
  BY <1>1, <1>2 DEF Queue, Stale, Complete
<1> QED
  BY <1>1, <1>3 DEF Core

\* It aborts.
LEMMA CoreAborted ==
    ASSUME NEW e, NEW t, NEW q, NEW g, NEW w, NEW P, NEW s, NEW s2 \in Nat, NEW x,
           NEW w2 \in Wants, Core(e, t, q, g, w, P, "none", s, x), w2.seq = s2,
           w2.cmd = "abort", w # Empty, Live(w), w.seq # s2, ~Flies(e, t, q, s2)
    PROVE  Core(e, t, q, g, w2, {}, "arriving", s2, x)
<1>1. w2 # Empty /\ s2 # Empty /\ ~Live(w2) /\ (x # Empty => x = w.seq)
  BY EmptyIsNone DEF Core, Live
<1>2. Last(e, t, q, w2)
  BY DEF Last, Flies, OfWant, Complete
<1> QED
  BY <1>1, <1>2 DEF Core

\* It reads a packet that does not end its reply.
LEMMA CoreReadPart ==
    ASSUME NEW e, NEW t, NEW q, NEW g, NEW w, NEW P, NEW m, NEW s, NEW x,
           Shape(e, t, q, g), Core(e, t, q, g, w, P, m, s, x), e # Empty, e.to # e.reply.len
    PROVE  LET g2 == [reply |-> e.reply, n |-> e.to]
           IN Shape(Empty, t, q, g2) /\ Core(Empty, t, q, g2, w, P, m, s, x)
<1> DEFINE g2 == [reply |-> e.reply, n |-> e.to]
<1>1. e \in InPackets /\ e.reply \in Replies /\ e.to \in Nat /\ e.reply.len \in Nat
  BY EmptyIsNone DEF Shape, InPackets, Replies
<1>2. g2 \in Partials /\ g2 # Empty /\ g2.reply = e.reply /\ g2.n = e.to
  BY <1>1, EmptyIsNone DEF Partials
<1>3. t = [reply |-> e.reply, sent |-> e.to] /\ t # Empty /\ t.reply = e.reply
  <2>1. t = [reply |-> e.reply, sent |-> e.to]
    BY <1>1 DEF Shape
  <2>2. t \in Draining
    BY <1>1, <2>1 DEF Draining
  <2> QED BY <2>1, <2>2, EmptyIsNone
<1> HIDE DEF g2
<1>4. Shape(Empty, t, q, g2)
  BY <1>2, <1>3 DEF Shape
<1>5. \A y : Flies(Empty, t, q, y) <=> Flies(e, t, q, y)
  BY <1>3 DEF Flies
<1>6. Queue(e, t, q, g, w, P) => Queue(Empty, t, q, g2, w, P)
  BY <1>3 DEF Queue, Complete
<1>7. Last(e, t, q, w) => Last(Empty, t, q, w)
  BY DEF Last, Complete
<1>8. Core(Empty, t, q, g2, w, P, m, s, x)
  BY <1>3, <1>5, <1>6, <1>7 DEF Core
<1> QED BY <1>4, <1>8 DEF g2

\* It reads the last packet of a reply: to the command it waits for, ...
LEMMA ShapeRead ==
    ASSUME NEW e, NEW t, NEW q, NEW g, Shape(e, t, q, g), e # Empty, e.to = e.reply.len
    PROVE  Shape(Empty, t, q, Empty)
BY DEF Shape, InPackets, Replies

LEMMA CoreReadWanted ==
    ASSUME NEW e, NEW t, NEW q, NEW g, NEW w, NEW P, NEW m, NEW s, NEW x,
           Shape(e, t, q, g), Core(e, t, q, g, w, P, m, s, x), e # Empty,
           e.to = e.reply.len, w # Empty, e.reply.seq = w.seq
    PROVE  Core(Empty, t, q, Empty, Empty, P, m, s, x)
<1>1. Complete(e) /\ OfWant(w, e.reply) /\ Flies(e, t, q, w.seq) /\ (q # Empty => t # Empty)
  BY DEF Complete, OfWant, Flies, Shape
<1>2. x = Empty
  BY <1>1 DEF Core
<1>3. \A y : Flies(Empty, t, q, y) => Flies(e, t, q, y)
  BY DEF Flies
<1>4. CASE ~Live(w)
  <2>1. t = Empty /\ q = Empty /\ m = "none" /\ P = {}
    BY <1>1, <1>4 DEF Core, Last
  <2>2. Queue(Empty, t, q, Empty, Empty, P)
    BY <2>1 DEF Queue, Complete
  <2> QED BY <1>2, <2>1, <2>2 DEF Core, Live
<1>5. CASE Live(w)
  <2>1. Queue(e, t, q, g, w, P)
    BY <1>5 DEF Core
  <2>2. Queue(Empty, t, q, Empty, Empty, P)
    BY <1>1, <2>1 DEF Queue, Complete, Stale, OfWant
  <2>3. m = "zlp" => t = Empty /\ q = Empty
    BY <1>1 DEF Core, Last
  <2>4. m = "arriving" => s \in P
    BY <1>1 DEF Core
  <2> QED BY <1>2, <1>3, <2>2, <2>3, <2>4 DEF Core, Live
<1> QED BY <1>4, <1>5

\* ... or another.
LEMMA CoreReadOther ==
    ASSUME NEW e, NEW t, NEW q, NEW g, NEW w, NEW P, NEW m, NEW s, NEW x,
           Shape(e, t, q, g), Core(e, t, q, g, w, P, m, s, x), e # Empty,
           e.to = e.reply.len, ~(w # Empty /\ e.reply.seq = w.seq)
    PROVE  Core(Empty, t, q, Empty, w, P \ {e.reply.seq}, m, s, x)
<1> DEFINE P2 == P \ {e.reply.seq}
<1>1. Complete(e) /\ ~OfWant(w, e.reply) /\ (q # Empty => t # Empty)
  BY DEF Complete, OfWant, Shape
<1>2. \A y : Flies(Empty, t, q, y) => Flies(e, t, q, y)
  BY DEF Flies
<1>3. w # Empty => (Flies(e, t, q, w.seq) => Flies(Empty, t, q, w.seq))
  BY DEF Flies
<1>4. Queue(e, t, q, g, w, P) => Queue(Empty, t, q, Empty, w, P2)
  BY <1>1 DEF Queue, Complete, Stale
<1>5. Last(e, t, q, w) => Last(Empty, t, q, w)
  BY DEF Last, Complete
<1>6. m = "arriving" => (s \in P => s \in P2)
  BY DEF Core, Flies
<1>7. m = "zlp" /\ w = Empty => FALSE
  BY DEF Core
<1>8. P2 \subseteq P /\ (P = {} => P2 = {})
  OBVIOUS
<1> HIDE DEF P2
<1>9. Core(Empty, t, q, Empty, w, P2, m, s, x)
  <2>1. /\ P2 \subseteq Nat /\ \A a, b \in P2 : a = b
        /\ w \in Wants \cup {Empty} /\ s \in Nat /\ x \in Nat \cup {Empty}
        /\ m \in {"none", "arriving", "zlp"}
        /\ w # Empty => w.seq \notin P2
    BY <1>8 DEF Core
  <2>2. /\ m # "none" => \/ w # Empty /\ s = w.seq
                         \/ s \in P2 /\ Live(w)
                         \/ w = Empty /\ m = "zlp"
        /\ m = "zlp" => s \notin P2 /\ Live(w)
    BY <1>6, <1>8 DEF Core
  <2>3. /\ m = "arriving" => ~Flies(Empty, t, q, s) /\ s # x
        /\ x # Empty => /\ ~Flies(Empty, t, q, x) /\ w # Empty /\ x \notin P2
                        /\ IF Live(w) THEN x = w.seq
                           ELSE x # w.seq /\ m = "arriving" /\ s = w.seq
    BY <1>2, <1>8 DEF Core
  <2>4. /\ w # Empty => \/ m = "arriving" /\ s = w.seq
                        \/ x = w.seq
                        \/ Flies(Empty, t, q, w.seq)
        /\ ~Live(w) => P2 = {} /\ (Flies(Empty, t, q, w.seq) => m = "none" /\ x = Empty)
    BY <1>2, <1>3, <1>8 DEF Core
  <2>5. /\ w # Empty /\ (m = "zlp" \/ ~Live(w)) => Last(Empty, t, q, w)
        /\ w = Empty /\ m = "zlp" => Empty = Empty /\ t = Empty /\ q = Empty
        /\ Live(w) => Queue(Empty, t, q, Empty, w, P2)
    BY <1>4, <1>5, <1>7 DEF Core
  <2> QED BY <2>1, <2>2, <2>3, <2>4, <2>5 DEF Core
<1> QED BY <1>9 DEF P2

\* Nothing is on its way.
LEMMA CoreEmpty ==
    ASSUME NEW s \in Nat
    PROVE  /\ Shape(Empty, Empty, Empty, Empty)
           /\ Core(Empty, Empty, Empty, Empty, Empty, {}, "none", s, Empty)
BY DEF Shape, Core, Queue, Live, Complete

-----------------------------------------------------------------------------
(* The packets of a transfer.                                                *)

LEMMA Division ==
    ASSUME NEW a \in Nat, NEW b \in Nat \ {0}
    PROVE  /\ a \div b \in Nat /\ a % b \in Nat /\ a % b < b
           /\ a = (b * (a \div b)) + (a % b)
OBVIOUS

LEMMA Quotient ==
    ASSUME NEW b \in Nat \ {0}, NEW n \in Nat
    PROVE  b * n \in Nat /\ (b * n) % b = 0
OBVIOUS

LEMMA SmallRemainder ==
    ASSUME NEW a \in Nat, NEW b \in Nat, a < b
    PROVE  a % b = a /\ a \div b = 0
OBVIOUS

LEMMA Monotone ==
    ASSUME NEW b \in Nat, NEW i \in Int, NEW j \in Int, i <= j
    PROVE  b * i \in Int /\ b * j \in Int /\ b * i <= b * j
OBVIOUS

LEMMA NextMultiple ==
    ASSUME NEW b \in Nat, NEW i \in Int
    PROVE  b * i \in Int /\ b * (i + 1) = b * i + b /\ b * (i - 1) = b * i - b
OBVIOUS

LEMMA TimesZero ==
    ASSUME NEW b \in Nat, NEW i \in Int, i = 0
    PROVE  b * i = 0
OBVIOUS

OutPackets == [n : 0..PS, head : Headers]
Bytes(o) == PS * (Len(o) - 1) + o[Len(o)].n
Uniform(o, h) ==
    /\ o \in Seq(OutPackets) /\ o # << >>
    /\ \A i \in 1..Len(o) : o[i].head = h /\ (i < Len(o) => o[i].n = PS)

LEMMA PacketsLemma ==
    ASSUME NEW h \in Headers, NEW L \in Nat \ {0}, NEW z \in BOOLEAN
    PROVE  LET o == Packets(h, L, z)
           IN /\ Uniform(o, h) /\ Bytes(o) = L
              /\ o[Len(o)].n = PS \/ o[Len(o)].n = L % PS
              /\ L < PS => o[Len(o)].n # 0
<1> DEFINE K == L \div PS
           rest == L % PS
           full == [i \in 1..K |-> [n |-> PacketSize, head |-> h]]
           last == [n |-> rest, head |-> h]
<1>0. PS \in Nat \ {0} /\ PacketSize = PS
  BY Lengths DEF PS
<1>1. K \in Nat /\ rest \in Nat /\ rest < PS /\ L = (PS * K) + rest
  BY <1>0, Division
<1>2. L < PS => rest = L
  BY <1>0, SmallRemainder
<1> HIDE DEF K, rest
<1>3. /\ full \in Seq(OutPackets) /\ Len(full) = K
      /\ \A i \in 1..K : full[i] = [n |-> PS, head |-> h]
  BY <1>0, <1>1 DEF OutPackets
<1> HIDE DEF full
<1>4. last \in OutPackets /\ last.n = rest /\ last.head = h
  BY <1>0, <1>1 DEF OutPackets
<1> HIDE DEF last
<1>5. CASE rest > 0 \/ z
  <2> DEFINE o == Append(full, last)
  <2>1. Packets(h, L, z) = o
    BY <1>0, <1>5 DEF Packets, full, last, rest, K
  <2>2. /\ o \in Seq(OutPackets) /\ Len(o) = K + 1 /\ o[K + 1] = last
        /\ \A i \in 1..K : o[i] = full[i]
    BY <1>1, <1>3, <1>4
  <2> HIDE DEF o
  <2>3. o # << >>
    BY <1>1, <2>2
  <2>4. \A i \in 1..Len(o) : o[i].head = h /\ (i < Len(o) => o[i].n = PS)
    <3> SUFFICES ASSUME NEW i \in 1..Len(o)
                 PROVE  o[i].head = h /\ (i < Len(o) => o[i].n = PS)
      OBVIOUS
    <3>1. CASE i \in 1..K
      BY <1>3, <2>2, <3>1
    <3>2. CASE i = K + 1
      BY <1>1, <1>4, <2>2, <3>2
    <3> QED BY <1>1, <2>2, <3>1, <3>2
  <2>5. Bytes(o) = L
    <3>1. Len(o) - 1 = K /\ o[Len(o)].n = rest
      BY <1>1, <1>4, <2>2
    <3> QED BY <1>1, <3>1 DEF Bytes
  <2>6. o[Len(o)].n = rest
    BY <1>4, <2>2
  <2>7. L < PS => rest # 0
    BY <1>2
  <2> QED BY <2>1, <2>2, <2>3, <2>4, <2>5, <2>6, <2>7 DEF Uniform, rest
<1>6. CASE ~(rest > 0 \/ z)
  <2>1. Packets(h, L, z) = full
    BY <1>0, <1>6 DEF Packets, full, last, rest, K
  <2>2. rest = 0 /\ L = PS * K
    BY <1>0, <1>1, <1>6
  <2>3. K # 0
    <3> SUFFICES ASSUME K = 0 PROVE FALSE
      OBVIOUS
    <3>1. L = PS * 0
      BY <2>2
    <3> QED BY <1>0, <3>1
  <2>4. full # << >> /\ full[Len(full)].n = PS
    BY <1>1, <1>3, <2>3
  <2>5. \A i \in 1..Len(full) : full[i].head = h /\ full[i].n = PS
    BY <1>3
  <2>6. Bytes(full) = L
    <3>1. PS * (K - 1) = PS * K - PS /\ PS * K \in Int
      BY <1>0, <1>1, NextMultiple
    <3> QED BY <1>0, <1>3, <2>2, <2>4, <3>1 DEF Bytes
  <2> QED BY <1>0, <1>3, <2>1, <2>4, <2>5, <2>6 DEF Uniform
<1> QED BY <1>5, <1>6

LEMMA BytesLemma ==
    ASSUME NEW o, NEW h, Uniform(o, h)
    PROVE  /\ Len(o) \in Nat \ {0} /\ o[Len(o)].n \in 0..PS /\ o[1].head = h
           /\ Bytes(o) \in Nat
           /\ o[1].n \in 0..PS /\ Head(o) = o[1]
           /\ Len(o) = 1 => Bytes(o) = o[1].n /\ Tail(o) = << >>
           /\ Len(o) # 1 => /\ o[1].n = PS /\ Uniform(Tail(o), h)
                            /\ Bytes(o) = PS + Bytes(Tail(o)) /\ Bytes(Tail(o)) \in Nat
                            /\ Tail(o)[Len(Tail(o))] = o[Len(o)]
<1>0. PS \in Nat \ {0}
  BY Lengths DEF PS
<1>1. o \in Seq(OutPackets) /\ Len(o) \in Nat \ {0}
  BY DEF Uniform
<1>2. \A i \in 1..Len(o) : o[i] \in OutPackets /\ o[i].n \in 0..PS
  <2>1. \A i \in 1..Len(o) : o[i] \in OutPackets
    BY <1>1
  <2> QED BY <2>1 DEF OutPackets
<1>3. o[Len(o)].n \in 0..PS /\ o[1].n \in 0..PS /\ o[1].head = h /\ Head(o) = o[1]
  BY <1>1, <1>2 DEF Uniform
<1>4. Bytes(o) \in Nat
  <2>1. Len(o) - 1 \in Nat
    BY <1>1
  <2>2. PS * (Len(o) - 1) \in Nat
    BY <1>0, <2>1
  <2> QED BY <1>0, <1>3, <2>2 DEF Bytes
<1>5. CASE Len(o) = 1
  <2>1. PS * (Len(o) - 1) = 0
    <3>1. Len(o) - 1 \in Int /\ Len(o) - 1 = 0
      BY <1>5
    <3> QED BY ONLY <1>0, <3>1, TimesZero
  <2>2. Tail(o) = << >>
    <3>1. Tail(o) \in Seq(OutPackets) /\ Len(Tail(o)) = 0
      BY <1>1, <1>5
    <3> QED BY <3>1, EmptySeq
  <2> QED BY <1>0, <1>1, <1>3, <1>4, <1>5, <2>1, <2>2 DEF Bytes
<1>6. CASE Len(o) # 1
  <2> DEFINE u == Tail(o)
  <2>1. /\ u \in Seq(OutPackets) /\ Len(u) = Len(o) - 1 /\ Len(u) \in Nat \ {0}
        /\ \A i \in 1..Len(u) : u[i] = o[i + 1]
    BY <1>1, <1>6
  <2> HIDE DEF u
  <2>2. u[Len(u)] = o[Len(o)]
    BY <1>1, <2>1
  <2>3. Uniform(u, h)
    <3>1. u # << >>
      BY <2>1
    <3>2. \A i \in 1..Len(u) : u[i].head = h /\ (i < Len(u) => u[i].n = PS)
      <4> SUFFICES ASSUME NEW i \in 1..Len(u)
                   PROVE  u[i].head = h /\ (i < Len(u) => u[i].n = PS)
        OBVIOUS
      <4>1. i + 1 \in 1..Len(o) /\ (i < Len(u) => i + 1 < Len(o)) /\ u[i] = o[i + 1]
        BY <1>1, <2>1
      <4> QED BY <4>1 DEF Uniform
    <3> QED BY <2>1, <3>1, <3>2 DEF Uniform
  <2>4. o[1].n = PS
    <3>a. \A j \in Nat \ {0} : j # 1 => 1 \in 1..j /\ 1 < j
      OBVIOUS
    <3>1. 1 \in 1..Len(o) /\ 1 < Len(o)
      BY ONLY <1>1, <1>6, <3>a
    <3> QED BY <3>1 DEF Uniform
  <2>5. Bytes(o) = PS + Bytes(u) /\ Bytes(u) \in Nat
    <3> DEFINE j == Len(u)
    <3>1. PS * (j - 1) = PS * j - PS /\ PS * j \in Int
      BY <1>0, <2>1, NextMultiple
    <3>2. Bytes(o) = PS * j + o[Len(o)].n /\ Bytes(u) = PS * (j - 1) + o[Len(o)].n
      BY <1>1, <2>1, <2>2 DEF Bytes
    <3>3. j - 1 \in Nat
      BY <2>1
    <3>4. PS * (j - 1) \in Nat
      BY <1>0, <3>3
    <3> HIDE DEF j
    <3> QED BY <1>0, <1>3, <3>1, <3>2, <3>4
  <2> QED BY <1>1, <1>3, <1>4, <1>6, <2>2, <2>3, <2>4, <2>5 DEF u
<1> QED BY <1>5, <1>6

\* What the host sends: dwLength is that of the bytes sent, except in the three ways
\* PowerOn gets it wrong.
WellFormed(h) ==
    /\ h.cmd = "power_on" => h.dw \in {0, 1, Class!MaxPayloadLen, Class!MaxPayloadLen + 1}
    /\ h.cmd = "xfr_block" => /\ h.dw \in 1..Class!MaxPayloadLen /\ h.payload \in NamedApdus
                              /\ h.payload.ins = "send_remaining" => h.payload.le # NoLe
    /\ h.cmd = "set_params" => h.dw \in 1..Class!MaxPayloadLen /\ h.payload \in AllParams
    /\ h.cmd \notin {"power_on", "xfr_block", "set_params"} => h.dw = 0
Extent(h) ==
    IF h.cmd # "power_on" THEN HeaderLen + h.dw
    ELSE IF h.dw \in {0, 1} THEN HeaderLen
    ELSE IF h.dw = Class!MaxPayloadLen THEN PS * (MaxMsgLen \div PS + 1) ELSE PS

\* The packets o still to come of a transfer of which k bytes are in the buffer.
Transit(o, k, hd, wy) ==
    /\ k \in 0..MaxMsgLen /\ (o = << >> => k = 0)
    /\ o # << >> =>
         /\ Uniform(o, o[1].head) /\ WellFormed(o[1].head)
         /\ o[Len(o)].n = PS \/ o[Len(o)].n = Extent(o[1].head) % PS
         /\ wy # "control" => o[Len(o)].n # 0
         /\ Bytes(o) > 0 => k + Bytes(o) = Extent(o[1].head) /\ (k > 0 => hd = o[1].head)
         /\ Bytes(o) = 0 => k = 0 /\ hd.seq = o[1].head.seq

LEMMA ExtentLemma ==
    ASSUME NEW h \in Headers, WellFormed(h)
    PROVE  /\ h.dw \in Nat /\ Extent(h) \in Nat /\ Extent(h) >= HeaderLen
           /\ \/ /\ h.dw <= Class!MaxPayloadLen /\ Extent(h) = HeaderLen + h.dw
              \/ h.dw = 1 /\ Extent(h) = HeaderLen
              \/ h.dw = Class!MaxPayloadLen + 1 /\ Extent(h) = PS
              \/ /\ h.dw = Class!MaxPayloadLen
                 /\ Extent(h) = PS * (MaxMsgLen \div PS + 1)
<1>1. h.dw \in Nat /\ PS = PacketSize
  BY DEF Headers, PS
<1>2. CASE h.cmd # "power_on"
  <2>1. h.dw <= Class!MaxPayloadLen
    BY <1>2, Lengths DEF WellFormed
  <2> QED BY <1>1, <1>2, <2>1, Lengths DEF Extent
<1>3. CASE h.cmd = "power_on" /\ h.dw = 0
  BY <1>1, <1>3, Lengths DEF Extent
<1>4. CASE h.cmd = "power_on" /\ h.dw = 1
  BY <1>1, <1>4, Lengths DEF Extent
<1>5. CASE h.cmd = "power_on" /\ h.dw = Class!MaxPayloadLen /\ h.dw \notin {0, 1}
  <2>1. MaxMsgLen \div PS \in Nat
    BY <1>1, Lengths, Division
  <2>2. PS * (MaxMsgLen \div PS + 1) = PS * (MaxMsgLen \div PS) + PS
        /\ PS * (MaxMsgLen \div PS) \in Int
    BY <1>1, <2>1, Lengths, NextMultiple
  <2>3. PS * (MaxMsgLen \div PS) \in Nat
    BY <1>1, <2>1, Lengths
  <2>4. Extent(h) = PS * (MaxMsgLen \div PS + 1)
    BY <1>5 DEF Extent
  <2> QED BY <1>1, <1>5, <2>2, <2>3, <2>4, Lengths
<1>6. CASE h.cmd = "power_on" /\ h.dw = Class!MaxPayloadLen + 1
  <2>1. h.dw \notin {0, 1} /\ h.dw # Class!MaxPayloadLen
    BY <1>6, Lengths
  <2> QED BY <1>1, <1>6, <2>1, Lengths DEF Extent
<1> QED BY <1>2, <1>3, <1>4, <1>5, <1>6 DEF WellFormed

\* The message is complete, or too long, with the last packet that has any byte.
LEMMA LongTransfer ==
    ASSUME NEW o, NEW h, Uniform(o, h), NEW k \in 0..MaxMsgLen,
           k + Bytes(o) = PS * (MaxMsgLen \div PS + 1), Bytes(o) > 0,
           o[Len(o)].n = PS \/ o[Len(o)].n = 0
    PROVE  /\ o[1].n = PS
           /\ k + PS # MaxMsgLen
           /\ k + PS < MaxMsgLen => Bytes(o) > PS
           /\ k + PS > MaxMsgLen => Bytes(o) = PS
<1> DEFINE K == MaxMsgLen \div PS
           B == Bytes(o)
           j == IF o[Len(o)].n = PS THEN Len(o) ELSE Len(o) - 1
<1>0. PS \in Nat \ {0} /\ MaxMsgLen \in Nat /\ MaxMsgLen % PS # 0
  BY Lengths DEF PS
<1>1. /\ K \in Nat /\ MaxMsgLen = (PS * K) + (MaxMsgLen % PS) /\ MaxMsgLen % PS \in Nat
      /\ MaxMsgLen % PS < PS
  BY <1>0, Division
<1>2. /\ Len(o) \in Nat \ {0} /\ B \in Nat /\ o[1].n \in 0..PS
      /\ Len(o) = 1 => B = o[1].n
      /\ Len(o) # 1 => o[1].n = PS
  BY BytesLemma
<1>3. j \in Nat /\ B = PS * j
  <2>1. CASE o[Len(o)].n = PS
    <3>1. PS * (Len(o) - 1) = PS * Len(o) - PS /\ PS * Len(o) \in Int
      BY <1>0, <1>2, NextMultiple
    <3> QED BY <1>0, <1>2, <2>1, <3>1 DEF Bytes
  <2>2. CASE o[Len(o)].n = 0 /\ o[Len(o)].n # PS
    <3>1. PS * (Len(o) - 1) \in Int
      BY <1>0, <1>2, NextMultiple
    <3> QED BY <1>0, <1>2, <2>2, <3>1 DEF Bytes
  <2> QED BY <2>1, <2>2
<1>4. o[1].n = PS
  <2>1. CASE Len(o) = 1
    BY <1>2, <2>1
  <2> QED BY <1>2, <2>1
<1> DEFINE rest == MaxMsgLen % PS
<1>5. rest \in Nat \ {0} /\ rest < PS /\ MaxMsgLen = (PS * K) + rest
  BY <1>0, <1>1
<1>a. k + B = PS * (K + 1)
  OBVIOUS
<1> HIDE DEF K, B, j, rest
<1>6. PS * K \in Int /\ PS * (K + 1) = PS * K + PS /\ PS * j \in Int
  BY <1>0, <1>1, <1>3, NextMultiple
<1> DEFINE i == K + 1 - j
<1>7. i \in Int /\ k = PS * i
  <2>1. PS * (K + 1 - j) = PS * (K + 1) - PS * j
    BY <1>0, <1>1, <1>3
  <2> QED BY <1>1, <1>3, <1>6, <1>a, <2>1
<1>b. B > 0
  BY DEF B
<1> HIDE DEF i
<1>8. PS * (i + 1) = PS * i + PS /\ PS * i \in Int
  BY <1>0, <1>7, NextMultiple
<1>9. k + PS # MaxMsgLen
  <2> SUFFICES ASSUME k + PS = MaxMsgLen PROVE FALSE
    OBVIOUS
  <2>1. MaxMsgLen = PS * (i + 1)
    BY <1>7, <1>8
  <2>2. i + 1 \in Nat
    <3>1. i >= 0 \/ i <= -1
      BY <1>7
    <3>2. i <= -1 => PS * i <= PS * (-1)
      BY <1>0, <1>7, Monotone
    <3>3. i <= -1 => FALSE
      BY <1>0, <1>7, <3>2
    <3> QED BY <1>7, <3>1, <3>3
  <2>3. MaxMsgLen % PS = 0
    BY ONLY <1>0, <2>1, <2>2, Quotient
  <2> QED BY <1>0, <2>3
<1>10. k + PS < MaxMsgLen => B > PS
  BY <1>0, <1>3, <1>5, <1>6, <1>a
<1>11. k + PS > MaxMsgLen => B = PS
  <2> SUFFICES ASSUME k + PS > MaxMsgLen PROVE B = PS
    OBVIOUS
  <2>1. ~(i <= K - 1)
    <3> SUFFICES ASSUME i <= K - 1 PROVE FALSE
      OBVIOUS
    <3>1. PS * i <= PS * (K - 1)
      BY <1>0, <1>1, <1>7, Monotone
    <3>2. PS * (K - 1) = PS * K - PS
      BY <1>0, <1>1, NextMultiple
    <3> QED BY <1>0, <1>5, <1>6, <1>7, <3>1, <3>2
  <2>2. PS * K <= PS * i
    BY <1>0, <1>1, <1>7, <2>1, Monotone
  <2>3. B <= PS
    BY <1>0, <1>3, <1>6, <1>7, <1>a, <2>2
  <2>4. j >= 1
    <3> SUFFICES ASSUME j = 0 PROVE FALSE
      BY <1>3
    <3> QED BY <1>0, <1>3, <1>b, TimesZero
  <2>5. PS * 1 <= PS * j
    BY <1>0, <1>3, <2>4, Monotone
  <2> QED BY <1>0, <1>3, <2>3, <2>5
<1> QED BY <1>4, <1>9, <1>10, <1>11 DEF B

\* rx_append takes the next packet: an empty one ends nothing, ...
TookZlp(c, o, wy, a) ==
    /\ a \in Classes /\ a.head = c.head /\ a.rx.ready = TRUE /\ a.rx.len = 0
    /\ a.tx = c.tx /\ a.q = c.q /\ a.ep = c.ep
    /\ a.pending = c.pending /\ a.awaiting = c.awaiting
    /\ Tail(o) = << >> /\ o[1].head.seq = c.head.seq
    /\ wy = "control"

LEMMA AppendZlp ==
    ASSUME NEW c \in Classes, c.rx.ready = FALSE, NEW o, NEW wy,
           Transit(o, c.rx.len, c.head, wy), o # << >>, Bytes(o) = 0
    PROVE  TookZlp(c, o, wy, Class!rx_append(c, Head(o).n, Head(o).head))
<1>1. Uniform(o, o[1].head) /\ c.rx.len = 0 /\ c.head.seq = o[1].head.seq
  BY DEF Transit
<1>2. Len(o) = 1 /\ o[1].n = 0 /\ Tail(o) = << >> /\ Head(o) = o[1]
  <2>1. /\ Len(o) = 1 => Bytes(o) = o[1].n /\ Tail(o) = << >>
        /\ Len(o) # 1 => Bytes(o) = PS + Bytes(Tail(o)) /\ Bytes(Tail(o)) \in Nat
        /\ Head(o) = o[1]
    BY <1>1, BytesLemma
  <2>2. PS \in Nat \ {0}
    BY Lengths DEF PS
  <2>3. Len(o) = 1
    BY <2>1, <2>2
  <2> QED BY <2>1, <2>3
<1>3. 0 <= MaxMsgLen - 0 /\ ~(0 >= HeaderLen) /\ 0 < PacketSize /\ 0 # PacketSize /\ 0 + 0 = 0
  BY Lengths
<1> DEFINE R == [len |-> 0, overflow |-> FALSE, ready |-> TRUE]
<1>4. Class!rx_append(c, 0, o[1].head) = [c EXCEPT !.head = c.head, !.rx = R]
  BY <1>1, <1>3 DEF Class!rx_append
<1>5. R \in [len : 0..MaxMsgLen, ready : BOOLEAN, overflow : BOOLEAN]
  BY Lengths
<1>6. R.ready = TRUE /\ R.len = 0
  OBVIOUS
<1> HIDE DEF R
<1>7. LET a == [c EXCEPT !.head = c.head, !.rx = R]
      IN /\ a \in Classes /\ a.head = c.head /\ a.rx = R
         /\ a.tx = c.tx /\ a.q = c.q /\ a.ep = c.ep
         /\ a.pending = c.pending /\ a.awaiting = c.awaiting
  BY <1>5 DEF Classes
<1>8. wy = "control"
  BY <1>2 DEF Transit
<1> QED BY <1>1, <1>2, <1>4, <1>6, <1>7, <1>8 DEF TookZlp

\* ... any other completes the message or leaves it to the next one.
Took(c, o, a) ==
    /\ a \in Classes /\ a.head = o[1].head
    /\ a.tx = c.tx /\ a.q = c.q /\ a.ep = c.ep
    /\ a.pending = c.pending /\ a.awaiting = c.awaiting
    /\ \/ /\ a.rx.ready = TRUE
          /\ Bytes(o) = o[1].n
       \/ /\ a.rx.ready = FALSE /\ a.rx.overflow = FALSE
          /\ Bytes(o) > PS /\ o[1].n = PS /\ a.rx.len = c.rx.len + PS

LEMMA AppendLemma ==
    ASSUME NEW c \in Classes, c.rx.ready = FALSE, NEW o, NEW wy,
           Transit(o, c.rx.len, c.head, wy), o # << >>, Bytes(o) > 0
    PROVE  Took(c, o, Class!rx_append(c, Head(o).n, Head(o).head))
<1> DEFINE h == o[1].head
           n == o[1].n
           k == c.rx.len
           B == Bytes(o)
           X == Extent(h)
           fits == n <= MaxMsgLen - k
           len == IF fits THEN k + n ELSE MaxMsgLen
           impossible == n = PacketSize /\ h.dw > Class!MaxPayloadLen
           complete == n < PacketSize \/ len >= HeaderLen + h.dw
           R == [len |-> len, overflow |-> ~fits \/ impossible,
                 ready |-> ~fits \/ impossible \/ complete]
<1>0. PS \in Nat \ {0} /\ PacketSize = PS
  BY Lengths DEF PS
<1>1. /\ Uniform(o, h) /\ WellFormed(h) /\ k + B = X /\ k \in 0..MaxMsgLen
      /\ k > 0 => c.head = h
      /\ o[Len(o)].n = PS \/ o[Len(o)].n = X % PS
  BY DEF Transit
<1>2. /\ Len(o) \in Nat \ {0} /\ B \in Nat /\ n \in 0..PS /\ Head(o) = o[1]
      /\ Len(o) = 1 => B = n
      /\ Len(o) # 1 => n = PS /\ B = PS + Bytes(Tail(o)) /\ Bytes(Tail(o)) \in Nat
  BY <1>1, BytesLemma
<1>3. h \in Headers
  <2>1. o[1] \in OutPackets
    BY <1>1, <1>2 DEF Uniform
  <2> QED BY <2>1 DEF OutPackets
<1>4. /\ h.dw \in Nat /\ X \in Nat /\ X >= HeaderLen
      /\ \/ /\ h.dw <= Class!MaxPayloadLen /\ X = HeaderLen + h.dw
         \/ h.dw = 1 /\ X = HeaderLen
         \/ h.dw = Class!MaxPayloadLen + 1 /\ X = PS
         \/ /\ h.dw = Class!MaxPayloadLen
            /\ X = PS * (MaxMsgLen \div PS + 1)
  BY <1>1, <1>3, ExtentLemma
<1>5. n <= B
  BY <1>0, <1>2
<1>6. k = 0 => n >= HeaderLen
  BY <1>0, <1>1, <1>2, <1>4, Lengths
<1>7. (IF k = 0 /\ n >= HeaderLen THEN h ELSE c.head) = h
  BY <1>1, <1>6
<1>a. B > 0
  OBVIOUS
<1>8. Class!rx_append(c, Head(o).n, Head(o).head) = [c EXCEPT !.head = h, !.rx = R]
  BY <1>2, <1>7 DEF Class!rx_append
<1>9. \/ (~fits \/ impossible \/ complete) /\ B = n
      \/ fits /\ ~impossible /\ ~complete /\ B > PS /\ n = PS /\ len = k + PS
  <2> HIDE DEF h, n, k, B, X
  <2>1. CASE h.dw <= Class!MaxPayloadLen /\ X = HeaderLen + h.dw
    <3>1. k \in Nat /\ B \in Nat /\ n \in Nat /\ n <= PS /\ h.dw \in Nat
      BY <1>0, <1>1, <1>2, <1>4
    <3>2. k + B = HeaderLen + h.dw /\ HeaderLen + h.dw <= MaxMsgLen
      BY <1>1, <1>4, <2>1, Lengths
    <3>3. fits /\ len = k + n
      BY <1>5, <3>1, <3>2, Lengths
    <3>4. ~impossible
      BY <2>1, <3>1, Lengths
    <3>5. CASE n < PS
      <4>1. B = n
        BY <1>2, <3>1, <3>5
      <4> QED BY <1>0, <3>5, <4>1
    <3>6. CASE n = PS
      <4>1. CASE k + n >= HeaderLen + h.dw
        <5>1. B = n
          BY <1>5, <3>1, <3>2, <4>1, Lengths
        <5> QED BY <3>3, <4>1, <5>1
      <4>2. CASE ~(k + n >= HeaderLen + h.dw)
        <5>1. B > PS
          BY <3>1, <3>2, <3>6, <4>2, Lengths
        <5>2. ~complete
          BY <1>0, <3>3, <3>6, <4>2
        <5> QED BY <3>3, <3>4, <3>6, <5>1, <5>2
      <4> QED BY <4>1, <4>2
    <3>7. n < PS \/ n = PS
      BY <1>0, <3>1
    <3> QED BY <3>5, <3>6, <3>7
  <2>2. CASE h.dw = 1 /\ X = HeaderLen
    BY <1>0, <1>1, <1>2, <1>4, <1>5, <2>2, Lengths
  <2>3. CASE h.dw = Class!MaxPayloadLen + 1 /\ X = PS
    BY <1>0, <1>1, <1>2, <1>4, <1>5, <1>a, <2>3, Lengths
  <2>4. CASE h.dw = Class!MaxPayloadLen /\ X = PS * (MaxMsgLen \div PS + 1)
    <3>1. MaxMsgLen \div PS + 1 \in Nat
      BY <1>0, Lengths, Division
    <3>2. X % PS = 0
      BY <1>0, <2>4, <3>1, Quotient
    <3>3. /\ n = PS /\ k + PS # MaxMsgLen
          /\ k + PS < MaxMsgLen => B > PS
          /\ k + PS > MaxMsgLen => B = PS
      BY <1>1, <1>a, <2>4, <3>2, LongTransfer DEF n, B
    <3> QED BY <1>0, <1>1, <1>2, <1>4, <1>5, <2>4, <3>3, Lengths
  <2> QED BY <1>4, <2>1, <2>2, <2>3, <2>4
<1>10. R.len = len /\ R.overflow = (~fits \/ impossible)
       /\ R.ready = (~fits \/ impossible \/ complete)
  OBVIOUS
<1>11. len \in 0..MaxMsgLen
  <2>1. n \in Nat /\ k \in Nat /\ MaxMsgLen \in Nat
    BY <1>0, <1>1, <1>2, Lengths
  <2> HIDE DEF n, k
  <2> QED BY <2>1
<1> HIDE DEF len, fits, impossible, complete, h
<1>12. R \in [len : 0..MaxMsgLen, ready : BOOLEAN, overflow : BOOLEAN]
  BY <1>11
<1>13. /\ R.ready = (~fits \/ impossible \/ complete)
       /\ R.overflow = (~fits \/ impossible) /\ R.len = len
  OBVIOUS
<1> HIDE DEF R
<1>14. LET a == [c EXCEPT !.head = h, !.rx = R]
       IN /\ a \in Classes /\ a.head = h /\ a.rx = R
          /\ a.tx = c.tx /\ a.q = c.q /\ a.ep = c.ep
          /\ a.pending = c.pending /\ a.awaiting = c.awaiting
  BY <1>3, <1>12 DEF Classes
<1>15. CASE (~fits \/ impossible \/ complete) /\ B = n
  <2>1. R.ready = TRUE
    BY <1>13, <1>15, Zenon
  <2> QED BY <1>8, <1>14, <1>15, <2>1 DEF h, Took
<1>16. CASE fits /\ ~impossible /\ ~complete /\ B > PS /\ n = PS /\ len = k + PS
  <2>1. R.ready = FALSE /\ R.overflow = FALSE
    BY <1>13, <1>16, Zenon
  <2> QED BY <1>8, <1>13, <1>14, <1>16, <2>1 DEF h, Took
<1> QED BY <1>9, <1>15, <1>16

\* What is left of the transfer after its next packet.
LEMMA TransitTail ==
    ASSUME NEW o, NEW k, NEW hd, NEW wy, Transit(o, k, hd, wy), o # << >>, Bytes(o) > 0
    PROVE  /\ Bytes(o) = o[1].n =>
                \A hd2 : hd2.seq = o[1].head.seq => Transit(Tail(o), 0, hd2, wy)
           /\ Bytes(o) = o[1].n /\ Tail(o) # << >> =>
                /\ Bytes(Tail(o)) = 0 /\ Tail(o)[1].head = o[1].head
                /\ Extent(o[1].head) % PS = 0 /\ wy = "control"
           /\ Bytes(o) > PS /\ o[1].n = PS /\ k + PS <= MaxMsgLen =>
                /\ Tail(o) # << >> /\ Bytes(Tail(o)) > 0 /\ Tail(o)[1].head = o[1].head
                /\ Transit(Tail(o), k + PS, o[1].head, wy)
<1> DEFINE h == o[1].head
           u == Tail(o)
<1>0. PS \in Nat \ {0} /\ MaxMsgLen \in Nat
  BY Lengths DEF PS
<1>1. /\ Uniform(o, h) /\ WellFormed(h) /\ k + Bytes(o) = Extent(h) /\ k \in 0..MaxMsgLen
      /\ o[Len(o)].n = PS \/ o[Len(o)].n = Extent(h) % PS
      /\ wy # "control" => o[Len(o)].n # 0
  BY DEF Transit
<1>2. /\ Len(o) \in Nat \ {0} /\ Bytes(o) \in Nat /\ o[1].n \in 0..PS
      /\ Len(o) = 1 => Bytes(o) = o[1].n /\ u = << >>
      /\ Len(o) # 1 => /\ o[1].n = PS /\ Uniform(u, h)
                       /\ Bytes(o) = PS + Bytes(u) /\ Bytes(u) \in Nat
                       /\ u[Len(u)] = o[Len(o)]
  BY <1>1, BytesLemma
<1> HIDE DEF u, h
<1>3. Len(o) # 1 => u # << >> /\ u[1].head = h /\ Len(u) \in Nat \ {0} /\ u[Len(u)].n \in 0..PS
  <2>1. Uniform(u, h) => u # << >>
    BY DEF Uniform
  <2> QED BY <1>2, <2>1, BytesLemma
<1>4. ASSUME Len(o) # 1, Bytes(u) = 0 PROVE u[Len(u)].n = 0
  <2> DEFINE j == Len(u) - 1
  <2>1. j \in Nat
    BY <1>3, <1>4
  <2>2. PS * j \in Nat
    BY <1>0, <2>1
  <2>3. PS * j + u[Len(u)].n = 0
    BY <1>4 DEF Bytes
  <2> HIDE DEF j
  <2> QED BY <1>3, <1>4, <2>2, <2>3
<1>5. ASSUME Bytes(o) = o[1].n
      PROVE /\ \A hd2 : hd2.seq = h.seq => Transit(u, 0, hd2, wy)
            /\ u # << >> => /\ Bytes(u) = 0 /\ u[1].head = h
                            /\ Extent(h) % PS = 0 /\ wy = "control"
  <2>1. CASE Len(o) = 1
    BY <1>0, <1>2, <2>1 DEF Transit
  <2>2. CASE Len(o) # 1
    <3>1. Bytes(u) = 0
      BY <1>0, <1>2, <1>5, <2>2
    <3>2. o[Len(o)].n = 0
      BY <1>2, <1>4, <2>2, <3>1
    <3>3. Extent(h) % PS = 0 /\ wy = "control"
      BY <1>0, <1>1, <3>2
    <3>4. \A hd2 : hd2.seq = h.seq => Transit(u, 0, hd2, wy)
      BY <1>0, <1>1, <1>2, <1>3, <2>2, <3>1, <3>3 DEF Transit
    <3> QED BY <1>3, <2>2, <3>1, <3>3, <3>4
  <2> QED BY <2>1, <2>2
<1>6. ASSUME Bytes(o) > PS, o[1].n = PS, k + PS <= MaxMsgLen
      PROVE u # << >> /\ Bytes(u) > 0 /\ u[1].head = h /\ Transit(u, k + PS, h, wy)
  <2>1. Len(o) # 1
    BY <1>0, <1>2, <1>6
  <2>2. Bytes(u) \in Nat /\ Bytes(u) > 0 /\ k + PS + Bytes(u) = Extent(h)
    BY <1>0, <1>1, <1>2, <1>6, <2>1
  <2>3. k + PS \in 0..MaxMsgLen
    BY <1>0, <1>1, <1>6
  <2> QED BY <1>1, <1>2, <1>3, <2>1, <2>2, <2>3 DEF Transit
<1> QED BY <1>5, <1>6 DEF u, h

-----------------------------------------------------------------------------
(* The router.                                                               *)

Routers == [selected : AppletNames \cup {Empty}, chain : Chunks \cup {Empty},
            mirror : Chunks \cup {Empty}]

LEMMA LeastNat ==
    ASSUME NEW T, T \subseteq Nat, T # {}
    PROVE  \E n \in T : \A m \in T : n <= m
<1> DEFINE Below == OpToRel(<, Nat)
<1>1. PICK n \in T : \A m \in T : ~(<<m, n>> \in Below)
  <2> HIDE DEF Below
  <2>1. IsWellFoundedOn(Below, Nat)
    BY NatLessThanWellFounded DEF Below
  <2> QED BY <2>1, WFMin
<1>2. Below = {ss \in Nat \X Nat : ss[1] < ss[2]}
  BY DEF OpToRel
<1> HIDE DEF Below
<1>3. ASSUME NEW m \in T PROVE n <= m
  <2>1. m \in Nat /\ n \in Nat
    OBVIOUS
  <2>2. ASSUME m < n PROVE <<m, n>> \in Below
    BY <1>2, <2>1, <2>2
  <2> QED BY <1>1, <2>1, <2>2
<1> QED BY <1>3

\* The applet a SELECT reaches is one of those registered.
LEMMA BestMatch ==
    ASSUME NEW aid, Router!Matches(aid) # {}
    PROVE  Applets[Router!best_match(aid)].name \in AppletNames
<1> DEFINE M == Router!Matches(aid)
           L(i) == Len(Applets[i].aid)
           exact == {i \in M : Applets[i].aid = aid}
           longest == {i \in M : \A j \in M : L(j) <= L(i)}
           first(S) == CHOOSE i \in S : \A j \in S : i <= j
<1>1. Applets \in Seq([name : STRING, aid : Seq(Nat)])
  BY ConstantsOK DEF Router!ConstantsOK
<1>2. M \subseteq DOMAIN Applets /\ DOMAIN Applets = 1..Len(Applets) /\ Len(Applets) \in Nat
  BY <1>1 DEF Router!Matches
<1>3. \A i \in M : L(i) \in Nat
  BY <1>1, <1>2
<1>4. ASSUME NEW S \in SUBSET M, S # {} PROVE first(S) \in M
  <2>1. S \subseteq Nat
    BY <1>2
  <2>2. \E n \in S : \A j \in S : n <= j
    BY <1>4, <2>1, LeastNat
  <2> QED BY <2>2
<1>5. Router!best_match(aid) = IF exact # {} THEN first(exact) ELSE first(longest)
  BY DEF Router!best_match
<1> HIDE DEF M, L
<1>6. longest # {}
  <2> DEFINE T == {n \in Nat : /\ \E i \in M : i <= n
                               /\ \A i \in M : i <= n => \E j \in M : j <= n /\ ~(L(j) <= L(i))}
  <2>1. SUFFICES ASSUME longest = {} PROVE FALSE
    OBVIOUS
  <2>2. M \subseteq Nat /\ \A i \in M : i <= Len(Applets)
    BY <1>2
  <2>3. Len(Applets) \in T
    <3>1. \E i \in M : i <= Len(Applets)
      BY <2>2 DEF M
    <3>2. \A i \in M : \E j \in M : ~(L(j) <= L(i))
      BY <2>1
    <3> QED BY <1>2, <2>2, <3>1, <3>2
  <2>4. PICK n \in T : \A k \in T : n <= k
    <3>1. T \subseteq Nat /\ T # {}
      BY <2>3
    <3> HIDE DEF T
    <3> QED BY <3>1, LeastNat
  <2>5. n \in Nat /\ \A i \in M : i <= n => \E j \in M : j <= n /\ ~(L(j) <= L(i))
    BY <2>4
  <2>6. PICK i0 \in M : i0 <= n
    BY <2>4
  <2>7. n # 0
    <3>1. \A i \in M : i >= 1
      BY <1>2
    <3> QED BY <2>2, <2>6, <3>1
  <2>8. n - 1 \notin T /\ n - 1 \in Nat
    <3>1. n - 1 \in Nat /\ ~(n <= n - 1)
      BY <2>5, <2>7
    <3> HIDE DEF T
    <3> QED BY <2>4, <3>1
  <2>9. CASE \A i \in M : ~(i <= n - 1)
    <3>1. \A i \in M : i <= n => i = n
      BY <2>2, <2>5, <2>9
    <3>2. i0 = n
      BY <2>6, <3>1
    <3>3. PICK j \in M : j <= n /\ ~(L(j) <= L(i0))
      BY <2>5, <2>6
    <3>4. j = i0
      BY <3>1, <3>2, <3>3
    <3> QED BY <1>3, <3>3, <3>4
  <2>10. CASE \E i \in M : i <= n - 1
    <3>1. PICK i \in M : i <= n - 1 /\ \A j \in M : j <= n - 1 => L(j) <= L(i)
      BY <2>8, <2>10
    <3>2. i <= n
      BY <2>2, <2>5, <3>1
    <3>3. PICK j \in M : j <= n /\ ~(L(j) <= L(i))
      BY <2>5, <3>2
    <3>4. j = n
      BY <2>2, <2>5, <3>1, <3>3
    <3>5. PICK z \in M : z <= n /\ ~(L(z) <= L(j))
      BY <2>5, <3>3
    <3>6. z <= n - 1 \/ z = j
      BY <2>2, <2>5, <3>4, <3>5
    <3>7. L(z) \in Nat /\ L(j) \in Nat /\ L(i) \in Nat
      BY <1>3
    <3> QED BY <3>1, <3>3, <3>5, <3>6, <3>7
  <2> QED BY <2>9, <2>10
<1>7. exact \in SUBSET M /\ longest \in SUBSET M
  OBVIOUS
<1> HIDE DEF exact, longest, first
<1>8. Router!best_match(aid) \in M
  BY <1>4, <1>5, <1>6, <1>7
<1> QED BY <1>2, <1>8 DEF AppletNames

Rested(c) == c # Empty => c.from <= c.to /\ c.to = c.of /\ c.sw = "ok"

\* What an APDU makes of the router R and the response to it.
Served(R, apdu, R2, d) ==
    /\ R2 \in Routers /\ Rested(R2.chain) /\ Rested(R2.mirror)
    /\ d \in Chunks /\ d.to - d.from \in Nat /\ d.to - d.from + SwLen <= Class!MaxPayloadLen
    /\ d.sw = "ok" => d.to = d.of
    /\ R2.selected = R.selected \/ (apdu.ins = "select" /\ d.sw = "ok")
    /\ apdu.ins \in {"malformed", "command", "select"} /\ d.from < d.to =>
         d.tag = apdu.tag /\ d.from = 0
    /\ apdu.ins \in {"malformed", "select"} => d.sw # "more"
    /\ apdu.ins = "command" /\ d.sw = "more" =>
         /\ R2.chain # Empty => R2.chain.tag = apdu.tag /\ R2.chain.from = d.to
         /\ R.selected = "oath" /\ R2.mirror # Empty =>
              R2.mirror.tag = apdu.tag /\ R2.mirror.from = d.to
    /\ apdu.ins = "get_response" =>
         /\ d.from < d.to =>
              R.chain # Empty /\ d.tag = R.chain.tag /\ d.from = R.chain.from
         /\ d.sw = "more" /\ R2.chain # Empty =>
              R.chain # Empty /\ R2.chain.tag = R.chain.tag /\ R2.chain.from = d.to
    /\ apdu.ins = "send_remaining" /\ apdu.le # NoLe /\ R.selected = "oath" =>
         /\ d.from < d.to =>
              R.mirror # Empty /\ d.tag = R.mirror.tag /\ d.from = R.mirror.from
         /\ d.sw = "more" /\ R2.mirror # Empty =>
              R.mirror # Empty /\ R2.mirror.tag = R.mirror.tag /\ R2.mirror.from = d.to

\* The pieces of a body.
LEMMA WholeLemma ==
    ASSUME NEW tg \in Nat \cup {Empty}, NEW n \in Nat
    PROVE  LET d == Router!Whole(tg, n)
           IN /\ d \in Chunks /\ d.tag = tg /\ d.from = 0 /\ d.to = n /\ d.of = n
              /\ d.sw = "ok"
BY DEF Router!Whole, Chunks, Router!StatusWords

LEMMA StatusLemma ==
    ASSUME NEW sw \in Router!StatusWords
    PROVE  LET d == Router!Status(sw)
           IN d \in Chunks /\ d.from = 0 /\ d.to = 0 /\ d.of = 0 /\ d.sw = sw
BY DEF Router!Status, Router!Whole, Chunks

LEMMA CutRecord ==
    ASSUME NEW c \in Chunks, NEW n \in Nat, NEW u \in Router!StatusWords
    PROVE  LET d == [c EXCEPT !.to = n, !.sw = u]
           IN /\ d \in Chunks /\ d.tag = c.tag /\ d.of = c.of /\ d.from = c.from /\ d.to = n
              /\ d.sw = u
BY DEF Chunks

LEMMA CutLemma ==
    ASSUME NEW c \in Chunks, Rested(c), NEW n \in Nat, n <= c.to - c.from
    PROVE  /\ Router!First(c, n) \in Chunks /\ Router!First(c, n).tag = c.tag
           /\ Router!First(c, n).from = c.from /\ Router!First(c, n).to = c.from + n
           /\ Router!First(c, n).sw = "more"
           /\ Router!Rest(c, n) \in Chunks /\ Rested(Router!Rest(c, n))
           /\ Router!Rest(c, n).tag = c.tag /\ Router!Rest(c, n).from = c.from + n
           /\ c.from \in Nat /\ c.to \in Nat /\ c.to - c.from \in Nat
           /\ c.sw = "ok" /\ c.to = c.of
<1>1. c # Empty /\ c.from \in Nat /\ c.to \in Nat /\ c.from <= c.to /\ c.to = c.of /\ c.sw = "ok"
  BY EmptyIsNone DEF Chunks, Rested
<1>2. "more" \in Router!StatusWords
  BY DEF Router!StatusWords
<1>3. /\ Router!First(c, n) \in Chunks /\ Router!First(c, n).tag = c.tag
      /\ Router!First(c, n).from = c.from /\ Router!First(c, n).to = c.from + n
      /\ Router!First(c, n).sw = "more"
  <2>1. c.from + n \in Nat
    BY <1>1
  <2> DEFINE v == c.from + n
             d == [c EXCEPT !.to = v, !.sw = "more"]
  <2>2. Router!First(c, n) = d
    BY DEF Router!First
  <2> HIDE DEF v
  <2>3. v \in Nat
    BY <2>1 DEF v
  <2>4. /\ d \in Chunks /\ d.tag = c.tag /\ d.of = c.of /\ d.from = c.from /\ d.to = v
        /\ d.sw = "more"
    BY <1>2, <2>3 DEF Chunks
  <2> HIDE DEF d
  <2> QED BY <2>2, <2>4 DEF v
<1>4. /\ Router!Rest(c, n) \in Chunks /\ Router!Rest(c, n).tag = c.tag
      /\ Router!Rest(c, n).from = c.from + n /\ Router!Rest(c, n).to = c.to
      /\ Router!Rest(c, n).of = c.of /\ Router!Rest(c, n).sw = c.sw
  BY <1>1 DEF Chunks, Router!Rest
<1> QED BY <1>1, <1>3, <1>4 DEF Rested

\* Le, and the windows it asks for.
LEMMA Windows ==
    ASSUME NEW le \in Les \cup {NoLe}
    PROVE  /\ LeMax \in Nat \ {0} /\ ResponseWindow \in 1..LeMax
           /\ SwLen \in Nat /\ LeMax + SwLen <= Class!MaxPayloadLen
           /\ Class!MaxPayloadLen \in Nat
           /\ le # NoLe => le \in 1..LeMax
BY ConstantsOK, Lengths DEF Router!ConstantsOK

LEMMA RouterFields ==
    ASSUME NEW R \in Routers, NEW v \in Chunks \cup {Empty}
    PROVE  /\ [R EXCEPT !.chain = v] \in Routers
           /\ [R EXCEPT !.chain = v].selected = R.selected
           /\ [R EXCEPT !.chain = v].chain = v
           /\ [R EXCEPT !.chain = v].mirror = R.mirror
           /\ [R EXCEPT !.mirror = v] \in Routers
           /\ [R EXCEPT !.mirror = v].selected = R.selected
           /\ [R EXCEPT !.mirror = v].chain = R.chain
           /\ [R EXCEPT !.mirror = v].mirror = v
BY DEF Routers

\* A status word alone answers any APDU.
LEMMA StatusServed ==
    ASSUME NEW R, NEW R2 \in Routers, Rested(R2.chain), Rested(R2.mirror), NEW apdu,
           R2.selected = R.selected,
           NEW sw \in {"error", "not_found", "ins", "length", "conditions"}
    PROVE  Served(R, apdu, R2, Router!Status(sw))
<1> DEFINE d == Router!Status(sw)
<1>1. d \in Chunks /\ d.from = 0 /\ d.to = 0 /\ d.of = 0 /\ d.sw = sw
  BY StatusLemma DEF Router!StatusWords
<1> HIDE DEF d
<1>2. /\ d.to - d.from \in Nat /\ d.to - d.from + SwLen <= Class!MaxPayloadLen
      /\ ~(d.from < d.to)
  BY <1>1, ConstantsOK, Lengths DEF Router!ConstantsOK
<1>3. d.sw # "ok" /\ d.sw # "more"
  BY <1>1
<1> QED BY <1>1, <1>2, <1>3 DEF Served, d

LEMMA GetResponseLemma ==
    ASSUME NEW R \in Routers, Rested(R.chain), Rested(R.mirror), NEW apdu \in NamedApdus,
           apdu.ins = "get_response"
    PROVE  Served(R, apdu, Router!serve_get_response(R, apdu.le).r,
                  Router!serve_get_response(R, apdu.le).out)
<1> DEFINE le == apdu.le
           window == IF le = NoLe THEN LeMax ELSE le
           S == Router!serve_get_response(R, le)
<1> SUFFICES Served(R, apdu, S.r, S.out)
  OBVIOUS
<1>1. /\ LeMax \in Nat \ {0} /\ SwLen \in Nat /\ LeMax + SwLen <= Class!MaxPayloadLen
      /\ Class!MaxPayloadLen \in Nat /\ window \in 1..LeMax
  BY Windows DEF NamedApdus
<1> HIDE DEF window
<1>2. CASE R.chain = Empty
  <2>1. S.r = R /\ S.out = Router!Status("conditions")
    BY <1>2 DEF Router!serve_get_response
  <2> QED BY <2>1, StatusServed
<1>3. CASE R.chain # Empty
  <2> DEFINE c == R.chain
  <2>1. c \in Chunks /\ c.from \in Nat /\ c.to \in Nat /\ c.from <= c.to /\ c.to = c.of
        /\ c.sw = "ok" /\ Router!Length(c) = c.to - c.from
    BY <1>3 DEF Routers, Chunks, Rested, Router!Length
  <2>2. CASE Router!Length(c) <= window
    <3>1. S.r = [R EXCEPT !.chain = Empty] /\ S.out = c
      BY <1>3, <2>2 DEF Router!serve_get_response, window
    <3>2. /\ S.r \in Routers /\ S.r.selected = R.selected /\ S.r.chain = Empty
          /\ S.r.mirror = R.mirror
      BY <3>1 DEF Routers
    <3> HIDE DEF S
    <3> QED BY <1>1, <1>3, <2>1, <2>2, <3>1, <3>2 DEF Served, Rested
  <2>3. CASE ~(Router!Length(c) <= window)
    <3>0. window \in Nat /\ window <= c.to - c.from /\ window + SwLen <= Class!MaxPayloadLen
      BY <1>1, <2>1, <2>3
    <3>1. S.r = [R EXCEPT !.chain = Router!Rest(c, window)] /\ S.out = Router!First(c, window)
      BY <1>3, <2>3 DEF Router!serve_get_response, window
    <3>2. /\ S.out \in Chunks /\ S.out.tag = c.tag /\ S.out.from = c.from
          /\ S.out.to = c.from + window /\ S.out.sw = "more"
          /\ Router!Rest(c, window) \in Chunks /\ Rested(Router!Rest(c, window))
          /\ Router!Rest(c, window).tag = c.tag /\ Router!Rest(c, window).from = c.from + window
      BY <2>1, <3>0, <3>1, CutLemma
    <3>3. /\ S.r \in Routers /\ S.r.selected = R.selected
          /\ S.r.chain = Router!Rest(c, window) /\ S.r.mirror = R.mirror
      BY <3>1, <3>2 DEF Routers
    <3> HIDE DEF S
    <3>4. S.out.to - S.out.from = window
      BY <2>1, <3>0, <3>2
    <3> QED BY <1>3, <3>0, <3>2, <3>3, <3>4 DEF Served
  <2> QED BY <2>2, <2>3
<1> QED BY <1>2, <1>3

LEMMA SelectLemma ==
    ASSUME NEW R \in Routers, Rested(R.chain), Rested(R.mirror), NEW apdu \in NamedApdus,
           apdu.ins = "select", NEW accepts \in BOOLEAN
    PROVE  LET S == Router!handle_select([R EXCEPT !.chain = Empty], apdu, apdu.tag, accepts,
                                         SelectLen)
           IN Served(R, apdu, S.r, S.out)
<1> DEFINE F == [R EXCEPT !.chain = Empty]
           S == Router!handle_select(F, apdu, apdu.tag, accepts, SelectLen)
<1> SUFFICES Served(R, apdu, S.r, S.out)
  OBVIOUS
<1>1. F \in Routers /\ F.selected = R.selected /\ F.chain = Empty /\ F.mirror = R.mirror
  BY RouterFields
<1>2. Rested(F.chain) /\ Rested(F.mirror)
  BY <1>1 DEF Rested
<1>3. /\ SelectLen \in Nat /\ SelectLen + SwLen <= Class!MaxPayloadLen /\ SwLen \in Nat
      /\ Class!MaxPayloadLen \in Nat
  BY ConstantsOK, Lengths
<1>4. apdu.tag \in Nat
  BY DEF NamedApdus
<1> HIDE DEF F
<1>6. CASE apdu.aid = << >> \/ Router!Matches(apdu.aid) = {}
  <2>1. S.r = F /\ S.out = Router!Status("not_found")
    BY <1>6 DEF Router!handle_select
  <2> QED BY <1>1, <1>2, <2>1, StatusServed
<1>7. CASE ~(apdu.aid = << >> \/ Router!Matches(apdu.aid) = {}) /\ ~accepts
  <2>1. S.r = F /\ S.out = Router!Status("error")
    BY <1>7 DEF Router!handle_select
  <2> QED BY <1>1, <1>2, <2>1, StatusServed
<1>8. CASE ~(apdu.aid = << >> \/ Router!Matches(apdu.aid) = {}) /\ accepts
  <2> DEFINE nm == Applets[Router!best_match(apdu.aid)].name
  <2>1. S.r = [F EXCEPT !.selected = nm] /\ S.out = Router!Whole(apdu.tag, SelectLen)
    BY <1>8 DEF Router!handle_select
  <2>2. nm \in AppletNames
    BY <1>8, BestMatch
  <2> HIDE DEF nm
  <2>3. S.r \in Routers /\ S.r.chain = F.chain /\ S.r.mirror = F.mirror
    BY <1>1, <2>1, <2>2 DEF Routers
  <2>4. /\ S.out \in Chunks /\ S.out.tag = apdu.tag /\ S.out.from = 0 /\ S.out.to = SelectLen
        /\ S.out.of = SelectLen /\ S.out.sw = "ok"
    BY <1>3, <1>4, <2>1, WholeLemma
  <2> HIDE DEF S
  <2> QED BY <1>1, <1>2, <1>3, <2>3, <2>4 DEF Served
<1> QED BY <1>6, <1>7, <1>8

\* A whole answer of n bytes, cut to what Le allows, with the mirror of the OATH applet.
LEMMA CommandLemma ==
    ASSUME NEW R \in Routers, NEW F \in Routers, F.selected = R.selected, F.chain = Empty,
           Rested(F.mirror), NEW apdu \in NamedApdus, apdu.ins = "command", NEW n \in Nat
    PROVE  LET answer == Router!Whole(apdu.tag, n)
               G == IF F.selected = "oath" THEN Router!mirrored(F, answer, apdu.le) ELSE F
               S == Router!deliver(G, answer, apdu.le)
           IN Served(R, apdu, S.r, S.out)
<1> DEFINE le == apdu.le
           a == Router!Whole(apdu.tag, n)
           limit == IF le = NoLe THEN 0 ELSE le
           passed == IF le = NoLe THEN 0 ELSE IF le < n THEN le ELSE n
           mir == IF n = 0 THEN Empty ELSE Router!Rest(a, passed)
           G == IF F.selected = "oath" THEN Router!mirrored(F, a, le) ELSE F
           S == Router!deliver(G, a, le)
<1> SUFFICES Served(R, apdu, S.r, S.out)
  OBVIOUS
<1>1. /\ a \in Chunks /\ a.tag = apdu.tag /\ a.from = 0 /\ a.to = n /\ a.of = n /\ a.sw = "ok"
      /\ apdu.tag \in Nat
  BY WholeLemma DEF NamedApdus
<1>2. Rested(a) /\ Router!Length(a) = n
  BY <1>1 DEF Rested, Router!Length
<1>3. /\ LeMax \in Nat \ {0} /\ SwLen \in Nat /\ LeMax + SwLen <= Class!MaxPayloadLen
      /\ Class!MaxPayloadLen \in Nat /\ limit \in 0..LeMax /\ passed \in 0..n
      /\ n > limit => passed = limit
  <2>1. le \in Les \cup {NoLe}
    BY DEF NamedApdus
  <2> HIDE DEF le
  <2>2. /\ LeMax \in Nat \ {0} /\ SwLen \in Nat /\ LeMax + SwLen <= Class!MaxPayloadLen
        /\ Class!MaxPayloadLen \in Nat /\ (le # NoLe => le \in 1..LeMax)
    BY <2>1, Windows
  <2> QED BY <2>2
<1>4. n # 0 => /\ Router!Rest(a, passed) \in Chunks /\ Rested(Router!Rest(a, passed))
               /\ Router!Rest(a, passed).tag = apdu.tag
               /\ Router!Rest(a, passed).from = passed
  <2>1. passed \in Nat /\ passed <= a.to - a.from /\ 0 + passed = passed
    BY <1>1, <1>3
  <2> HIDE DEF passed, a
  <2> QED BY <1>1, <1>2, <2>1, CutLemma
<1>5. mir \in Chunks \cup {Empty} /\ Rested(mir)
  BY <1>4 DEF Rested
<1>6. F.selected = "oath" => G = [F EXCEPT !.mirror = mir]
  BY <1>1, <1>2 DEF Router!mirrored
<1> HIDE DEF mir
<1>7. /\ G \in Routers /\ G.selected = R.selected /\ G.chain = Empty /\ Rested(G.mirror)
      /\ F.selected = "oath" => G.mirror = mir
  <2>1. CASE F.selected = "oath"
    <3>1. G = [F EXCEPT !.mirror = mir]
      BY <1>6, <2>1
    <3> HIDE DEF G
    <3> QED BY <1>5, <2>1, <3>1 DEF Routers
  <2>2. CASE F.selected # "oath"
    BY <2>2
  <2> QED BY <2>1, <2>2
<1> HIDE DEF G, passed
<1>8. CASE n <= limit \/ n = 0
  <2>1. S.r = G /\ S.out = a
    BY <1>2, <1>8 DEF Router!deliver
  <2>2. n + SwLen <= Class!MaxPayloadLen
    BY <1>3, <1>8
  <2>3. Rested(G.chain)
    BY <1>7 DEF Rested
  <2> HIDE DEF S, a, limit
  <2> QED BY <1>1, <1>7, <2>1, <2>2, <2>3 DEF Served
<1>9. CASE ~(n <= limit \/ n = 0)
  <2>1. S.r = [G EXCEPT !.chain = Router!Rest(a, limit)] /\ S.out = Router!First(a, limit)
    BY <1>2, <1>9 DEF Router!deliver
  <2>2. limit \in Nat /\ limit <= a.to - a.from /\ 0 + limit = limit /\ passed = limit
        /\ limit + SwLen <= Class!MaxPayloadLen
    BY <1>1, <1>3, <1>9
  <2>3. /\ S.out \in Chunks /\ S.out.tag = apdu.tag /\ S.out.from = 0 /\ S.out.to = limit
        /\ S.out.sw = "more"
        /\ Router!Rest(a, limit) \in Chunks /\ Rested(Router!Rest(a, limit))
        /\ Router!Rest(a, limit).tag = apdu.tag /\ Router!Rest(a, limit).from = limit
    <3> HIDE DEF limit, a
    <3> QED BY <1>1, <1>2, <2>1, <2>2, CutLemma
  <2>4. mir = Router!Rest(a, limit)
    BY <1>9, <2>2 DEF mir
  <2> DEFINE v == Router!Rest(a, limit)
  <2> HIDE DEF v
  <2>5. /\ S.r \in Routers /\ S.r.selected = R.selected /\ S.r.chain = v
        /\ S.r.mirror = G.mirror
    <3>1. S.r = [G EXCEPT !.chain = v] /\ v \in Chunks
      BY <2>1, <2>3 DEF v
    <3> HIDE DEF S
    <3> QED BY <1>7, <3>1 DEF Routers
  <2>6. /\ v \in Chunks /\ Rested(v) /\ v.tag = apdu.tag /\ v.from = limit /\ mir = v
    BY <2>3, <2>4 DEF v
  <2>7. S.out.to - S.out.from = limit
    BY <2>2, <2>3
  <2> HIDE DEF S, a, limit
  <2> QED BY <1>7, <2>2, <2>3, <2>5, <2>6, <2>7 DEF Served
<1> QED BY <1>8, <1>9

\* SEND REMAINING, then cut to the same Le: nothing more is cut.
LEMMA RemainingLemma ==
    ASSUME NEW R \in Routers, NEW F \in Routers, F.selected = R.selected, F.chain = Empty,
           F.mirror = R.mirror, Rested(R.mirror), NEW apdu \in NamedApdus,
           apdu.ins = "send_remaining", apdu.le # NoLe
    PROVE  LET T == Router!cmd_send_remaining(F, apdu.le)
               S == Router!deliver(T.r, T.out, apdu.le)
           IN Served(R, apdu, S.r, S.out)
<1> DEFINE le == apdu.le
           window == IF le = NoLe \/ le > ResponseWindow THEN ResponseWindow ELSE le
           T == Router!cmd_send_remaining(F, le)
           S == Router!deliver(T.r, T.out, le)
<1> SUFFICES Served(R, apdu, S.r, S.out)
  OBVIOUS
<1>1. /\ LeMax \in Nat \ {0} /\ SwLen \in Nat /\ LeMax + SwLen <= Class!MaxPayloadLen
      /\ Class!MaxPayloadLen \in Nat /\ le \in 1..LeMax /\ window \in 1..LeMax /\ window <= le
  BY Windows DEF NamedApdus
<1>2. ASSUME T.out.to - T.out.from <= le PROVE S.r = T.r /\ S.out = T.out
  BY <1>2 DEF Router!deliver, Router!Length
<1>3. Rested(F.chain)
  BY DEF Rested
<1> HIDE DEF window
<1>4. CASE R.mirror = Empty
  <2>1. T.r = F /\ T.out = Router!Status("conditions")
    BY <1>4 DEF Router!cmd_send_remaining
  <2>2. LET d == Router!Status("conditions") IN d.from = 0 /\ d.to = 0
    BY StatusLemma DEF Router!StatusWords
  <2>3. S.r = T.r /\ S.out = T.out
    BY <1>1, <1>2, <2>1, <2>2
  <2> QED BY <1>3, <2>1, <2>3, StatusServed
<1>5. CASE R.mirror # Empty
  <2> DEFINE c == R.mirror
  <2>1. c \in Chunks /\ c.from \in Nat /\ c.to \in Nat /\ c.from <= c.to /\ c.to = c.of
        /\ c.sw = "ok" /\ Router!Length(c) = c.to - c.from
    BY <1>5 DEF Routers, Chunks, Rested, Router!Length
  <2>2. CASE Router!Length(c) <= window
    <3>1. T.r = [F EXCEPT !.mirror = Empty] /\ T.out = c
      BY <1>5, <2>2 DEF Router!cmd_send_remaining, window
    <3>2. c.to - c.from <= le /\ c.to - c.from + SwLen <= Class!MaxPayloadLen
          /\ c.to - c.from \in Nat
      BY <1>1, <2>1, <2>2
    <3>3. S.r = T.r /\ S.out = c
      BY <1>2, <3>1, <3>2
    <3>4. /\ S.r \in Routers /\ S.r.selected = R.selected /\ S.r.chain = Empty
          /\ S.r.mirror = Empty
      BY <3>1, <3>3 DEF Routers
    <3> HIDE DEF S
    <3> QED BY <1>5, <2>1, <3>2, <3>3, <3>4 DEF Served, Rested
  <2>3. CASE ~(Router!Length(c) <= window)
    <3>0. window \in Nat /\ window <= c.to - c.from /\ window + SwLen <= Class!MaxPayloadLen
      BY <1>1, <2>1, <2>3
    <3>1. T.r = [F EXCEPT !.mirror = Router!Rest(c, window)] /\ T.out = Router!First(c, window)
      BY <1>5, <2>3 DEF Router!cmd_send_remaining, window
    <3>2. /\ T.out \in Chunks /\ T.out.tag = c.tag /\ T.out.from = c.from
          /\ T.out.to = c.from + window /\ T.out.sw = "more"
          /\ Router!Rest(c, window) \in Chunks /\ Rested(Router!Rest(c, window))
          /\ Router!Rest(c, window).tag = c.tag /\ Router!Rest(c, window).from = c.from + window
      BY <2>1, <3>0, <3>1, CutLemma
    <3>3. T.out.to - T.out.from = window
      BY <2>1, <3>0, <3>2
    <3>4. S.r = T.r /\ S.out = T.out
      BY <1>1, <1>2, <3>3
    <3>5. /\ S.r \in Routers /\ S.r.selected = R.selected
          /\ S.r.chain = Empty /\ S.r.mirror = Router!Rest(c, window)
      BY <3>1, <3>2, <3>4 DEF Routers
    <3>6. Rested(S.r.chain)
      BY <3>5 DEF Rested
    <3> HIDE DEF S, T
    <3> QED BY <1>5, <3>0, <3>2, <3>3, <3>4, <3>5, <3>6 DEF Served
  <2> QED BY <2>2, <2>3
<1> QED BY <1>4, <1>5

LEMMA ProcessLemma ==
    ASSUME NEW R \in Routers, Rested(R.chain), Rested(R.mirror), NEW apdu \in NamedApdus,
           NEW accepts \in BOOLEAN,
           NEW n \in IF apdu.ins = "select" THEN {SelectLen} ELSE BodyLens,
           apdu.ins = "send_remaining" => apdu.le # NoLe
    PROVE  Served(R, apdu, Router!process(R, apdu, apdu.tag, accepts, n).r,
                  Router!process(R, apdu, apdu.tag, accepts, n).out)
<1> DEFINE F == [R EXCEPT !.chain = Empty]
           A == Router!applet_process(F, apdu, apdu.tag, accepts, n)
           D == Router!deliver(A.r, A.out, apdu.le)
           S == Router!process(R, apdu, apdu.tag, accepts, n)
<1> SUFFICES Served(R, apdu, S.r, S.out)
  OBVIOUS
<1>1. apdu.ins \in Instructions
  BY DEF NamedApdus
<1>2. F \in Routers /\ F.selected = R.selected /\ F.chain = Empty /\ F.mirror = R.mirror
  BY DEF Routers
<1>3. Rested(F.chain) /\ Rested(F.mirror)
  BY <1>2 DEF Rested
<1>4. CASE apdu.ins = "malformed"
  <2>1. S.r = R /\ S.out = Router!Status("length")
    BY <1>4 DEF Router!process
  <2> QED BY <2>1, StatusServed
<1>5. CASE apdu.ins = "get_response"
  <2>1. S = Router!serve_get_response(R, apdu.le)
    BY <1>5 DEF Router!process
  <2> QED BY <1>5, <2>1, GetResponseLemma
<1>6. CASE apdu.ins = "select"
  <2>1. n = SelectLen
    BY <1>6
  <2>2. S = Router!handle_select(F, apdu, apdu.tag, accepts, SelectLen)
    BY <1>6, <2>1 DEF Router!process
  <2> QED BY <1>6, <2>2, SelectLemma
<1>7. CASE apdu.ins \in {"command", "send_remaining"} /\ F.selected = Empty
  <2>1. S.r = F /\ S.out = Router!Status("ins")
    BY <1>7 DEF Router!process
  <2> HIDE DEF F
  <2> QED BY <1>2, <1>3, <2>1, StatusServed
<1>8. CASE apdu.ins \in {"command", "send_remaining"} /\ F.selected # Empty
  <2>1. S = D
    BY <1>8 DEF Router!process
  <2>2. LET d == Router!Status("error")
        IN d \in Chunks /\ d.from = 0 /\ d.to = 0 /\ d.sw = "error"
    BY StatusLemma DEF Router!StatusWords
  <2>3. ASSUME NEW G, A.r = G, A.out = Router!Status("error") PROVE D.r = G /\ D.out = A.out
    <3>1. Router!Length(A.out) = 0
      BY <2>2, <2>3 DEF Router!Length
    <3> HIDE DEF A
    <3> QED BY <2>3, <3>1 DEF Router!deliver
  <2>4. CASE apdu.ins = "command" /\ accepts
    <3>1. n \in Nat
      BY <2>4, ConstantsOK
    <3>2. /\ A.out = Router!Whole(apdu.tag, n)
          /\ A.r = IF F.selected = "oath"
                   THEN Router!mirrored(F, Router!Whole(apdu.tag, n), apdu.le) ELSE F
      BY <2>4 DEF Router!applet_process
    <3> HIDE DEF F, A
    <3> QED BY <1>2, <1>3, <2>1, <2>4, <3>1, <3>2, CommandLemma
  <2>5. CASE apdu.ins = "command" /\ ~accepts
    <3> DEFINE G == IF F.selected = "oath" THEN [F EXCEPT !.mirror = Empty] ELSE F
    <3>1. A.out = Router!Status("error") /\ A.r = G
      BY <2>2, <2>5 DEF Router!applet_process, Router!mirrored
    <3>2. G \in Routers /\ G.selected = R.selected /\ Rested(G.chain) /\ Rested(G.mirror)
      <4>1. CASE F.selected = "oath"
        <5>1. G = [F EXCEPT !.mirror = Empty]
          BY <4>1
        <5> HIDE DEF F, G
        <5> QED BY <1>2, <1>3, <5>1 DEF Routers, Rested
      <4>2. CASE F.selected # "oath"
        <5>1. G = F
          BY <4>2
        <5> HIDE DEF F, G
        <5> QED BY <1>2, <1>3, <5>1
      <4> QED BY <4>1, <4>2
    <3>3. S.r = G /\ S.out = Router!Status("error")
      <4> HIDE DEF A, G, D, S
      <4> QED BY <2>1, <2>3, <3>1
    <3> HIDE DEF S, G
    <3> QED BY <3>2, <3>3, StatusServed
  <2>6. CASE apdu.ins = "send_remaining" /\ F.selected = "oath" /\ accepts
    <3>1. A = Router!cmd_send_remaining(F, apdu.le)
      BY <2>6 DEF Router!applet_process
    <3> HIDE DEF F, A
    <3> QED BY <1>2, <2>1, <2>6, <3>1, RemainingLemma
  <2>7. CASE apdu.ins = "send_remaining" /\ ~(F.selected = "oath" /\ accepts)
    <3>1. A.out = Router!Status("error") /\ A.r = F
      BY <2>7 DEF Router!applet_process
    <3>2. S.r = F /\ S.out = Router!Status("error")
      <4> HIDE DEF A, F, D, S
      <4> QED BY <2>1, <2>3, <3>1
    <3> HIDE DEF S, F
    <3> QED BY <1>2, <1>3, <3>2, StatusServed
  <2> QED BY <1>8, <2>4, <2>5, <2>6, <2>7
<1> QED BY <1>1, <1>4, <1>5, <1>6, <1>7, <1>8 DEF Instructions

-----------------------------------------------------------------------------
(* What the host reads.                                                      *)

\* The response goes on where the host's reading of it ends.
Follows(R, wy, ap, tg, n) ==
    LET c == IF ap = "oath" /\ wy = "send_remaining" THEN R.mirror ELSE R.chain
    IN c # Empty => c.tag = tg /\ c.from = n

Unserved(w, m, s, x) == (m = "arriving" /\ s = w.seq) \/ x = w.seq

\* A reply to the command the host waits for.
Proper(r, w, R, wy, ap) ==
    /\ w.cmd = "xfr_block" /\ r.type = "data_block" /\ r.err = "none" =>
         /\ r.data \in Chunks
         /\ r.data.from < r.data.to => r.data.tag = w.tag /\ r.data.from = w.from
         /\ r.data.sw = "ok" => r.data.to = r.data.of
         /\ r.data.sw = "more" => /\ w.ins \notin {"malformed", "select"}
                                   /\ Follows(R, wy, ap, w.tag, r.data.to)
    /\ ap # Empty /\ w.ins = "select" =>
         \/ R.selected = ap
         \/ r.type = "data_block" /\ r.err = "none" /\ r.data.sw = "ok"

Reading(F, w, m, s, x, R, rd, wy, ap) ==
    /\ R \in Routers /\ Rested(R.chain) /\ Rested(R.mirror)
    /\ rd \in [tag : Nat, n : Nat] \cup {Empty} /\ ap \in AppletNames \cup {Empty}
    /\ wy \in Ways
    /\ wy = "control" => ap = Empty /\ rd = Empty /\ (w # Empty => w.ins \in {Empty, "malformed"})
    /\ w # Empty /\ w.cmd # "xfr_block" => rd = Empty /\ w.ins = Empty
    /\ w # Empty /\ w.cmd = "xfr_block" =>
         /\ w.ins # Empty
         /\ w.ins \in {"malformed", "command", "select"} => w.from = 0 /\ rd = Empty
         /\ w.ins \in {"get_response", "send_remaining"} =>
              /\ w.ins = IF ap = "oath" THEN wy ELSE "get_response"
              /\ Unserved(w, m, s, x) => Follows(R, wy, ap, w.tag, w.from)
    /\ w = Empty /\ rd # Empty => Follows(R, wy, ap, rd.tag, rd.n)
    /\ ap # Empty /\ (w = Empty \/ w.ins # "select" \/ Unserved(w, m, s, x)) => R.selected = ap
    /\ w # Empty => \A r \in F : r.seq = w.seq => Proper(r, w, R, wy, ap)

\* Fewer replies in flight, or the same, and no step of the router.
LEMMA ReadingFewer ==
    ASSUME NEW F, NEW F2, NEW w, NEW m, NEW s, NEW x, NEW m2, NEW x2, NEW R, NEW rd, NEW wy,
           NEW ap, Reading(F, w, m, s, x, R, rd, wy, ap), F2 \subseteq F,
           w # Empty => (Unserved(w, m2, s, x2) => Unserved(w, m, s, x))
    PROVE  Reading(F2, w, m2, s, x2, R, rd, wy, ap)
BY DEF Reading

\* The class answers a command by itself.
LEMMA ReadingReplied ==
    ASSUME NEW F, NEW F2, NEW w, NEW m, NEW s, NEW x, NEW m2, NEW R, NEW rd, NEW wy, NEW ap,
           NEW r, Reading(F, w, m, s, x, R, rd, wy, ap), F2 \subseteq F \cup {r},
           w # Empty /\ r.seq = w.seq =>
             /\ Unserved(w, m, s, x) \/ wy = "control"
             /\ w.cmd = "xfr_block" => ~(r.type = "data_block" /\ r.err = "none"),
           w # Empty => (Unserved(w, m2, s, x) => Unserved(w, m, s, x))
    PROVE  Reading(F2, w, m2, s, x, R, rd, wy, ap)
<1>1. w # Empty /\ r.seq = w.seq => Proper(r, w, R, wy, ap)
  BY DEF Reading, Proper
<1>2. w # Empty => \A y \in F2 : y.seq = w.seq => Proper(y, w, R, wy, ap)
  BY <1>1 DEF Reading
<1>3. Reading({}, w, m2, s, x, R, rd, wy, ap)
  BY DEF Reading
<1> QED BY <1>2, <1>3 DEF Reading

\* The router answers the APDU the host waits for ...
LEMMA ReadingServed ==
    ASSUME NEW F, NEW F2, NEW w, NEW m, NEW s, NEW x, NEW R, NEW rd, NEW wy, NEW ap,
           NEW apdu \in NamedApdus, NEW R2, NEW r,
           Reading(F, w, m, s, x, R, rd, wy, ap), F2 \subseteq F \cup {r},
           w \in Wants, w.cmd = "xfr_block", apdu.ins = w.ins, apdu.tag = w.tag,
           apdu.ins = "send_remaining" => apdu.le # NoLe,
           x = w.seq, m = "arriving" => s # w.seq, \A y \in F : y.seq # w.seq,
           r.type = "data_block", r.err = "none",
           Served(R, apdu, R2, r.data)
    PROVE  Reading(F2, w, m, s, Empty, R2, rd, wy, ap)
<1> DEFINE d == r.data
<1>0. w # Empty /\ w.seq # Empty
  BY EmptyIsNone DEF Wants
<1>1. Unserved(w, m, s, x) /\ ~Unserved(w, m, s, Empty)
  BY <1>0 DEF Unserved
<1>2. w.ins \in Instructions /\ w.ins # Empty
  BY <1>0 DEF NamedApdus, Reading
<1>3. R2 \in Routers /\ Rested(R2.chain) /\ Rested(R2.mirror) /\ d \in Chunks
  BY DEF Served
<1>4. ap # Empty => R.selected = ap
  BY <1>1 DEF Reading
<1>5. w.ins \in {"get_response", "send_remaining"} => Follows(R, wy, ap, w.tag, w.from)
  BY <1>0, <1>1 DEF Reading
<1> HIDE DEF d
<1>6. d.from < d.to => d.tag = w.tag /\ d.from = w.from
  <2> SUFFICES ASSUME d.from < d.to PROVE d.tag = w.tag /\ d.from = w.from
    OBVIOUS
  <2>1. CASE w.ins \in {"malformed", "command", "select"}
    BY <1>0, <2>1 DEF Served, Reading, d
  <2>2. CASE w.ins = "get_response"
    <3>1. ~(ap = "oath" /\ wy = "send_remaining")
      BY <1>0, <2>2 DEF Reading
    <3>2. R.chain # Empty /\ d.tag = R.chain.tag /\ d.from = R.chain.from
      BY <2>2 DEF Served, d
    <3> QED BY <1>5, <2>2, <3>1, <3>2 DEF Follows
  <2>3. CASE w.ins = "send_remaining"
    <3>1. ap = "oath" /\ wy = "send_remaining"
      BY <1>0, <2>3 DEF Reading
    <3>2. R.selected = "oath" \/ ap = Empty
      BY <1>4, <3>1
    <3>3. ap # Empty
      BY <3>1, <2>3, EmptyIsNone
    <3>4. R.mirror # Empty /\ d.tag = R.mirror.tag /\ d.from = R.mirror.from
      BY <2>3, <3>2, <3>3 DEF Served, d
    <3> QED BY <1>5, <2>3, <3>1, <3>4 DEF Follows
  <2> QED BY <1>2, <2>1, <2>2, <2>3 DEF Instructions
<1>7. d.sw = "more" =>
        w.ins \notin {"malformed", "select"} /\ Follows(R2, wy, ap, w.tag, d.to)
  <2> SUFFICES ASSUME d.sw = "more"
               PROVE  w.ins \notin {"malformed", "select"} /\ Follows(R2, wy, ap, w.tag, d.to)
    OBVIOUS
  <2>1. CASE w.ins \in {"malformed", "select"}
    BY <2>1 DEF Served, d
  <2>2. CASE w.ins = "command"
    <3>1. ap = "oath" => R.selected = "oath"
      BY <1>4, EmptyIsNone
    <3> QED BY <2>2, <3>1 DEF Served, d, Follows
  <2>3. CASE w.ins = "get_response"
    <3>1. ~(ap = "oath" /\ wy = "send_remaining")
      BY <1>0, <2>3 DEF Reading
    <3> QED BY <1>5, <2>3, <3>1 DEF Follows, Served, d
  <2>4. CASE w.ins = "send_remaining"
    <3>1. ap = "oath" /\ wy = "send_remaining"
      BY <1>0, <2>4 DEF Reading
    <3>2. R.selected = "oath"
      BY <1>4, <3>1, EmptyIsNone
    <3> QED BY <1>5, <2>4, <3>1, <3>2 DEF Follows, Served, d
  <2> QED BY <1>2, <2>1, <2>2, <2>3, <2>4 DEF Instructions
<1>8. R2.selected = R.selected \/ (w.ins = "select" /\ d.sw = "ok")
  BY DEF Served, d
<1>9. d.sw = "ok" => d.to = d.of
  BY DEF Served, d
<1>10. Proper(r, w, R2, wy, ap)
  BY <1>3, <1>4, <1>6, <1>7, <1>8, <1>9 DEF Proper, d
<1>11. \A y \in F2 : y.seq = w.seq => Proper(y, w, R2, wy, ap)
  BY <1>10
<1>12. ap # Empty /\ w.ins # "select" => R2.selected = ap
  BY <1>4, <1>8
<1>13. Reading({}, w, m, s, Empty, R2, rd, wy, ap)
  BY <1>0, <1>1, <1>3, <1>12 DEF Reading
<1> QED BY <1>11, <1>13 DEF Reading

\* ... or one that it has given up.
LEMMA ReadingGivenUp ==
    ASSUME NEW F, NEW F2, NEW w, NEW m, NEW s, NEW x, NEW R, NEW rd, NEW wy, NEW ap,
           NEW apdu \in NamedApdus, NEW R2, NEW r, Reading(F, w, m, s, x, R, rd, wy, ap),
           F2 \subseteq F \cup {r}, w \in Wants, w.cmd = "abort", r.seq # w.seq,
           apdu.ins = "select" => ap = Empty, Served(R, apdu, R2, r.data)
    PROVE  Reading(F2, w, m, s, Empty, R2, rd, wy, ap)
<1>0. w # Empty /\ w.seq # Empty
  BY EmptyIsNone DEF Wants
<1>1. R2 \in Routers /\ Rested(R2.chain) /\ Rested(R2.mirror)
  BY DEF Served
<1>2. ap # Empty => R2.selected = ap
  <2>1. w.ins = Empty
    BY <1>0 DEF Reading
  <2>2. Empty # "select"
    BY EmptyIsNone DEF Instructions
  <2>3. ap # Empty => R.selected = ap
    BY <1>0, <2>1, <2>2 DEF Reading
  <2> QED BY <2>3 DEF Served
<1>3. \A y \in F2 : y.seq = w.seq => Proper(y, w, R2, wy, ap)
  BY <1>2 DEF Proper
<1>4. Reading({}, w, m, s, Empty, R2, rd, wy, ap)
  BY <1>0, <1>1, <1>2 DEF Reading
<1> QED BY <1>3, <1>4 DEF Reading

-----------------------------------------------------------------------------
(* The invariant.                                                            *)

ModeOf(o) == IF o = << >> THEN "none" ELSE IF Bytes(o) > 0 THEN "arriving" ELSE "zlp"
LeadOf(o, c) == IF o = << >> THEN c.head ELSE o[1].head
ServingOf(c) == IF c.pending = Empty THEN Empty ELSE c.answering

\* The command that travels, and the APDU the slot holds, are those the host waits for,
\* unless it has given the APDU up.
Linked(c, o, w, P, ap, p) ==
    /\ o # << >> /\ w # Empty /\ o[1].head.seq = w.seq =>
         /\ o[1].head.cmd = w.cmd
         /\ w.cmd = "xfr_block" => /\ o[1].head.payload.ins = w.ins
                                  /\ o[1].head.payload.tag = w.tag
    /\ o # << >> /\ o[1].head.seq \in P => o[1].head.cmd = "slot_status"
    /\ c.pending # Empty =>
         /\ p = "serve" /\ c.answering \in Nat /\ w # Empty
         /\ c.pending.ins = "send_remaining" => c.pending.le # NoLe
         /\ Live(w) => /\ w.cmd = "xfr_block"
                       /\ c.pending.ins = w.ins /\ c.pending.tag = w.tag
         /\ ~Live(w) /\ c.pending.ins = "select" => ap = Empty

Sound(c, o, g, w, P, R, rd, wy, ap, p) ==
    /\ c \in Classes /\ c.rx.ready = FALSE /\ c.awaiting = FALSE
    /\ Shape(c.ep, c.tx, c.q, g)
    /\ Core(c.ep, c.tx, c.q, g, w, P, ModeOf(o), LeadOf(o, c).seq, ServingOf(c))
    /\ Transit(o, c.rx.len, c.head, wy)
    /\ Linked(c, o, w, P, ap, p)
    /\ Reading(Flight(c.ep, c.tx, c.q), w, ModeOf(o), LeadOf(o, c).seq, ServingOf(c),
               R, rd, wy, ap)

\* With nothing arriving no bSeq is special.
LEMMA AnyLead ==
    ASSUME NEW e, NEW t, NEW q, NEW g, NEW w, NEW P, NEW s, NEW s2 \in Nat, NEW x,
           Core(e, t, q, g, w, P, "none", s, x)
    PROVE  Core(e, t, q, g, w, P, "none", s2, x)
BY DEF Core

LEMMA AnyLeadReading ==
    ASSUME NEW F, NEW w, NEW s, NEW s2, NEW x, NEW R, NEW rd, NEW wy, NEW ap,
           Reading(F, w, "none", s, x, R, rd, wy, ap)
    PROVE  Reading(F, w, "none", s2, x, R, rd, wy, ap)
BY DEF Reading, Unserved

\* A poll with nothing to receive.
LEMMA PollIdle ==
    ASSUME NEW c, NEW g, NEW w, NEW P, NEW R, NEW rd, NEW wy, NEW ap,
           Sound(c, << >>, g, w, P, R, rd, wy, ap, "poll")
    PROVE  Sound(Class!process(c), << >>, g, w, P, R, rd, wy, ap, "serve")
<1> DEFINE d == Class!flush_tx(c)
<1>1. /\ c \in Classes /\ c.rx.ready = FALSE /\ c.awaiting = FALSE /\ c.pending = Empty
      /\ Settled(c) /\ Shape(c.ep, c.tx, c.q, g)
  BY DEF Sound, Linked, Shape, Settled
<1>2. Class!process(c) = d
  BY <1>1 DEF Class!process
<1>3. d \in Classes /\ Same(c, d) /\ Flushed(c.ep, c.tx, c.q, d.ep, d.tx, d.q)
  BY <1>1, FlushLemma DEF Settled
<1> HIDE DEF d
<1>4. /\ d.rx = c.rx /\ d.head = c.head /\ d.pending = Empty /\ d.awaiting = FALSE
  BY <1>1, <1>3 DEF Same
<1>5. Shape(d.ep, d.tx, d.q, g) /\ Flight(d.ep, d.tx, d.q) = Flight(c.ep, c.tx, c.q)
  BY <1>1, <1>3, ShapeFlushed
<1>6. Core(c.ep, c.tx, c.q, g, w, P, "none", c.head.seq, Empty)
  BY <1>1 DEF Sound, ModeOf, LeadOf, ServingOf
<1>7. Core(d.ep, d.tx, d.q, g, w, P, "none", c.head.seq, Empty)
  BY <1>1, <1>3, <1>6, CoreFlushed
<1>8. Reading(Flight(c.ep, c.tx, c.q), w, "none", c.head.seq, Empty, R, rd, wy, ap)
  BY <1>1 DEF Sound, ModeOf, LeadOf, ServingOf
<1>9. Transit(<< >>, d.rx.len, d.head, wy)
  BY <1>4 DEF Sound, Transit
<1>10. Linked(d, << >>, w, P, ap, "serve")
  BY <1>4 DEF Linked
<1>11. Sound(d, << >>, g, w, P, R, rd, wy, ap, "serve")
  BY <1>1, <1>3, <1>4, <1>5, <1>7, <1>8, <1>9, <1>10 DEF Sound, ModeOf, LeadOf, ServingOf
<1> QED BY <1>2, <1>11

\* What holds when a poll begins.
LEMMA PollStart ==
    ASSUME NEW c, NEW o, NEW g, NEW w, NEW P, NEW R, NEW rd, NEW wy, NEW ap,
           Sound(c, o, g, w, P, R, rd, wy, ap, "poll")
    PROVE  /\ c \in Classes /\ c.rx.ready = FALSE /\ c.awaiting = FALSE /\ c.pending = Empty
           /\ Settled(c) /\ Shape(c.ep, c.tx, c.q, g)
           /\ Core(c.ep, c.tx, c.q, g, w, P, ModeOf(o), LeadOf(o, c).seq, Empty)
           /\ Transit(o, c.rx.len, c.head, wy)
           /\ Reading(Flight(c.ep, c.tx, c.q), w, ModeOf(o), LeadOf(o, c).seq, Empty,
                      R, rd, wy, ap)
<1>1. c.pending = Empty
  BY DEF Sound, Linked
<1>2. ServingOf(c) = Empty
  BY <1>1 DEF ServingOf
<1>3. Settled(c)
  BY DEF Sound, Shape, Settled
<1> QED BY <1>1, <1>2, <1>3 DEF Sound

\* A poll that receives the zero-length packet after a message.
LEMMA PollZlp ==
    ASSUME NEW c, NEW o, NEW g, NEW w, NEW P, NEW R, NEW rd, NEW wy, NEW ap,
           Sound(c, o, g, w, P, R, rd, wy, ap, "poll"), o # << >>, ModeOf(o) = "zlp"
    PROVE  Sound(Class!process(Class!rx_append(c, Head(o).n, Head(o).head)), Tail(o),
                 g, w, P, R, rd, wy, ap, "serve")
<1> DEFINE a == Class!rx_append(c, Head(o).n, Head(o).head)
           d == Class!dispatch_rx(a)
           s == o[1].head.seq
<1>0. Bytes(o) = 0
  <2>1. Bytes(o) \in Nat
    BY BytesLemma DEF Sound, Transit
  <2> QED BY <2>1 DEF ModeOf
<1>1. /\ c \in Classes /\ c.rx.ready = FALSE /\ c.awaiting = FALSE /\ c.pending = Empty
      /\ Settled(c) /\ Shape(c.ep, c.tx, c.q, g)
      /\ Core(c.ep, c.tx, c.q, g, w, P, "zlp", s, Empty)
      /\ Transit(o, c.rx.len, c.head, wy)
      /\ Reading(Flight(c.ep, c.tx, c.q), w, "zlp", s, Empty, R, rd, wy, ap)
  <2>1. LeadOf(o, c).seq = s
    BY DEF LeadOf
  <2> HIDE DEF s
  <2> QED BY <2>1, PollStart
<1>2. /\ a \in Classes /\ a.head = c.head /\ a.rx.ready = TRUE /\ a.rx.len = 0
      /\ a.tx = c.tx /\ a.q = c.q /\ a.ep = c.ep
      /\ a.pending = Empty /\ a.awaiting = FALSE
      /\ Tail(o) = << >> /\ c.head.seq = s /\ wy = "control"
  <2>1. /\ c \in Classes /\ c.rx.ready = FALSE /\ Transit(o, c.rx.len, c.head, wy)
        /\ o # << >> /\ Bytes(o) = 0
    BY <1>0, <1>1
  <2>2. TookZlp(c, o, wy, a)
    BY <2>1, AppendZlp
  <2> HIDE DEF a
  <2> QED BY <1>1, <2>2 DEF TookZlp
<1>3. Class!process(a) = Class!flush_tx(d)
  BY <1>2 DEF Class!process
<1> HIDE DEF a, s
<1>4. a.rx.len < HeaderLen /\ Settled(a)
  BY <1>1, <1>2, Lengths DEF Settled
<1>5. PICK r \in Replies : Replied(a, d, a.head, r)
  <2>1. (\E r \in Replies : Replied(a, d, a.head, r)) \/ Held(a, d, a.head)
    BY <1>2, <1>4, DispatchLemma
  <2> QED BY <1>4, <2>1 DEF Held
<1> HIDE DEF d
<1>6. /\ d \in Classes /\ r.seq = s /\ Queued(c.ep, c.tx, c.q, d.ep, d.tx, d.q, r)
      /\ d.rx = Class!build.rx /\ d.head.seq = s /\ d.pending = Empty /\ d.awaiting = FALSE
      /\ r.len = HeaderLen /\ r.type # "data_block"
  BY <1>2, <1>4, <1>5 DEF Replied
<1>7. /\ Shape(d.ep, d.tx, d.q, g) /\ d.ep # Empty
      /\ Flight(d.ep, d.tx, d.q) \subseteq Flight(c.ep, c.tx, c.q) \cup {r}
  BY <1>1, <1>6, ShapeQueued
<1>8. Class!flush_tx(d) = d
  BY <1>6, <1>7, FlushLemma DEF Shape
<1>9. r.len <= PS
  BY <1>6, Lengths DEF PS
<1>10. Core(d.ep, d.tx, d.q, g, w, P, "none", s, Empty)
  BY <1>1, <1>6, <1>9, CoreZlp
<1>11. Reading(Flight(d.ep, d.tx, d.q), w, "none", s, Empty, R, rd, wy, ap)
  <2>1. /\ Unserved(w, "none", s, Empty) => Unserved(w, "zlp", s, Empty)
    BY DEF Unserved
  <2> QED BY <1>1, <1>2, <1>6, <1>7, <2>1, ReadingReplied
<1>12. d.rx.ready = FALSE /\ d.rx.len = 0
  BY <1>6 DEF Class!build
<1>13. Transit(<< >>, 0, d.head, wy)
  BY Lengths DEF Transit
<1>14. Linked(d, << >>, w, P, ap, "serve")
  BY <1>6 DEF Linked
<1>15. Sound(d, << >>, g, w, P, R, rd, wy, ap, "serve")
  BY <1>6, <1>7, <1>10, <1>11, <1>12, <1>13, <1>14 DEF Sound, ModeOf, LeadOf, ServingOf
<1> QED BY <1>2, <1>3, <1>8, <1>15 DEF a

\* A poll that receives a packet with something in it.
LEMMA PollTook ==
    ASSUME NEW c, NEW o, NEW g, NEW w, NEW P, NEW R, NEW rd, NEW wy, NEW ap,
           Sound(c, o, g, w, P, R, rd, wy, ap, "poll"), o # << >>, ModeOf(o) = "arriving"
    PROVE  /\ Took(c, o, Class!rx_append(c, Head(o).n, Head(o).head))
           /\ Bytes(o) > 0 /\ o[1].head \in Headers /\ WellFormed(o[1].head)
           /\ LeadOf(o, c).seq = o[1].head.seq
<1>1. Bytes(o) > 0
  BY DEF ModeOf
<1>2. c \in Classes /\ c.rx.ready = FALSE /\ Transit(o, c.rx.len, c.head, wy)
  BY PollStart
<1>3. Took(c, o, Class!rx_append(c, Head(o).n, Head(o).head))
  BY <1>1, <1>2, AppendLemma
<1>4. Uniform(o, o[1].head) /\ WellFormed(o[1].head)
  BY <1>2 DEF Transit
<1>5. o[1].head \in Headers
  <2>1. o \in Seq(OutPackets) /\ Len(o) \in Nat \ {0}
    BY <1>4, BytesLemma DEF Uniform
  <2>2. o[1] \in OutPackets
    BY <2>1
  <2> QED BY <2>2 DEF OutPackets
<1> QED BY <1>1, <1>3, <1>4, <1>5 DEF LeadOf

LEMMA PollPart ==
    ASSUME NEW c, NEW o, NEW g, NEW w, NEW P, NEW R, NEW rd, NEW wy, NEW ap, NEW a,
           Sound(c, o, g, w, P, R, rd, wy, ap, "poll"), o # << >>, ModeOf(o) = "arriving",
           Took(c, o, a), a.rx.ready = FALSE
    PROVE  Sound(Class!process(a), Tail(o), g, w, P, R, rd, wy, ap, "serve")
<1> DEFINE d == Class!flush_tx(a)
           h == o[1].head
           o2 == Tail(o)
<1>1. /\ c \in Classes /\ c.rx.ready = FALSE /\ c.awaiting = FALSE /\ c.pending = Empty
      /\ Settled(c) /\ Shape(c.ep, c.tx, c.q, g)
      /\ Core(c.ep, c.tx, c.q, g, w, P, "arriving", h.seq, Empty)
      /\ Transit(o, c.rx.len, c.head, wy)
      /\ Reading(Flight(c.ep, c.tx, c.q), w, "arriving", h.seq, Empty, R, rd, wy, ap)
  <2>1. LeadOf(o, c).seq = h.seq
    BY PollTook
  <2> HIDE DEF h
  <2> QED BY <2>1, PollStart
<1>2. /\ a \in Classes /\ a.head = h /\ a.tx = c.tx /\ a.q = c.q /\ a.ep = c.ep
      /\ a.pending = Empty /\ a.awaiting = FALSE
      /\ Bytes(o) > PS /\ o[1].n = PS /\ a.rx.len = c.rx.len + PS
  BY <1>1 DEF Took
<1>3. Class!process(a) = d
  BY DEF Class!process
<1>4. d \in Classes /\ Same(a, d) /\ Flushed(c.ep, c.tx, c.q, d.ep, d.tx, d.q)
  BY <1>1, <1>2, FlushLemma DEF Settled
<1> HIDE DEF d
<1>5. /\ d.rx = a.rx /\ d.head = h /\ d.pending = Empty /\ d.awaiting = FALSE
  BY <1>2, <1>4 DEF Same
<1>6. Shape(d.ep, d.tx, d.q, g) /\ Flight(d.ep, d.tx, d.q) = Flight(c.ep, c.tx, c.q)
  BY <1>1, <1>4, ShapeFlushed
<1>7. Core(d.ep, d.tx, d.q, g, w, P, "arriving", h.seq, Empty)
  BY <1>1, <1>4, CoreFlushed
<1>8. a.rx.len \in 0..MaxMsgLen /\ c.rx.len \in 0..MaxMsgLen /\ a.rx.len <= MaxMsgLen
  BY <1>1, <1>2 DEF Classes
<1>9. /\ o2 # << >> /\ Bytes(o2) > 0 /\ o2[1].head = h /\ Transit(o2, a.rx.len, h, wy)
  BY <1>1, <1>2, <1>8, TransitTail DEF ModeOf
<1> HIDE DEF h, o2
<1>10. ModeOf(o2) = "arriving" /\ LeadOf(o2, d) = h /\ ServingOf(d) = Empty
  BY <1>5, <1>9 DEF ModeOf, LeadOf, ServingOf
<1>11. Linked(d, o2, w, P, ap, "serve")
  <2>1. Linked(c, o, w, P, ap, "poll")
    BY DEF Sound
  <2> QED BY <1>5, <1>9, <2>1 DEF Linked, h
<1>12. Sound(d, o2, g, w, P, R, rd, wy, ap, "serve")
  BY <1>1, <1>4, <1>5, <1>6, <1>7, <1>9, <1>10, <1>11 DEF Sound
<1> QED BY <1>3, <1>12 DEF o2

\* A poll that receives the end of a message.
LEMMA PollArrived ==
    ASSUME NEW c, NEW o, NEW g, NEW w, NEW P, NEW R, NEW rd, NEW wy, NEW ap, NEW a,
           Sound(c, o, g, w, P, R, rd, wy, ap, "poll"), o # << >>, ModeOf(o) = "arriving",
           Took(c, o, a), a.rx.ready = TRUE
    PROVE  Sound(Class!process(a), Tail(o), g, w, P, R, rd, wy, ap, "serve")
<1> DEFINE d == Class!dispatch_rx(a)
           h == o[1].head
           o2 == Tail(o)
           m2 == ModeOf(o2)
           F == Flight(c.ep, c.tx, c.q)
<1>1. /\ c \in Classes /\ c.rx.ready = FALSE /\ c.awaiting = FALSE /\ c.pending = Empty
      /\ Settled(c) /\ Shape(c.ep, c.tx, c.q, g)
      /\ Core(c.ep, c.tx, c.q, g, w, P, "arriving", h.seq, Empty)
      /\ Transit(o, c.rx.len, c.head, wy)
      /\ Reading(F, w, "arriving", h.seq, Empty, R, rd, wy, ap)
  <2>1. LeadOf(o, c).seq = h.seq
    BY PollTook
  <2> HIDE DEF h, F
  <2> QED BY <2>1, PollStart DEF F
<1>2. /\ a \in Classes /\ a.head = h /\ a.tx = c.tx /\ a.q = c.q /\ a.ep = c.ep
      /\ a.pending = Empty /\ a.awaiting = FALSE
  BY <1>1 DEF Took
<1>3. Bytes(o) > 0 /\ Bytes(o) = o[1].n
  BY DEF Took, ModeOf
<1>4. h \in Headers /\ WellFormed(h) /\ h.seq \in Nat
  BY PollTook DEF Headers
<1>5. \A hd2 : hd2.seq = h.seq => Transit(o2, 0, hd2, wy)
  BY <1>1, <1>3, TransitTail
<1>6. o2 # << >> => Bytes(o2) = 0 /\ o2[1].head = h /\ Extent(h) % PS = 0
  BY <1>1, <1>3, TransitTail
<1>7. m2 = IF o2 = << >> THEN "none" ELSE "zlp"
  BY <1>6 DEF ModeOf
<1>8. Class!process(a) = Class!flush_tx(d)
  BY DEF Class!process
<1>9. Linked(c, o, w, P, ap, "poll")
  BY DEF Sound
<1>10. /\ h.seq \in P => h.cmd = "slot_status"
       /\ w # Empty /\ h.seq = w.seq =>
            /\ h.cmd = w.cmd
            /\ w.cmd = "xfr_block" => h.payload.ins = w.ins /\ h.payload.tag = w.tag
  BY <1>9 DEF Linked
<1> HIDE DEF d, h, o2, m2, F
<1>11. /\ w \in Wants \cup {Empty}
       /\ \/ w # Empty /\ h.seq = w.seq
          \/ h.seq \in P /\ Live(w)
  BY <1>1 DEF Core
<1>12. ~Live(w) => h.cmd = "abort"
  BY <1>10, <1>11 DEF Live
<1>13. m2 = "zlp" => h.seq \notin P /\ Live(w)
  <2>1. SUFFICES ASSUME m2 = "zlp", h.cmd \in {"slot_status", "abort"} PROVE FALSE
    BY <1>10, <1>12
  <2>2. Extent(h) = HeaderLen + 0
    BY <1>4, <2>1 DEF Extent, WellFormed
  <2>3. HeaderLen % PS = HeaderLen /\ HeaderLen + 0 = HeaderLen /\ HeaderLen # 0
    <3>1. HeaderLen \in Nat /\ PS \in Nat /\ HeaderLen < PS /\ HeaderLen # 0
      BY Lengths DEF PS
    <3> QED BY <3>1, SmallRemainder
  <2> QED BY <1>6, <1>7, <2>1, <2>2, <2>3
<1>14. Settled(a)
  BY <1>1, <1>2 DEF Settled
<1>15. (\E r \in Replies : Replied(a, d, h, r)) \/ Held(a, d, h)
  <2>1. /\ ~(a.rx.len < HeaderLen) /\ h.cmd = "set_params" => h.payload \in AllParams
        /\ ~(a.rx.len < HeaderLen) /\ h.cmd = "xfr_block" => h.payload \in NamedApdus
    BY <1>4 DEF WellFormed
  <2> QED BY <1>2, <1>14, <2>1, DispatchLemma DEF d
<1>16. m2 \in {"none", "zlp"}
  BY <1>7
<1>17. CASE \E r \in Replies : Replied(a, d, h, r)
  <2>1. PICK r \in Replies : Replied(a, d, h, r)
    BY <1>17
  <2>2. /\ d \in Classes /\ r.seq = h.seq /\ Queued(c.ep, c.tx, c.q, d.ep, d.tx, d.q, r)
        /\ d.rx = Class!build.rx /\ d.head.seq = h.seq /\ d.pending = Empty
        /\ d.awaiting = FALSE
        /\ r.type = "data_block" /\ r.err = "none" => h.cmd = "power_on"
        /\ h.cmd \in {"slot_status", "abort"} => r.len = HeaderLen
    BY <1>2, <2>1 DEF Replied
  <2>3. /\ Shape(d.ep, d.tx, d.q, g) /\ d.ep # Empty
        /\ Flight(d.ep, d.tx, d.q) \subseteq F \cup {r}
    BY <1>1, <2>2, ShapeQueued DEF F
  <2>4. Class!flush_tx(d) = d
    BY <2>2, <2>3, FlushLemma DEF Shape
  <2>5. ~Live(w) => r.len <= PS
    BY <1>12, <2>2, Lengths DEF PS
  <2>6. Core(d.ep, d.tx, d.q, g, w, P, m2, h.seq, Empty)
    <3> DEFINE s == h.seq
    <3>1. Core(c.ep, c.tx, c.q, g, w, P, "arriving", s, Empty) /\ r.seq = s
      BY <1>1, <2>2
    <3>2. m2 = "zlp" => s \notin P /\ Live(w)
      BY <1>13
    <3> HIDE DEF s
    <3>3. Shape(c.ep, c.tx, c.q, g) /\ Queued(c.ep, c.tx, c.q, d.ep, d.tx, d.q, r)
      BY <1>1, <2>2
    <3>4. Core(d.ep, d.tx, d.q, g, w, P, m2, s, Empty)
      BY ONLY <1>16, <2>1, <2>5, <3>1, <3>2, <3>3, CoreArrived
    <3> QED BY <3>4 DEF s
  <2>7. Reading(Flight(d.ep, d.tx, d.q), w, m2, h.seq, Empty, R, rd, wy, ap)
    <3>1. Unserved(w, m2, h.seq, Empty) => Unserved(w, "arriving", h.seq, Empty)
      BY <1>7 DEF Unserved
    <3>2. w # Empty /\ r.seq = w.seq =>
            /\ Unserved(w, "arriving", h.seq, Empty)
            /\ w.cmd = "xfr_block" => ~(r.type = "data_block" /\ r.err = "none")
      BY <1>10, <2>2 DEF Unserved
    <3> QED BY <1>1, <2>3, <3>1, <3>2, ReadingReplied
  <2>8. d.rx.ready = FALSE /\ d.rx.len = 0
    BY <2>2 DEF Class!build
  <2>9. Transit(o2, 0, d.head, wy)
    BY <1>5, <2>2
  <2>10. Linked(d, o2, w, P, ap, "serve")
    BY <1>6, <1>9, <2>2 DEF Linked, h
  <2>11. LeadOf(o2, d).seq = h.seq /\ ServingOf(d) = Empty
    BY <1>6, <2>2 DEF LeadOf, ServingOf
  <2>12. Sound(d, o2, g, w, P, R, rd, wy, ap, "serve")
    BY <2>2, <2>3, <2>6, <2>7, <2>8, <2>9, <2>10, <2>11 DEF Sound, m2
  <2> QED BY <1>8, <2>4, <2>12 DEF o2
<1>18. CASE Held(a, d, h)
  <2> DEFINE f == Class!flush_tx(d)
  <2>1. /\ h.cmd = "xfr_block" /\ d \in Classes /\ d.ep = c.ep /\ d.tx = c.tx /\ d.q = c.q
        /\ d.rx = Class!build.rx /\ d.head.seq = h.seq
        /\ d.pending = h.payload /\ d.answering = h.seq /\ d.awaiting = FALSE
    BY <1>2, <1>18 DEF Held
  <2>2. f \in Classes /\ Same(d, f) /\ Flushed(c.ep, c.tx, c.q, f.ep, f.tx, f.q)
    BY <1>1, <2>1, FlushLemma DEF Settled
  <2> HIDE DEF f
  <2>3. /\ f.rx = Class!build.rx /\ f.head.seq = h.seq /\ f.awaiting = FALSE
        /\ f.pending = h.payload /\ f.answering = h.seq
    BY <2>1, <2>2 DEF Same
  <2>4. /\ w # Empty /\ h.seq = w.seq /\ h.seq \notin P /\ Live(w)
        /\ w.cmd = "xfr_block" /\ h.payload.ins = w.ins /\ h.payload.tag = w.tag
    BY <1>10, <1>11, <1>12, <2>1
  <2>5. /\ h.payload \in NamedApdus /\ h.payload # Empty
        /\ h.payload.ins = "send_remaining" => h.payload.le # NoLe
    BY <1>4, <2>1, EmptyIsNone DEF WellFormed
  <2>6. Shape(f.ep, f.tx, f.q, g) /\ Flight(f.ep, f.tx, f.q) = F
    BY <1>1, <2>2, ShapeFlushed DEF F
  <2>7. Core(f.ep, f.tx, f.q, g, w, P, m2, h.seq, h.seq)
    <3>1. Core(c.ep, c.tx, c.q, g, w, P, m2, h.seq, h.seq)
      BY <1>1, <1>16, <2>4, CoreHeld
    <3> QED BY <1>1, <2>2, <3>1, CoreFlushed
  <2>8. Reading(F, w, m2, h.seq, h.seq, R, rd, wy, ap)
    <3>1. Unserved(w, m2, h.seq, h.seq) => Unserved(w, "arriving", h.seq, Empty)
      BY <2>4 DEF Unserved
    <3> QED BY <1>1, <3>1, ReadingFewer
  <2>9. f.rx.ready = FALSE /\ f.rx.len = 0
    BY <2>3 DEF Class!build
  <2>10. Transit(o2, 0, f.head, wy)
    BY <1>5, <2>3
  <2>11. Linked(f, o2, w, P, ap, "serve")
    BY <1>4, <1>6, <1>9, <2>3, <2>4, <2>5 DEF Linked, h
  <2>12. LeadOf(o2, f).seq = h.seq /\ ServingOf(f) = h.seq
    BY <1>6, <2>3, <2>5 DEF LeadOf, ServingOf
  <2>13. Sound(f, o2, g, w, P, R, rd, wy, ap, "serve")
    BY <2>2, <2>3, <2>6, <2>7, <2>8, <2>9, <2>10, <2>11, <2>12 DEF Sound, m2
  <2> QED BY <1>8, <2>13 DEF o2, f
<1> QED BY <1>15, <1>17, <1>18

\* The stage of the loop matters only while the slot holds an APDU.
LEMMA Turn ==
    ASSUME NEW c, NEW o, NEW g, NEW w, NEW P, NEW R, NEW rd, NEW wy, NEW ap, NEW p, NEW p2,
           Sound(c, o, g, w, P, R, rd, wy, ap, p), c.pending = Empty
    PROVE  Sound(c, o, g, w, P, R, rd, wy, ap, p2)
BY DEF Sound, Linked

\* What send_response makes of the answer to an APDU the slot holds.
Responded(c, d, data, r) ==
    /\ d \in Classes /\ r \in Replies /\ r.seq = c.answering
    /\ r.type = "data_block" /\ r.err = "none" /\ r.data = data
    /\ Queued(c.ep, c.tx, c.q, d.ep, d.tx, d.q, r)
    /\ d.rx = c.rx /\ d.head = c.head /\ d.pending = Empty /\ d.awaiting = FALSE

LEMMA ResponseLemma ==
    ASSUME NEW c \in Classes, Settled(c), c.answering \in Nat, NEW data \in Chunks,
           NEW n \in Nat, n <= Class!MaxPayloadLen
    PROVE  \E r \in Replies :
             Responded(c, Class!send_response(Class!take_pending_request(c), data, n), data, r)
<1> DEFINE k == Class!take_pending_request(c)
           k2 == [k EXCEPT !.awaiting = FALSE, !.answering = Empty]
           r == Class!Reply(k, "data_block", k.answering, "none", data, n)
           d == Class!queue_response(k2, r)
<1>1. /\ k \in Classes /\ k.awaiting = TRUE /\ k.answering = c.answering
      /\ k.rx = c.rx /\ k.head = c.head /\ k.tx = c.tx /\ k.q = c.q /\ k.ep = c.ep
      /\ k.pending = Empty
  BY DEF Class!take_pending_request, Classes
<1> HIDE DEF k
<1>2. /\ k2 \in Classes /\ k2.awaiting = FALSE /\ k2.pending = Empty
      /\ k2.rx = c.rx /\ k2.head = c.head /\ k2.tx = c.tx /\ k2.q = c.q /\ k2.ep = c.ep
  <2>1. k2 \in Classes
    <3>1. ASSUME NEW b \in BOOLEAN, NEW v \in Nat \cup {Empty}
          PROVE  [k EXCEPT !.awaiting = b, !.answering = v] \in Classes
      <4>1. k \in Classes
        BY <1>1
      <4> QED BY ONLY <3>1, <4>1 DEF Classes
    <3>2. FALSE \in BOOLEAN /\ Empty \in Nat \cup {Empty}
      OBVIOUS
    <3> HIDE DEF k2
    <3> QED BY <3>1, <3>2, Zenon DEF k2
  <2>2. /\ k2.awaiting = FALSE /\ k2.pending = k.pending /\ k2.rx = k.rx /\ k2.head = k.head
        /\ k2.tx = k.tx /\ k2.q = k.q /\ k2.ep = k.ep
    BY <1>1 DEF Classes
  <2> HIDE DEF k2
  <2> QED BY <1>1, <2>1, <2>2
<1>3. Class!send_response(k, data, n) = d
  <2>1. ~(n > Class!MaxPayloadLen)
    BY Lengths
  <2> QED BY <1>1, <2>1 DEF Class!send_response
<1> HIDE DEF k2
<1>4. /\ r \in Replies /\ r.type = "data_block" /\ r.seq = c.answering /\ r.err = "none"
      /\ r.data = data
  <2>1. HeaderLen + n <= MaxMsgLen
    BY Lengths
  <2>2. ASSUME NEW dt \in Chunks \cup AllParams \cup {"atr", Empty}, NEW sq \in Nat
        PROVE  LET r2 == Class!Reply(k, "data_block", sq, "none", dt, n)
               IN /\ r2 \in Replies /\ r2.type = "data_block" /\ r2.seq = sq
                  /\ r2.err = "none" /\ r2.data = dt
    BY <1>1, <2>1, ReplyType
  <2> QED BY <1>1, <2>2
<1> HIDE DEF r
<1>5. d \in Classes /\ Same(k2, d) /\ Queued(c.ep, c.tx, c.q, d.ep, d.tx, d.q, r)
  BY <1>2, <1>4, QueueLemma DEF Settled
<1> HIDE DEF d
<1>6. Responded(c, d, data, r)
  BY <1>2, <1>4, <1>5 DEF Responded, Same
<1> QED BY <1>3, <1>4, <1>6 DEF k

\* The loop serves the APDU the slot holds.
LEMMA ServePending ==
    ASSUME NEW c, NEW o, NEW g, NEW w, NEW P, NEW R, NEW rd, NEW wy, NEW ap,
           Sound(c, o, g, w, P, R, rd, wy, ap, "serve"), c.pending # Empty,
           NEW accepts \in BOOLEAN,
           NEW n \in IF c.pending.ins = "select" THEN {SelectLen} ELSE BodyLens
    PROVE  LET S == Router!process(R, c.pending, c.pending.tag, accepts, n)
           IN Sound(Class!send_response(Class!take_pending_request(c), S.out,
                                        Router!Length(S.out) + SwLen),
                    o, g, w, P, S.r, rd, wy, ap, "hid")
<1> DEFINE apdu == c.pending
           x == c.answering
           S == Router!process(R, apdu, apdu.tag, accepts, n)
           data == S.out
           R2 == S.r
           N == Router!Length(data) + SwLen
           m == ModeOf(o)
           s == LeadOf(o, c).seq
           F == Flight(c.ep, c.tx, c.q)
           d == Class!send_response(Class!take_pending_request(c), data, N)
<1>1. /\ c \in Classes /\ c.rx.ready = FALSE /\ c.awaiting = FALSE
      /\ Shape(c.ep, c.tx, c.q, g) /\ Settled(c)
  BY DEF Sound, Shape, Settled
<1>2. /\ Core(c.ep, c.tx, c.q, g, w, P, m, s, x) /\ Transit(o, c.rx.len, c.head, wy)
      /\ Reading(F, w, m, s, x, R, rd, wy, ap)
  BY DEF Sound, ServingOf
<1>3. /\ x \in Nat /\ w # Empty /\ apdu \in NamedApdus
      /\ apdu.ins = "send_remaining" => apdu.le # NoLe
      /\ Live(w) => w.cmd = "xfr_block" /\ apdu.ins = w.ins /\ apdu.tag = w.tag
      /\ ~Live(w) /\ apdu.ins = "select" => ap = Empty
  BY <1>1 DEF Sound, Linked, Classes
<1>4. Served(R, apdu, R2, data)
  <2>1. R \in Routers /\ Rested(R.chain) /\ Rested(R.mirror)
    BY <1>2 DEF Reading
  <2>2. n \in IF apdu.ins = "select" THEN {SelectLen} ELSE BodyLens
    OBVIOUS
  <2> HIDE DEF apdu
  <2> QED BY <1>3, <2>1, <2>2, ProcessLemma
<1> HIDE DEF S
<1>5. data \in Chunks /\ N \in Nat /\ N <= Class!MaxPayloadLen
  BY <1>4, Lengths DEF Served, Router!Length
<1> HIDE DEF data, N, R2
<1>6. PICK r \in Replies : Responded(c, d, data, r)
  BY <1>1, <1>3, <1>5, ResponseLemma
<1> HIDE DEF d, x, m, s, F, apdu
<1>7. /\ d \in Classes /\ r.seq = x /\ r.type = "data_block" /\ r.err = "none"
      /\ r.data = data /\ Queued(c.ep, c.tx, c.q, d.ep, d.tx, d.q, r)
      /\ d.rx = c.rx /\ d.head = c.head /\ d.pending = Empty /\ d.awaiting = FALSE
  BY <1>6 DEF Responded, x
<1>8. /\ Shape(d.ep, d.tx, d.q, g)
      /\ Flight(d.ep, d.tx, d.q) \subseteq F \cup {r}
  BY <1>1, <1>7, ShapeQueued DEF F
<1>9. x # Empty
  BY <1>3, EmptyIsNone
<1>10. Core(d.ep, d.tx, d.q, g, w, P, m, s, Empty)
  BY <1>1, <1>2, <1>7, <1>9, CoreServed
<1>11. /\ w \in Wants
       /\ Live(w) => x = w.seq /\ (m = "arriving" => s # w.seq)
       /\ ~Live(w) => x # w.seq
       /\ ~Flies(c.ep, c.tx, c.q, x)
  BY <1>2, <1>3, <1>9 DEF Core
<1>12. \A y \in F : y.seq # x
  BY <1>11 DEF F, Flight, Flies
<1>13. Reading(Flight(d.ep, d.tx, d.q), w, m, s, Empty, R2, rd, wy, ap)
  <2> DEFINE F2 == Flight(d.ep, d.tx, d.q)
  <2>0. F2 \subseteq F \cup {r}
    BY <1>8
  <2> HIDE DEF F2
  <2>1. CASE Live(w)
    BY <1>2, <1>3, <1>4, <1>7, <1>11, <1>12, <2>0, <2>1, ReadingServed DEF F2
  <2>2. CASE ~Live(w)
    <3>1. w.cmd = "abort"
      BY <2>2 DEF Live
    <3> QED
      BY <1>2, <1>3, <1>4, <1>7, <1>11, <2>0, <2>2, <3>1, ReadingGivenUp DEF F2
  <2> QED BY <2>1, <2>2
<1>14. Linked(d, o, w, P, ap, "hid")
  <2>1. Linked(c, o, w, P, ap, "serve")
    BY DEF Sound
  <2> QED BY <1>7, <2>1 DEF Linked
<1>15. LeadOf(o, d).seq = s /\ ServingOf(d) = Empty
  BY <1>7 DEF LeadOf, ServingOf, s
<1>16. Sound(d, o, g, w, P, R2, rd, wy, ap, "hid")
  BY <1>1, <1>2, <1>7, <1>8, <1>10, <1>13, <1>14, <1>15 DEF Sound, m
<1> QED BY <1>16 DEF d, R2, data, S, N, apdu

-----------------------------------------------------------------------------
(* The numbers the host takes.                                               *)

LEMMA Pigeon ==
    ASSUME NEW a1, NEW a2, NEW a3, NEW a4, NEW a5, NEW a6
    PROVE  \E n \in 0..7 : n \notin {a1, a2, a3, a4, a5, a6}
<1>1. {0, 1, 2, 3, 4, 5, 6, 7} \subseteq 0..7
  OBVIOUS
<1> QED BY <1>1, SMTT(60)

LEMMA LeastFree ==
    ASSUME NEW max \in Nat, max >= 7, NEW U, NEW a1, NEW a2, NEW a3, NEW a4, NEW a5, NEW a6,
           U \subseteq {a1, a2, a3, a4, a5, a6}
    PROVE  Least((0..max) \ U) \in (0..max) \ U
<1> DEFINE T == (0..max) \ U
<1>1. PICK n \in 0..7 : n \notin {a1, a2, a3, a4, a5, a6}
  BY Pigeon
<1>2. n \in T /\ T \subseteq Nat
  BY <1>1
<1> HIDE DEF T
<1>3. \E x \in T : \A y \in T : x <= y
  BY <1>2, LeastNat
<1> QED BY <1>3 DEF Least, T

\* got is part of what drains.
LEMMA SameFlight ==
    ASSUME Shape(class.ep, class.tx, class.q, got)
    PROVE  InFlight = Flight(class.ep, class.tx, class.q)
<1> DEFINE e == class.ep
           t == class.tx
           q == class.q
<1>1. Shape(e, t, q, got)
  OBVIOUS
<1> HIDE DEF e, t, q
<1>2. got # Empty => (e # Empty /\ got.reply = e.reply) \/ (t # Empty /\ got.reply = t.reply)
  <2> SUFFICES ASSUME got # Empty, t = [reply |-> got.reply, sent |-> got.n], e = Empty
               PROVE  t # Empty /\ got.reply = t.reply
    BY <1>1 DEF Shape
  <2>1. got \in Partials
    BY <1>1 DEF Shape
  <2>2. t \in Draining
    BY <2>1 DEF Partials, Draining
  <2> QED BY <2>2, EmptyIsNone
<1>3. {r.reply : r \in {got, e, t} \ {Empty}} = {p.reply : p \in {e, t} \ {Empty}}
  BY <1>2
<1> QED BY <1>3 DEF InFlight, Flight, e, t, q

\* The bSeq of the next command is one nothing else has.
LEMMA FreshSeq ==
    ASSUME Shape(class.ep, class.tx, class.q, got), NEW P, probes = P,
           \A a, b \in P : a = b
    PROVE  /\ seq \in 0..MaxSeq /\ seq \in Nat /\ seq \notin P /\ seq # class.head.seq
           /\ ~Flies(class.ep, class.tx, class.q, seq)
           /\ want # Empty => want.seq # seq
<1> DEFINE e == class.ep
           t == class.tx
           q == class.q
           h == class.head.seq
           W == IF want = Empty THEN {} ELSE {want.seq}
           U == {r.seq : r \in InFlight} \cup P \cup {h} \cup W
           a1 == e.reply.seq
           a2 == t.reply.seq
           a3 == q.seq
           a4 == CHOOSE a \in P : TRUE
           a5 == want.seq
<1>1. InFlight = Flight(e, t, q)
  BY SameFlight
<1>2. seq = Least((0..MaxSeq) \ U)
  BY DEF seq
<1> HIDE DEF e, t, q, h
<1>3. {r.seq : r \in InFlight} \subseteq {a1, a2, a3}
  BY <1>1 DEF Flight
<1>4. P \subseteq {a4}
  OBVIOUS
<1>5. W \subseteq {a5}
  OBVIOUS
<1> HIDE DEF a1, a2, a3, a4, a5, W
<1>6. U \subseteq {a1, a2, a3, a4, a5, h}
  BY <1>3, <1>4, <1>5
<1>7. MaxSeq \in Nat /\ MaxSeq >= 7
  BY ConstantsOK
<1> HIDE DEF U
<1>8. Least((0..MaxSeq) \ U) \in (0..MaxSeq) \ U
  BY <1>6, <1>7, LeastFree
<1>9. seq \in 0..MaxSeq /\ seq \notin U
  BY <1>2, <1>8
<1>10. ~Flies(e, t, q, seq)
  <2>1. \A r \in InFlight : r.seq # seq
    BY <1>9 DEF U
  <2> QED BY <1>1, <2>1 DEF Flies, Flight
<1> QED BY <1>7, <1>9, <1>10 DEF U, W, e, t, q, h

\* And its body has a name.
LEMMA FreshTag ==
    ASSUME Shape(class.ep, class.tx, class.q, got)
    PROVE  tag \in Nat
<1> DEFINE e == class.ep
           t == class.tx
           q == class.q
           D == {d \in {r.data : r \in {r \in InFlight : r.type = "data_block"}} : d # "atr"}
           V == Fields({router.mirror, router.chain, read})
           U == Fields(D) \cup V
           a1 == e.reply.data.tag
           a2 == t.reply.data.tag
           a3 == q.data.tag
           a4 == router.mirror.tag
           a5 == router.chain.tag
           a6 == read.tag
<1>1. InFlight = Flight(e, t, q)
  BY SameFlight
<1>2. tag = Least((0..MaxTag) \ U)
  BY DEF tag
<1> HIDE DEF e, t, q
<1>3. Fields(D) \subseteq {a1, a2, a3}
  <2>1. D \subseteq {e.reply.data, t.reply.data, q.data}
    BY <1>1 DEF Flight
  <2> HIDE DEF D
  <2> QED BY <2>1 DEF Fields
<1>4. V \subseteq {a4, a5, a6}
  BY DEF Fields
<1> HIDE DEF a1, a2, a3, a4, a5, a6, D, V
<1>5. U \subseteq {a1, a2, a3, a4, a5, a6}
  BY <1>3, <1>4
<1>6. MaxTag \in Nat /\ MaxTag >= 7
  BY ConstantsOK
<1> HIDE DEF U
<1>7. Least((0..MaxTag) \ U) \in (0..MaxTag) \ U
  BY <1>5, <1>6, LeastFree
<1> QED BY <1>2, <1>6, <1>7

-----------------------------------------------------------------------------
(* The host's steps.                                                         *)

LEMMA TransitSent ==
    ASSUME NEW h \in Headers, WellFormed(h), NEW z \in BOOLEAN, NEW wy, NEW hd,
           wy # "control" => Extent(h) < PS
    PROVE  LET o == Packets(h, Extent(h), z)
           IN o # << >> /\ o[1].head = h /\ ModeOf(o) = "arriving" /\ Transit(o, 0, hd, wy)
<1> DEFINE L == Extent(h)
           o == Packets(h, L, z)
<1>1. L \in Nat \ {0}
  BY ExtentLemma, Lengths
<1> HIDE DEF L
<1>2. /\ Uniform(o, h) /\ Bytes(o) = L
      /\ o[Len(o)].n = PS \/ o[Len(o)].n = L % PS
      /\ L < PS => o[Len(o)].n # 0
  BY <1>1, PacketsLemma
<1> HIDE DEF o
<1>3. o # << >> /\ o[1].head = h /\ Uniform(o, o[1].head)
  <2>1. o[1].head = h
    BY <1>2, BytesLemma
  <2> QED BY <1>2, <2>1 DEF Uniform
<1>4. ModeOf(o) = "arriving"
  BY <1>1, <1>2, <1>3 DEF ModeOf
<1>5. Transit(o, 0, hd, wy)
  <2>1. 0 \in 0..MaxMsgLen /\ 0 + L = L /\ ~(0 > 0) /\ L > 0 /\ L # 0
    BY <1>1, Lengths
  <2>2. wy # "control" => o[Len(o)].n # 0
    BY <1>2 DEF L
  <2> QED BY <1>2, <1>3, <2>1, <2>2 DEF Transit, L
<1> QED BY <1>3, <1>4, <1>5 DEF o, L

\* The command that leaves is the one the host waits for, or a probe.
Sent(h, w, P) ==
    /\ w # Empty /\ h.seq = w.seq =>
         /\ h.cmd = w.cmd
         /\ w.cmd = "xfr_block" => h.payload.ins = w.ins /\ h.payload.tag = w.tag
    /\ h.seq \in P => h.cmd = "slot_status"

LEMMA SoundSent ==
    ASSUME NEW c, NEW g, NEW w, NEW P, NEW R, NEW rd, NEW wy, NEW ap, NEW p,
           Sound(c, << >>, g, w, P, R, rd, wy, ap, p),
           NEW h \in Headers, WellFormed(h), NEW z \in BOOLEAN,
           wy # "control" => Extent(h) < PS,
           NEW w2, NEW P2, NEW rd2, NEW ap2, Sent(h, w2, P2),
           Core(c.ep, c.tx, c.q, g, w2, P2, "arriving", h.seq, ServingOf(c)),
           Linked(c, << >>, w2, P2, ap2, p),
           Reading(Flight(c.ep, c.tx, c.q), w2, "arriving", h.seq, ServingOf(c),
                   R, rd2, wy, ap2)
    PROVE  Sound(c, Packets(h, Extent(h), z), g, w2, P2, R, rd2, wy, ap2, p)
<1> DEFINE o == Packets(h, Extent(h), z)
<1>1. /\ c \in Classes /\ c.rx.ready = FALSE /\ c.awaiting = FALSE
      /\ Shape(c.ep, c.tx, c.q, g) /\ c.rx.len = 0
  BY DEF Sound, Transit
<1>2. o # << >> /\ o[1].head = h /\ ModeOf(o) = "arriving" /\ Transit(o, 0, c.head, wy)
  BY TransitSent
<1> HIDE DEF o
<1>3. Linked(c, o, w2, P2, ap2, p)
  BY <1>2 DEF Linked, Sent
<1>4. LeadOf(o, c) = h
  BY <1>2 DEF LeadOf
<1>5. Sound(c, o, g, w2, P2, R, rd2, wy, ap2, p)
  BY <1>1, <1>2, <1>3, <1>4 DEF Sound
<1> QED BY <1>5 DEF o

\* The host waits for nothing: no APDU is held.
LEMMA NoneHeld ==
    ASSUME NEW c, NEW g, NEW P, NEW R, NEW rd, NEW wy, NEW ap, NEW p,
           Sound(c, << >>, g, Empty, P, R, rd, wy, ap, p)
    PROVE  /\ c.pending = Empty /\ ServingOf(c) = Empty
           /\ Core(c.ep, c.tx, c.q, g, Empty, P, "none", c.head.seq, Empty)
           /\ Reading(Flight(c.ep, c.tx, c.q), Empty, "none", c.head.seq, Empty, R, rd, wy, ap)
<1>1. c.pending = Empty
  BY DEF Sound, Linked
<1>2. ServingOf(c) = Empty
  BY <1>1 DEF ServingOf
<1> QED BY <1>1, <1>2 DEF Sound, ModeOf, LeadOf

LEMMA ReadingSent ==
    ASSUME NEW F, NEW s, NEW R, NEW rd, NEW wy, NEW ap, NEW w2 \in Wants, NEW rd2,
           Reading(F, Empty, "none", s, Empty, R, rd, wy, ap), \A r \in F : r.seq # w2.seq,
           \/ w2.cmd # "xfr_block" /\ w2.ins = Empty /\ rd2 = Empty
           \/ /\ w2.cmd = "xfr_block" /\ w2.ins \in {"malformed", "command", "select"}
              /\ w2.from = 0 /\ rd2 = Empty /\ (wy = "control" => w2.ins = "malformed")
           \/ /\ w2.cmd = "xfr_block" /\ rd # Empty /\ rd2 = rd
              /\ w2.ins = IF ap = "oath" THEN wy ELSE "get_response"
              /\ w2.tag = rd.tag /\ w2.from = rd.n
    PROVE  Reading(F, w2, "arriving", w2.seq, Empty, R, rd2, wy, ap)
<1>1. /\ R \in Routers /\ Rested(R.chain) /\ Rested(R.mirror)
      /\ rd \in [tag : Nat, n : Nat] \cup {Empty} /\ ap \in AppletNames \cup {Empty}
      /\ wy \in Ways
      /\ wy = "control" => ap = Empty /\ rd = Empty
      /\ rd # Empty => Follows(R, wy, ap, rd.tag, rd.n)
      /\ ap # Empty => R.selected = ap
  BY DEF Reading
<1>2. w2 # Empty /\ Empty \notin Instructions /\ Ways \subseteq {"control", "get_response", "send_remaining"}
  BY EmptyIsNone, ConstantsOK
<1>3. CASE w2.cmd # "xfr_block" /\ w2.ins = Empty /\ rd2 = Empty
  BY <1>1, <1>2, <1>3 DEF Reading
<1>4. CASE /\ w2.cmd = "xfr_block" /\ w2.ins \in {"malformed", "command", "select"}
           /\ w2.from = 0 /\ rd2 = Empty /\ (wy = "control" => w2.ins = "malformed")
  <2>1. w2.ins # Empty
    BY <1>2, <1>4 DEF Instructions
  <2> QED BY <1>1, <1>2, <1>4, <2>1 DEF Reading
<1>5. CASE /\ w2.cmd = "xfr_block" /\ rd # Empty /\ rd2 = rd
           /\ w2.ins = IF ap = "oath" THEN wy ELSE "get_response"
           /\ w2.tag = rd.tag /\ w2.from = rd.n
  <2>1. w2.ins \in {"get_response", "send_remaining"}
    BY <1>1, <1>2, <1>5
  <2>2. w2.ins # Empty
    BY <1>2, <2>1 DEF Instructions
  <2> QED BY <1>1, <1>2, <1>5, <2>1, <2>2 DEF Reading
<1> QED BY <1>3, <1>4, <1>5

-----------------------------------------------------------------------------
(* The invariant, and the steps that keep it.                                *)

Typed ==
    /\ pc \in {"poll", "serve", "hid"}
    /\ hid \in [left : 0..MaxHidPackets, tries : 0..MaxTries - 1, busy : BOOLEAN]
    /\ probes \subseteq 0..MaxSeq /\ Cardinality(probes) <= MaxProbes
CardInv ==
    Typed /\ Sound(class, out, got, want, probes, router, read, way, applet, pc)

\* A command other than a probe or ABORT.
LEMMA StepSent ==
    ASSUME CardInv, want = Empty, NEW h \in Headers, WellFormed(h), h.seq = seq,
           Transfer(h, Extent(h)), way # "control" => Extent(h) < PS,
           NEW w2 \in Wants, want' = w2, w2.seq = seq, w2.cmd = h.cmd, h.cmd # "abort",
           h.cmd = "xfr_block" => h.payload.ins = w2.ins /\ h.payload.tag = w2.tag,
           \/ w2.cmd # "xfr_block" /\ w2.ins = Empty /\ read' = Empty
           \/ /\ w2.cmd = "xfr_block" /\ w2.ins \in {"malformed", "command", "select"}
              /\ w2.from = 0 /\ read' = Empty /\ (way = "control" => w2.ins = "malformed")
           \/ /\ w2.cmd = "xfr_block" /\ read # Empty /\ read' = read
              /\ w2.ins = IF applet = "oath" THEN way ELSE "get_response"
              /\ w2.tag = read.tag /\ w2.from = read.n,
           UNCHANGED <<device, probes, got, way, applet>>
    PROVE  CardInv'
<1> DEFINE s == seq
           F == Flight(class.ep, class.tx, class.q)
<1>1. Sound(class, << >>, got, Empty, probes, router, read, way, applet, pc)
  BY DEF CardInv, Transfer
<1>2. /\ class.pending = Empty /\ ServingOf(class) = Empty
      /\ Core(class.ep, class.tx, class.q, got, Empty, probes, "none", class.head.seq, Empty)
      /\ Reading(F, Empty, "none", class.head.seq, Empty, router, read, way, applet)
  BY <1>1, NoneHeld
<1>3. Shape(class.ep, class.tx, class.q, got) /\ \A a, b \in probes : a = b
  BY <1>1, <1>2 DEF Sound, Core
<1>4. s \in Nat /\ s \notin probes /\ ~Flies(class.ep, class.tx, class.q, s)
  BY <1>3, FreshSeq
<1>5. h.seq = s /\ w2.seq = s
  OBVIOUS
<1> HIDE DEF s
<1>6. Core(class.ep, class.tx, class.q, got, w2, probes, "arriving", s, Empty)
  BY <1>2, <1>4, <1>5, CoreSent
<1>7. \A r \in F : r.seq # w2.seq
  BY <1>4, <1>5 DEF Flight, Flies
<1>8. Reading(F, w2, "arriving", w2.seq, Empty, router, read', way, applet)
  BY <1>2, <1>7, ReadingSent
<1>9. Linked(class, << >>, w2, probes, applet, pc)
  BY <1>2 DEF Linked
<1>10. Sent(h, w2, probes)
  BY <1>4, <1>5 DEF Sent
<1>11. PICK z \in BOOLEAN : out' = Packets(h, Extent(h), z)
  BY ConstantsOK DEF Transfer
<1>12. Sound(class, out', got, w2, probes, router, read', way, applet, pc)
  BY <1>1, <1>2, <1>5, <1>6, <1>8, <1>9, <1>10, <1>11, SoundSent
<1>13. /\ class' = class /\ router' = router /\ pc' = pc /\ hid' = hid /\ probes' = probes
       /\ got' = got /\ way' = way /\ applet' = applet
  BY DEF device
<1> QED BY <1>12, <1>13 DEF CardInv, Typed

\* What the host writes in a header.
LEMMA HeaderLemma ==
    ASSUME NEW cmd \in Class!Commands, NEW dw \in Nat, NEW level \in BOOLEAN,
           NEW payload \in NamedApdus \cup AllParams \cup {Empty}, seq \in Nat
    PROVE  LET h == Header(cmd, dw, level, payload)
           IN /\ h \in Headers /\ h.cmd = cmd /\ h.seq = seq /\ h.dw = dw
              /\ h.payload = payload
BY DEF Header, Headers

\* The least the host's numbers are.
LEMMA Numbers ==
    ASSUME CardInv
    PROVE  seq \in Nat /\ seq \in 0..MaxSeq /\ tag \in Nat
<1>1. Shape(class.ep, class.tx, class.q, got) /\ \A a, b \in probes : a = b
  BY DEF CardInv, Sound, Core
<1> QED BY <1>1, FreshSeq, FreshTag

LEMMA StepCommand ==
    ASSUME CardInv, Command
    PROVE  CardInv'
<1> DEFINE w2(cmd) == [cmd |-> cmd, seq |-> seq, ins |-> Empty, tag |-> 0, from |-> 0]
<1>1. /\ way = "control" /\ want = Empty /\ read' = Empty
      /\ UNCHANGED <<device, probes, got, way, applet>>
  BY DEF Command
<1>2. seq \in Nat
  BY Numbers
<1>3. ASSUME NEW cmd \in Class!Commands, cmd \notin {"xfr_block", "abort"}, Wait(cmd),
             NEW dw \in Nat, NEW level \in BOOLEAN, NEW payload \in AllParams \cup {Empty},
             WellFormed(Header(cmd, dw, level, payload)),
             Transfer(Header(cmd, dw, level, payload),
                      Extent(Header(cmd, dw, level, payload)))
      PROVE  CardInv'
  <2> DEFINE h == Header(cmd, dw, level, payload)
             u == w2(cmd)
  <2>1. h \in Headers /\ h.cmd = cmd /\ h.seq = seq
    BY <1>2, <1>3, HeaderLemma
  <2>2. WellFormed(h) /\ Transfer(h, Extent(h))
    BY <1>3
  <2>3. u \in Wants /\ u.seq = seq /\ u.cmd = cmd /\ u.ins = Empty /\ want' = u
    BY <1>2, <1>3 DEF Wants, Wait
  <2> HIDE DEF h, u
  <2>4. h.cmd # "xfr_block" /\ h.cmd # "abort" /\ u.cmd = h.cmd
    BY <1>3, <2>1, <2>3
  <2> QED BY <1>1, <2>1, <2>2, <2>3, <2>4, StepSent
<1>4. /\ Class!MaxPayloadLen \in Nat \ {0, 1} /\ HeaderLen \in Nat \ {0} /\ ParamLen \in Nat \ {0}
      /\ ParamLen + 1 <= Class!MaxPayloadLen /\ OtherParams \subseteq AllParams
  BY Lengths, ConstantsOK DEF AllParams
<1>5. CASE \E cmd \in {"power_on", "power_off", "get_params", "unknown"} :
             Wait(cmd) /\ Transfer(Header(cmd, 0, TRUE, Empty), HeaderLen)
  <2>1. PICK cmd \in {"power_on", "power_off", "get_params", "unknown"} :
             Wait(cmd) /\ Transfer(Header(cmd, 0, TRUE, Empty), HeaderLen)
    BY <1>5
  <2> DEFINE h == Header(cmd, 0, TRUE, Empty)
  <2>2. cmd \in Class!Commands /\ cmd \notin {"xfr_block", "abort"}
    BY DEF Class!Commands
  <2>3. h.cmd = cmd /\ h.dw = 0
    BY DEF Header
  <2> HIDE DEF h
  <2>4. WellFormed(h) /\ Extent(h) = HeaderLen
    BY <1>4, <2>3 DEF WellFormed, Extent
  <2> QED BY <1>3, <2>1, <2>2, <2>4 DEF h
<1>6. CASE \E p \in OtherParams, known \in BOOLEAN, n \in {ParamLen, ParamLen + 1} :
             Wait("set_params") /\ Transfer(Header("set_params", n, known, p), HeaderLen + n)
  <2>1. PICK p \in OtherParams, known \in BOOLEAN, n \in {ParamLen, ParamLen + 1} :
             Wait("set_params") /\ Transfer(Header("set_params", n, known, p), HeaderLen + n)
    BY <1>6
  <2> DEFINE h == Header("set_params", n, known, p)
  <2>2. "set_params" \in Class!Commands
    BY DEF Class!Commands
  <2>3. h.cmd = "set_params" /\ h.dw = n /\ h.payload = p
    BY DEF Header
  <2>4. n \in 1..Class!MaxPayloadLen /\ n \in Nat /\ p \in AllParams
    BY <1>4
  <2> HIDE DEF h
  <2>5. WellFormed(h) /\ Extent(h) = HeaderLen + n
    BY <2>3, <2>4 DEF WellFormed, Extent
  <2> QED BY <1>3, <2>1, <2>2, <2>4, <2>5 DEF h
<1>7. CASE \E dw \in {1, Class!MaxPayloadLen + 1} :
             /\ Wait("power_on")
             /\ Transfer(Header("power_on", dw, TRUE, Empty),
                         IF dw = 1 THEN HeaderLen ELSE PacketSize)
  <2>1. PICK dw \in {1, Class!MaxPayloadLen + 1} :
             /\ Wait("power_on")
             /\ Transfer(Header("power_on", dw, TRUE, Empty),
                         IF dw = 1 THEN HeaderLen ELSE PacketSize)
    BY <1>7
  <2> DEFINE h == Header("power_on", dw, TRUE, Empty)
  <2>2. "power_on" \in Class!Commands
    BY DEF Class!Commands
  <2>3. h.cmd = "power_on" /\ h.dw = dw
    BY DEF Header
  <2>4. dw \in Nat
    BY <1>4
  <2> HIDE DEF h
  <2>5. WellFormed(h) /\ Extent(h) = IF dw = 1 THEN HeaderLen ELSE PacketSize
    BY <1>4, <2>3 DEF WellFormed, Extent, PS
  <2> QED BY <1>3, <2>1, <2>2, <2>4, <2>5 DEF h
<1>8. CASE /\ Wait("power_on")
           /\ Transfer(Header("power_on", Class!MaxPayloadLen, TRUE, Empty),
                       PacketSize * (MaxMsgLen \div PacketSize + 1))
  <2> DEFINE h == Header("power_on", Class!MaxPayloadLen, TRUE, Empty)
  <2>2. "power_on" \in Class!Commands
    BY DEF Class!Commands
  <2>3. h.cmd = "power_on" /\ h.dw = Class!MaxPayloadLen
    BY DEF Header
  <2> HIDE DEF h
  <2>5. WellFormed(h) /\ Extent(h) = PacketSize * (MaxMsgLen \div PacketSize + 1)
    BY <1>4, <2>3 DEF WellFormed, Extent, PS
  <2> QED BY <1>3, <1>4, <1>8, <2>2, <2>5 DEF h
<1> QED BY <1>5, <1>6, <1>7, <1>8 DEF Command

\* An APDU of n bytes.
LEMMA StepApdu ==
    ASSUME CardInv, want = Empty, NEW apdu \in NamedApdus, NEW n \in 1..Class!MaxPayloadLen,
           NEW level \in BOOLEAN, NEW from \in Nat,
           way # "control" => n = 1, apdu.ins = "send_remaining" => apdu.le # NoLe,
           Transfer(Header("xfr_block", n, level, apdu), HeaderLen + n),
           want' = [cmd |-> "xfr_block", seq |-> seq, ins |-> apdu.ins, tag |-> apdu.tag,
                    from |-> from],
           \/ /\ apdu.ins \in {"malformed", "command", "select"} /\ from = 0 /\ read' = Empty
              /\ way = "control" => apdu.ins = "malformed"
           \/ /\ read # Empty /\ read' = read
              /\ apdu.ins = IF applet = "oath" THEN way ELSE "get_response"
              /\ apdu.tag = read.tag /\ from = read.n,
           UNCHANGED <<device, probes, got, way, applet>>
    PROVE  CardInv'
<1> DEFINE h == Header("xfr_block", n, level, apdu)
           u == [cmd |-> "xfr_block", seq |-> seq, ins |-> apdu.ins, tag |-> apdu.tag,
                 from |-> from]
<1>1. seq \in Nat
  BY Numbers
<1>2. n \in Nat /\ n >= 1 /\ n <= Class!MaxPayloadLen
  BY Lengths
<1>3. /\ h \in Headers /\ h.cmd = "xfr_block" /\ h.seq = seq /\ h.dw = n /\ h.payload = apdu
  <2>1. "xfr_block" \in Class!Commands
    BY DEF Class!Commands
  <2> QED BY <1>1, <1>2, <2>1, HeaderLemma
<1>4. /\ u \in Wants /\ u.seq = seq /\ u.cmd = "xfr_block" /\ u.ins = apdu.ins
      /\ u.tag = apdu.tag /\ u.from = from
  BY <1>1 DEF Wants, NamedApdus, Class!Commands
<1>5. Transfer(h, HeaderLen + n) /\ want' = u
  OBVIOUS
<1> HIDE DEF h, u
<1>6. WellFormed(h) /\ Extent(h) = HeaderLen + n
  BY <1>3 DEF WellFormed, Extent
<1>7. way # "control" => Extent(h) < PS
  BY <1>6, Lengths DEF PS
<1> QED BY <1>3, <1>4, <1>5, <1>6, <1>7, StepSent

LEMMA StepAsk ==
    ASSUME CardInv, Ask
    PROVE  CardInv'
<1>1. PICK apdu \in Apdus, n \in ApduLens, level \in BOOLEAN :
         /\ way # "control" => level /\ n = 1
         /\ Transfer(Header("xfr_block", n, level, Name(apdu, tag)), HeaderLen + n)
         /\ want' = [cmd |-> "xfr_block", seq |-> seq, ins |-> apdu.ins, tag |-> tag, from |-> 0]
  BY DEF Ask
<1> DEFINE a == Name(apdu, tag)
<1>2. want = Empty /\ read' = Empty /\ UNCHANGED <<device, probes, got, way, applet>>
  BY DEF Ask
<1>3. tag \in Nat
  BY Numbers
<1>4. /\ apdu.ins \in {"malformed", "command", "select"} /\ apdu.le \in Les \cup {NoLe}
      /\ apdu.aid \in Aids \cup {<< >>} /\ (way = "control" => apdu.ins = "malformed")
  BY DEF Apdus
<1>5. a \in NamedApdus /\ a.ins = apdu.ins /\ a.tag = tag
  BY <1>3, <1>4 DEF Name, NamedApdus, Instructions
<1>6. n \in 1..Class!MaxPayloadLen
  BY ConstantsOK
<1>7. /\ Transfer(Header("xfr_block", n, level, a), HeaderLen + n)
      /\ want' = [cmd |-> "xfr_block", seq |-> seq, ins |-> a.ins, tag |-> a.tag, from |-> 0]
  BY <1>1, <1>5
<1> HIDE DEF a
<1>8. way # "control" => n = 1
  BY <1>1
<1>9. a.ins # "send_remaining" /\ a.ins \in {"malformed", "command", "select"}
  BY <1>4, <1>5
<1>10. way = "control" => a.ins = "malformed"
  BY <1>4, <1>5
<1> QED BY <1>2, <1>5, <1>6, <1>7, <1>8, <1>9, <1>10, StepApdu

LEMMA StepContinue ==
    ASSUME CardInv, Continue
    PROVE  CardInv'
<1> DEFINE ins == IF applet = "oath" THEN way ELSE "get_response"
           a(le) == [ins |-> ins, le |-> le, aid |-> << >>, tag |-> read.tag]
<1>1. PICK le \in IF ins = "send_remaining" THEN Les \ {NoLe} ELSE Les :
         /\ Transfer(Header("xfr_block", 1, TRUE, a(le)), HeaderLen + 1)
         /\ want' = [cmd |-> "xfr_block", seq |-> seq, ins |-> ins, tag |-> read.tag,
                     from |-> read.n]
  BY DEF Continue
<1>2. want = Empty /\ read # Empty /\ UNCHANGED <<device, probes, got, read, way, applet>>
  BY DEF Continue
<1>3. /\ read \in [tag : Nat, n : Nat] /\ way \in Ways /\ way # "control"
  BY <1>2 DEF CardInv, Sound, Reading
<1>4. ins \in {"get_response", "send_remaining"} /\ read.tag \in Nat /\ read.n \in Nat
  BY <1>3, ConstantsOK
<1> DEFINE u == a(le)
<1>5. /\ u \in NamedApdus /\ u.ins = ins /\ u.tag = read.tag /\ u.le = le
  BY <1>1, <1>4 DEF NamedApdus, Instructions
<1>6. u.ins = "send_remaining" => u.le # NoLe
  BY <1>1, <1>5
<1>7. 1 \in 1..Class!MaxPayloadLen
  BY Lengths
<1>8. /\ Transfer(Header("xfr_block", 1, TRUE, u), HeaderLen + 1)
      /\ want' = [cmd |-> "xfr_block", seq |-> seq, ins |-> u.ins, tag |-> u.tag,
                  from |-> read.n]
  BY <1>1, <1>5
<1> HIDE DEF u
<1>9. u.ins = IF applet = "oath" THEN way ELSE "get_response"
  BY <1>5
<1> HIDE DEF ins
<1> QED BY <1>2, <1>4, <1>5, <1>6, <1>7, <1>8, <1>9, StepApdu

LEMMA StepProbe ==
    ASSUME CardInv, Probe
    PROVE  CardInv'
<1> DEFINE s == seq
           h == Header("slot_status", 0, TRUE, Empty)
           F == Flight(class.ep, class.tx, class.q)
           x == ServingOf(class)
<1>1. /\ Live(want) /\ probes' = probes \cup {s} /\ Transfer(h, HeaderLen) /\ out = << >>
      /\ UNCHANGED <<device, want, got, read, way, applet>>
  BY DEF Probe, Transfer, Live
<1>2. probes = {}
  <2>1. IsFiniteSet(probes)
    <3>1. IsFiniteSet(0..MaxSeq)
      BY ConstantsOK, FS_Interval
    <3> QED BY <3>1, FS_Subset DEF CardInv, Typed
  <2>2. Cardinality(probes) \in Nat /\ Cardinality(probes) < MaxProbes /\ MaxProbes \in 0..1
    BY <2>1, FS_CardinalityType, ConstantsOK DEF Probe
  <2>3. Cardinality(probes) = 0
    BY <2>2
  <2> QED BY <2>1, <2>3, FS_EmptySet
<1>3. Sound(class, << >>, got, want, {}, router, read, way, applet, pc)
  BY <1>1, <1>2 DEF CardInv
<1>4. /\ Shape(class.ep, class.tx, class.q, got)
      /\ Core(class.ep, class.tx, class.q, got, want, {}, "none", class.head.seq, x)
      /\ Reading(F, want, "none", class.head.seq, x, router, read, way, applet)
      /\ Linked(class, << >>, want, {}, applet, pc)
  BY <1>3 DEF Sound, ModeOf, LeadOf
<1>5. /\ s \in Nat /\ s \in 0..MaxSeq /\ ~Flies(class.ep, class.tx, class.q, s)
      /\ want # Empty => want.seq # s
  BY <1>2, <1>4, FreshSeq
<1>6. h \in Headers /\ h.cmd = "slot_status" /\ h.seq = s /\ h.dw = 0
  <2>1. "slot_status" \in Class!Commands
    BY DEF Class!Commands
  <2> QED BY <1>5, <2>1 DEF Header, Headers
<1> HIDE DEF s, h, x, F
<1>7. WellFormed(h) /\ Extent(h) = HeaderLen
  BY <1>6, Lengths DEF WellFormed, Extent
<1>8. Core(class.ep, class.tx, class.q, got, want, {s}, "arriving", s, x)
  BY <1>1, <1>4, <1>5, CoreProbed
<1>9. Reading(F, want, "arriving", s, x, router, read, way, applet)
  <2>1. Reading(F, want, "none", s, x, router, read, way, applet)
    BY <1>4, AnyLeadReading
  <2>2. want # Empty => (Unserved(want, "arriving", s, x) => Unserved(want, "none", s, x))
    BY <1>5 DEF Unserved
  <2> QED BY <2>1, <2>2, ReadingFewer
<1>10. Linked(class, << >>, want, {s}, applet, pc)
  BY <1>4 DEF Linked
<1>11. Sent(h, want, {s})
  BY <1>5, <1>6 DEF Sent
<1>12. PICK z \in BOOLEAN : out' = Packets(h, Extent(h), z)
  BY <1>1, <1>7, ConstantsOK DEF Transfer
<1>13. HeaderLen < PS
  BY Lengths DEF PS
<1>14. Sound(class, out', got, want, {s}, router, read, way, applet, pc)
  <2>1. /\ Core(class.ep, class.tx, class.q, got, want, {s}, "arriving", h.seq, ServingOf(class))
        /\ Reading(Flight(class.ep, class.tx, class.q), want, "arriving", h.seq,
                   ServingOf(class), router, read, way, applet)
    BY <1>6, <1>8, <1>9 DEF x, F
  <2> QED BY <1>3, <1>6, <1>7, <1>10, <1>11, <1>12, <1>13, <2>1, SoundSent
<1>15. /\ class' = class /\ router' = router /\ pc' = pc /\ hid' = hid /\ probes' = {s}
       /\ got' = got /\ way' = way /\ applet' = applet /\ want' = want /\ read' = read
  BY <1>1, <1>2 DEF device
<1>16. Cardinality({s}) = 1 /\ 1 <= MaxProbes
  <2>1. Cardinality(probes) = 0
    BY <1>2, FS_EmptySet
  <2>2. 0 < MaxProbes /\ MaxProbes \in 0..1
    BY <2>1, ConstantsOK DEF Probe
  <2> QED BY <2>2, FS_Singleton
<1> QED BY <1>5, <1>14, <1>15, <1>16 DEF CardInv, Typed

LEMMA StepGiveUp ==
    ASSUME CardInv, GiveUp
    PROVE  CardInv'
<1> DEFINE s == seq
           h == Header("abort", 0, TRUE, Empty)
           u == [cmd |-> "abort", seq |-> s, ins |-> Empty, tag |-> 0, from |-> 0]
           F == Flight(class.ep, class.tx, class.q)
           x == ServingOf(class)
           ap2 == IF want.ins = "select" THEN Empty ELSE applet
<1>1. /\ want # Empty /\ want.cmd = "xfr_block" /\ want' = u /\ Transfer(h, HeaderLen)
      /\ out = << >> /\ probes' = {} /\ read' = Empty /\ applet' = ap2
      /\ UNCHANGED <<device, got, way>>
  BY DEF GiveUp, Transfer, Wait
<1>2. Sound(class, << >>, got, want, probes, router, read, way, applet, pc)
  BY <1>1 DEF CardInv
<1>3. /\ Shape(class.ep, class.tx, class.q, got)
      /\ Core(class.ep, class.tx, class.q, got, want, probes, "none", class.head.seq, x)
      /\ Reading(F, want, "none", class.head.seq, x, router, read, way, applet)
      /\ Linked(class, << >>, want, probes, applet, pc)
  BY <1>2 DEF Sound, ModeOf, LeadOf
<1>4. /\ s \in Nat /\ ~Flies(class.ep, class.tx, class.q, s) /\ want.seq # s
  <2>1. \A a, b \in probes : a = b
    BY <1>3 DEF Core
  <2> QED BY <1>1, <1>3, <2>1, FreshSeq
<1>5. h \in Headers /\ h.cmd = "abort" /\ h.seq = s /\ h.dw = 0
  <2>1. "abort" \in Class!Commands
    BY DEF Class!Commands
  <2> QED BY <1>4, <2>1 DEF Header, Headers
<1>6. u \in Wants /\ u.seq = s /\ u.cmd = "abort" /\ u.ins = Empty /\ u # Empty
  <2>1. u \in Wants
    BY <1>4 DEF Wants, Class!Commands
  <2> QED BY <2>1, EmptyIsNone
<1> HIDE DEF s, h, u, x, F, ap2
<1>7. WellFormed(h) /\ Extent(h) = HeaderLen
  BY <1>5, Lengths DEF WellFormed, Extent
<1>8. Live(want)
  BY <1>1 DEF Live
<1>9. Core(class.ep, class.tx, class.q, got, u, {}, "arriving", s, x)
  BY <1>1, <1>3, <1>4, <1>6, <1>8, CoreAborted
<1>10. Reading(F, u, "arriving", s, x, router, Empty, way, ap2)
  <2>1. \A r \in F : r.seq # u.seq
    BY <1>4, <1>6 DEF F, Flight, Flies
  <2>2. ap2 # Empty => ap2 = applet /\ router.selected = applet
    BY <1>1, <1>3 DEF Reading, ap2
  <2>3. /\ router \in Routers /\ Rested(router.chain) /\ Rested(router.mirror)
        /\ ap2 \in AppletNames \cup {Empty} /\ way \in Ways /\ (way = "control" => ap2 = Empty)
    BY <1>3 DEF Reading, ap2
  <2> QED BY <1>6, <2>1, <2>2, <2>3 DEF Reading
<1>11. Linked(class, << >>, u, {}, ap2, pc)
  <2>1. ~Live(u)
    BY <1>6 DEF Live
  <2> QED BY <1>3, <1>6, <1>8, <2>1 DEF Linked, ap2
<1>12. Sent(h, u, {})
  BY <1>5, <1>6 DEF Sent
<1>13. PICK z \in BOOLEAN : out' = Packets(h, Extent(h), z)
  BY <1>1, <1>7, ConstantsOK DEF Transfer
<1>14. HeaderLen < PS
  BY Lengths DEF PS
<1>15. Sound(class, out', got, u, {}, router, Empty, way, ap2, pc)
  <2>1. /\ Core(class.ep, class.tx, class.q, got, u, {}, "arriving", h.seq, ServingOf(class))
        /\ Reading(Flight(class.ep, class.tx, class.q), u, "arriving", h.seq,
                   ServingOf(class), router, Empty, way, ap2)
    BY <1>5, <1>9, <1>10 DEF x, F
  <2> QED BY <1>2, <1>5, <1>7, <1>11, <1>12, <1>13, <1>14, <2>1, SoundSent
<1>16. /\ class' = class /\ router' = router /\ pc' = pc /\ hid' = hid /\ got' = got
       /\ way' = way
  BY <1>1 DEF device
<1>17. Cardinality({}) = 0 /\ 0 <= MaxProbes
  BY FS_EmptySet, ConstantsOK
<1> QED BY <1>1, <1>15, <1>16, <1>17 DEF CardInv, Typed

\* The endpoint without its packet.
LEMMA Emptied ==
    ASSUME NEW c \in Classes
    PROVE  LET d == [c EXCEPT !.ep = Empty]
           IN /\ d \in Classes /\ d.ep = Empty /\ d.tx = c.tx /\ d.q = c.q
              /\ d.rx = c.rx /\ d.head = c.head /\ d.pending = c.pending
              /\ d.awaiting = c.awaiting /\ d.answering = c.answering
BY DEF Classes

\* The reply the host waits for says what it has now read, and which applet is selected.
LEMMA ReadingAnswered ==
    ASSUME NEW F, NEW w \in Wants, NEW m, NEW s, NEW x, NEW R, NEW rd, NEW wy, NEW ap, NEW r,
           Reading(F, w, m, s, x, R, rd, wy, ap), r \in F, r.seq = w.seq, NEW F2
    PROVE  LET apdu == w.cmd = "xfr_block" /\ r.type = "data_block" /\ r.err = "none"
               rd2 == IF apdu /\ r.data.sw = "more" THEN [tag |-> w.tag, n |-> r.data.to]
                      ELSE Empty
               ap2 == IF apdu /\ w.ins = "select" /\ r.data.sw = "ok" THEN R.selected ELSE ap
           IN Reading(F2, Empty, m, s, x, R, rd2, wy, ap2)
<1> DEFINE apdu == w.cmd = "xfr_block" /\ r.type = "data_block" /\ r.err = "none"
           rd2 == IF apdu /\ r.data.sw = "more" THEN [tag |-> w.tag, n |-> r.data.to]
                  ELSE Empty
           ap2 == IF apdu /\ w.ins = "select" /\ r.data.sw = "ok" THEN R.selected ELSE ap
<1> SUFFICES Reading(F2, Empty, m, s, x, R, rd2, wy, ap2)
  OBVIOUS
<1>0. w # Empty /\ Empty \notin Instructions /\ w.tag \in Nat
  BY EmptyIsNone DEF Wants
<1>1. Proper(r, w, R, wy, ap)
  BY <1>0 DEF Reading
<1>2. /\ R \in Routers /\ Rested(R.chain) /\ Rested(R.mirror)
      /\ ap \in AppletNames \cup {Empty} /\ wy \in Ways
      /\ wy = "control" => ap = Empty /\ w.ins \in {Empty, "malformed"}
      /\ w.cmd # "xfr_block" => w.ins = Empty
      /\ ap # Empty /\ w.ins # "select" => R.selected = ap
  BY <1>0 DEF Reading
<1>3. apdu /\ r.data.sw = "more" =>
        /\ r.data.to \in Nat /\ w.ins \notin {"malformed", "select"}
        /\ Follows(R, wy, ap, w.tag, r.data.to)
  BY <1>1 DEF Proper, Chunks
<1>4. w.ins = "select" => w.cmd = "xfr_block" /\ w.ins # Empty
  BY <1>0, <1>2 DEF Instructions
<1>5. wy = "control" => w.ins # "select"
  BY <1>2, <1>4
<1>6. ap2 \in AppletNames \cup {Empty} /\ (wy = "control" => ap2 = Empty)
  BY <1>2, <1>5 DEF Routers
<1>7. ap2 # Empty => R.selected = ap2
  <2>1. CASE apdu /\ w.ins = "select" /\ r.data.sw = "ok"
    BY <2>1
  <2>2. CASE ~(apdu /\ w.ins = "select" /\ r.data.sw = "ok")
    <3>1. ap2 = ap
      BY <2>2
    <3>2. w.ins = "select" /\ ap # Empty => R.selected = ap
      BY <1>1, <1>4, <2>2 DEF Proper
    <3> QED BY <1>2, <3>1, <3>2
  <2> QED BY <2>1, <2>2
<1>8. /\ rd2 \in [tag : Nat, n : Nat] \cup {Empty}
      /\ wy = "control" => rd2 = Empty
      /\ rd2 # Empty => Follows(R, wy, ap2, rd2.tag, rd2.n)
  <2>1. CASE apdu /\ r.data.sw = "more"
    <3>1. rd2 = [tag |-> w.tag, n |-> r.data.to]
      BY <2>1
    <3>2. ap2 = ap
      BY <1>3, <2>1
    <3>3. wy # "control"
      <4> SUFFICES ASSUME wy = "control" PROVE FALSE
        OBVIOUS
      <4>1. w.ins = Empty
        BY <1>2, <1>3, <2>1
      <4>2. w.ins # Empty
        BY <1>0, <2>1 DEF Reading
      <4> QED BY <4>1, <4>2
    <3>4. rd2 \in [tag : Nat, n : Nat] /\ rd2.tag = w.tag /\ rd2.n = r.data.to
      BY <1>0, <1>3, <2>1, <3>1
    <3> HIDE DEF rd2, ap2
    <3> QED BY <1>3, <2>1, <3>2, <3>3, <3>4
  <2>2. CASE ~(apdu /\ r.data.sw = "more")
    BY <2>2
  <2> QED BY <2>1, <2>2
<1> HIDE DEF rd2, ap2
<1> QED BY <1>2, <1>6, <1>7, <1>8 DEF Reading

\* The host reads the packet in the endpoint.
LEMMA StepRead ==
    ASSUME CardInv, Read
    PROVE  CardInv'
<1> DEFINE e == class.ep
           t == class.tx
           q == class.q
           d == [class EXCEPT !.ep = Empty]
           m == ModeOf(out)
           s == LeadOf(out, class).seq
           x == ServingOf(class)
           F == Flight(e, t, q)
<1>1. e # Empty /\ class' = d /\ UNCHANGED <<pc, router, hid, out, way>>
  BY DEF Read
<1>2. /\ class \in Classes /\ class.rx.ready = FALSE /\ class.awaiting = FALSE
      /\ Shape(e, t, q, got) /\ Transit(out, class.rx.len, class.head, way)
      /\ Core(e, t, q, got, want, probes, m, s, x)
      /\ Reading(F, want, m, s, x, router, read, way, applet)
      /\ Linked(class, out, want, probes, applet, pc)
  BY DEF CardInv, Sound
<1>3. /\ d \in Classes /\ d.ep = Empty /\ d.tx = t /\ d.q = q
      /\ d.rx = class.rx /\ d.head = class.head /\ d.pending = class.pending
      /\ d.awaiting = class.awaiting /\ d.answering = class.answering
  BY <1>2, Emptied
<1> HIDE DEF d
<1>4. ModeOf(out) = m /\ LeadOf(out, d).seq = s /\ ServingOf(d) = x
  BY <1>3 DEF LeadOf, ServingOf
<1>5. Flight(Empty, t, q) \subseteq F
  BY DEF Flight
<1> HIDE DEF e, t, q, m, s, x, F
<1>6. CASE class.ep.to # class.ep.reply.len
  <2> DEFINE g2 == [reply |-> e.reply, n |-> e.to]
  <2>1. /\ got' = g2 /\ UNCHANGED <<want, read, applet, probes>> /\ e.to # e.reply.len
    BY <1>6 DEF Read, e
  <2>2. Shape(Empty, t, q, g2) /\ Core(Empty, t, q, g2, want, probes, m, s, x)
    BY <1>1, <1>2, <2>1, CoreReadPart
  <2> HIDE DEF g2
  <2>3. Reading(Flight(Empty, t, q), want, m, s, x, router, read, way, applet)
    BY <1>2, <1>5, ReadingFewer
  <2>4. Linked(d, out, want, probes, applet, pc)
    BY <1>2, <1>3 DEF Linked
  <2>5. Sound(d, out, g2, want, probes, router, read, way, applet, pc)
    BY <1>2, <1>3, <1>4, <2>2, <2>3, <2>4 DEF Sound
  <2> QED BY <1>1, <2>1, <2>5 DEF CardInv, Typed
<1>7. CASE class.ep.to = class.ep.reply.len
  <2> DEFINE r == e.reply
  <2>1. got' = Empty /\ Answer(r) /\ e.to = r.len
    BY <1>7 DEF Read, e
  <2>2. Shape(Empty, t, q, Empty)
    BY <1>1, <1>2, <2>1, ShapeRead
  <2>3. r \in F
    BY <1>1 DEF F, Flight
  <2> HIDE DEF r
  <2>4. CASE want # Empty /\ r.seq = want.seq
    <3> DEFINE apdu == want.cmd = "xfr_block" /\ r.type = "data_block" /\ r.err = "none"
               rd2 == IF apdu /\ r.data.sw = "more" THEN [tag |-> want.tag, n |-> r.data.to]
                      ELSE Empty
               ap2 == IF apdu /\ want.ins = "select" /\ r.data.sw = "ok" THEN router.selected
                      ELSE applet
    <3>1. want' = Empty /\ read' = rd2 /\ applet' = ap2 /\ probes' = probes
      BY <2>1, <2>4 DEF Answer
    <3>2. want \in Wants
      BY <1>2, <2>4 DEF Core
    <3>3. Reading(Flight(Empty, t, q), Empty, m, s, x, router, rd2, way, ap2)
      BY <1>2, <2>3, <2>4, <3>2, ReadingAnswered
    <3> HIDE DEF rd2, ap2
    <3>4. Core(Empty, t, q, Empty, Empty, probes, m, s, x)
      BY <1>1, <1>2, <2>1, <2>4, CoreReadWanted DEF r
    <3>5. x = Empty
      <4>1. Flies(e, t, q, want.seq)
        BY <1>1, <2>4 DEF Flies, r
      <4> QED BY <1>2, <2>4, <4>1 DEF Core
    <3>6. d.pending = Empty
      <4>1. class.pending # Empty => x \in Nat
        BY <1>2 DEF Linked, ServingOf, x
      <4> QED BY <1>3, <3>5, <4>1, EmptyIsNone
    <3>7. Linked(d, out, Empty, probes, ap2, pc)
      BY <1>2, <3>6 DEF Linked
    <3>8. Sound(d, out, Empty, Empty, probes, router, rd2, way, ap2, pc)
      BY <1>2, <1>3, <1>4, <2>2, <3>3, <3>4, <3>7 DEF Sound
    <3> QED BY <1>1, <2>1, <3>1, <3>8 DEF CardInv, Typed
  <2>5. CASE ~(want # Empty /\ r.seq = want.seq)
    <3> DEFINE P2 == probes \ {r.seq}
    <3>1. probes' = P2 /\ UNCHANGED <<want, read, applet>>
      BY <2>1, <2>5 DEF Answer
    <3>2. Core(Empty, t, q, Empty, want, P2, m, s, x)
      BY <1>1, <1>2, <2>1, <2>5, CoreReadOther DEF r
    <3>3. Reading(Flight(Empty, t, q), want, m, s, x, router, read, way, applet)
      BY <1>2, <1>5, ReadingFewer
    <3>4. Linked(d, out, want, P2, applet, pc)
      BY <1>2, <1>3 DEF Linked
    <3>5. P2 \subseteq 0..MaxSeq /\ Cardinality(P2) <= MaxProbes
      <4>1. probes \subseteq 0..MaxSeq /\ Cardinality(probes) <= MaxProbes
        BY DEF CardInv, Typed
      <4>2. IsFiniteSet(probes)
        <5>1. IsFiniteSet(0..MaxSeq)
          BY ConstantsOK, FS_Interval
        <5> QED BY <4>1, <5>1, FS_Subset
      <4>3. /\ Cardinality(P2) <= Cardinality(probes) /\ Cardinality(P2) \in Nat
            /\ Cardinality(probes) \in Nat
        BY <4>2, FS_Subset, FS_CardinalityType
      <4>4. P2 \subseteq 0..MaxSeq
        BY <4>1
      <4>5. MaxProbes \in Nat
        BY ConstantsOK
      <4> HIDE DEF P2
      <4> QED BY <4>1, <4>3, <4>4, <4>5
    <3> HIDE DEF P2
    <3>6. Sound(d, out, Empty, want, P2, router, read, way, applet, pc)
      BY <1>2, <1>3, <1>4, <2>2, <3>2, <3>3, <3>4 DEF Sound
    <3> QED BY <1>1, <2>1, <3>1, <3>5, <3>6 DEF CardInv, Typed
  <2> QED BY <2>4, <2>5
<1> QED BY <1>6, <1>7

\* The device's steps.
LEMMA StepPoll ==
    ASSUME CardInv, Poll
    PROVE  CardInv'
<1> DEFINE a == Class!rx_append(class, Head(out).n, Head(out).head)
<1>1. /\ pc = "poll" /\ pc' = "serve"
      /\ UNCHANGED <<router, hid, want, probes, got, read, way, applet>>
  BY DEF Poll
<1>2. Sound(class, out, got, want, probes, router, read, way, applet, "poll")
  BY <1>1 DEF CardInv
<1>3. Sound(class', out', got, want, probes, router, read, way, applet, "serve")
  <2>1. CASE out = << >>
    <3>1. class' = Class!process(class) /\ out' = << >>
      BY <2>1 DEF Poll
    <3>2. Sound(Class!process(class), << >>, got, want, probes, router, read, way, applet,
                "serve")
      BY <1>2, <2>1, PollIdle
    <3> QED BY <3>1, <3>2
  <2>2. CASE out # << >>
    <3>1. class' = Class!process(a) /\ out' = Tail(out)
      BY <2>2 DEF Poll
    <3>2. CASE ModeOf(out) = "zlp"
      <4>1. Sound(Class!process(a), Tail(out), got, want, probes, router, read, way, applet,
                  "serve")
        BY <1>2, <2>2, <3>2, PollZlp
      <4> QED BY <3>1, <4>1
    <3>3. CASE ModeOf(out) = "arriving"
      <4>1. Took(class, out, a)
        BY <1>2, <2>2, <3>3, PollTook
      <4>2. a.rx.ready = TRUE \/ a.rx.ready = FALSE
        BY <4>1 DEF Took
      <4> HIDE DEF a
      <4>3. Sound(Class!process(a), Tail(out), got, want, probes, router, read, way, applet,
                  "serve")
        <5>1. CASE a.rx.ready = TRUE
          BY <1>2, <2>2, <3>3, <4>1, <5>1, PollArrived
        <5>2. CASE a.rx.ready = FALSE
          BY <1>2, <2>2, <3>3, <4>1, <5>2, PollPart
        <5> QED BY <4>2, <5>1, <5>2
      <4> QED BY <3>1, <4>3
    <3> QED BY <2>2, <3>2, <3>3 DEF ModeOf
  <2> QED BY <2>1, <2>2
<1> QED BY <1>1, <1>3 DEF CardInv, Typed

LEMMA StepServe ==
    ASSUME CardInv, Serve
    PROVE  CardInv'
<1>1. pc = "serve" /\ pc' = "hid" /\ UNCHANGED <<hid, host>>
  BY DEF Serve
<1>2. Sound(class, out, got, want, probes, router, read, way, applet, "serve")
  BY <1>1 DEF CardInv
<1>3. Sound(class', out, got, want, probes, router', read, way, applet, "hid")
  <2>1. CASE class.pending = Empty
    <3>1. class' = class /\ router' = router
      BY <2>1 DEF Serve
    <3>2. Sound(class, out, got, want, probes, router, read, way, applet, "hid")
      BY <1>2, <2>1, Turn
    <3> QED BY <3>1, <3>2
  <2>2. CASE class.pending # Empty
    <3> DEFINE S(accepts, len) ==
                 Router!process(router, class.pending, class.pending.tag, accepts, len)
    <3>1. PICK accepts \in BOOLEAN,
               len \in IF class.pending.ins = "select" THEN {SelectLen} ELSE BodyLens :
            /\ router' = S(accepts, len).r
            /\ class' = Class!send_response(Class!take_pending_request(class),
                                            S(accepts, len).out,
                                            Router!Length(S(accepts, len).out) + SwLen)
      BY <2>2 DEF Serve
    <3>2. Sound(Class!send_response(Class!take_pending_request(class), S(accepts, len).out,
                                    Router!Length(S(accepts, len).out) + SwLen),
                out, got, want, probes, S(accepts, len).r, read, way, applet, "hid")
      BY <1>2, <2>2, ServePending
    <3> HIDE DEF S
    <3> QED BY <3>1, <3>2
  <2> QED BY <2>1, <2>2
<1> QED BY <1>1, <1>3 DEF CardInv, Typed, host

LEMMA HidTyped ==
    ASSUME hid \in [left : 0..MaxHidPackets, tries : 0..MaxTries - 1, busy : BOOLEAN],
           Hid \/ ReadHid
    PROVE  hid' \in [left : 0..MaxHidPackets, tries : 0..MaxTries - 1, busy : BOOLEAN]
<1> DEFINE H == [left : 0..MaxHidPackets, tries : 0..MaxTries - 1, busy : BOOLEAN]
<1>0. MaxHidPackets \in Nat /\ MaxTries \in Nat \ {0} /\ 0 \in 0..MaxTries - 1
  BY ConstantsOK
<1>1. hid.left \in 0..MaxHidPackets /\ hid.tries \in 0..MaxTries - 1 /\ hid.busy \in BOOLEAN
  OBVIOUS
<1>2. CASE ReadHid
  BY <1>2 DEF ReadHid
<1>3. CASE Hid /\ hid.left = 0
  <2>1. PICK n \in 0..MaxHidPackets : hid' = [hid EXCEPT !.left = n, !.tries = 0]
    <3>1. Receive
      BY <1>3 DEF Hid
    <3> QED BY <3>1, Zenon DEF Receive
  <2> QED BY <1>0, <2>1
<1>4. CASE Hid /\ hid.left # 0
  <2>1. Send
    BY <1>4 DEF Hid
  <2>2. hid.left - 1 \in 0..MaxHidPackets /\ 0 \in 0..MaxHidPackets
    BY <1>0, <1>1, <1>4
  <2>3. CASE ~hid.busy
    BY <1>0, <2>1, <2>2, <2>3 DEF Send
  <2>4. CASE hid.busy /\ hid.tries + 1 = MaxTries
    <3>1. hid' = [hid EXCEPT !.left = 0, !.tries = 0]
      BY <2>1, <2>4 DEF Send
    <3> QED BY <1>0, <2>2, <3>1
  <2>5. CASE hid.busy /\ hid.tries + 1 # MaxTries
    <3> DEFINE k == hid.tries + 1
    <3>1. hid' = [hid EXCEPT !.tries = k]
      BY <2>1, <2>5 DEF Send
    <3>2. k \in 0..MaxTries - 1
      BY <1>0, <1>1, <2>5
    <3> HIDE DEF k
    <3> QED BY <3>1, <3>2
  <2> QED BY <2>3, <2>4, <2>5
<1> QED BY <1>2, <1>3, <1>4

LEMMA StepHid ==
    ASSUME CardInv, Hid
    PROVE  CardInv'
<1>1. pc = "hid" /\ pc' = "poll" /\ UNCHANGED <<class, router, host>>
  BY DEF Hid
<1>2. class.pending = Empty
  BY <1>1 DEF CardInv, Sound, Linked
<1>3. Sound(class, out, got, want, probes, router, read, way, applet, "poll")
  BY <1>2, Turn DEF CardInv
<1>4. hid' \in [left : 0..MaxHidPackets, tries : 0..MaxTries - 1, busy : BOOLEAN]
  BY HidTyped DEF CardInv, Typed
<1> QED BY <1>1, <1>3, <1>4 DEF CardInv, Typed, host

LEMMA StepReadHid ==
    ASSUME CardInv, ReadHid
    PROVE  CardInv'
<1>1. UNCHANGED <<pc, class, router, host>>
  BY DEF ReadHid
<1>2. hid' \in [left : 0..MaxHidPackets, tries : 0..MaxTries - 1, busy : BOOLEAN]
  BY HidTyped DEF CardInv, Typed
<1> QED BY <1>1, <1>2 DEF CardInv, Typed, host

\* Nothing travels and the host has forgotten what it did.
LEMMA Afresh ==
    ASSUME NEW c \in Classes, c.rx.ready = FALSE, c.rx.len = 0, c.awaiting = FALSE,
           c.pending = Empty, c.ep = Empty, c.tx = Empty, c.q = Empty,
           NEW R \in Routers, Rested(R.chain), Rested(R.mirror), NEW wy \in Ways, NEW p
    PROVE  Sound(c, << >>, Empty, Empty, {}, R, Empty, wy, Empty, p)
<1>1. c.head.seq \in Nat
  BY DEF Classes, Headers
<1>2. /\ Shape(Empty, Empty, Empty, Empty)
      /\ Core(Empty, Empty, Empty, Empty, Empty, {}, "none", c.head.seq, Empty)
  BY <1>1, CoreEmpty
<1>3. Transit(<< >>, 0, c.head, wy)
  BY Lengths DEF Transit
<1>4. Linked(c, << >>, Empty, {}, Empty, p)
  BY DEF Linked
<1>5. Reading(Flight(Empty, Empty, Empty), Empty, "none", c.head.seq, Empty, R, Empty, wy,
              Empty)
  BY DEF Reading
<1> QED BY <1>2, <1>3, <1>4, <1>5 DEF Sound, ModeOf, LeadOf, ServingOf

LEMMA NoProbes ==
    {} \subseteq 0..MaxSeq /\ Cardinality({}) <= MaxProbes
<1>1. Cardinality({}) = 0
  BY FS_EmptySet
<1>2. MaxProbes \in Nat
  BY ConstantsOK
<1> QED BY <1>1, <1>2

LEMMA StepBusReset ==
    ASSUME CardInv, BusReset
    PROVE  CardInv'
<1> DEFINE k == Class!clear_rx(class)
           d == [k EXCEPT !.tx = Empty, !.q = Empty, !.ep = Empty]
<1>1. /\ pc = "poll" /\ class' = d
      /\ out' = << >> /\ want' = Empty /\ probes' = {} /\ got' = Empty /\ read' = Empty
      /\ applet' = Empty /\ UNCHANGED <<pc, router, hid, way>>
  BY DEF BusReset, Class!reset
<1>2. /\ class \in Classes /\ class.pending = Empty /\ class.awaiting = FALSE
      /\ router \in Routers /\ Rested(router.chain) /\ Rested(router.mirror) /\ way \in Ways
  BY <1>1 DEF CardInv, Sound, Linked, Reading
<1>3. /\ k \in Classes /\ k.rx = Class!build.rx /\ k.pending = Empty /\ k.awaiting = FALSE
  BY <1>2, ClearLemma
<1> HIDE DEF k
<1>4. /\ d \in Classes /\ d.rx = k.rx /\ d.pending = k.pending /\ d.awaiting = k.awaiting
      /\ d.tx = Empty /\ d.q = Empty /\ d.ep = Empty
  <2>1. k \in Classes
    BY <1>3
  <2> QED BY ONLY <2>1 DEF Classes
<1> HIDE DEF d
<1>5. d.rx.ready = FALSE /\ d.rx.len = 0
  BY <1>3, <1>4 DEF Class!build
<1>6. Sound(d, << >>, Empty, Empty, {}, router, Empty, way, Empty, pc)
  BY <1>2, <1>3, <1>4, <1>5, Afresh
<1> QED BY <1>1, <1>6, NoProbes DEF CardInv, Typed

LEMMA Start ==
    ASSUME Init
    PROVE  CardInv
<1>1. Class!build \in Classes
  <2>1. Class!NoHeader \in Headers
    BY DEF Class!NoHeader, Headers, Class!Commands
  <2>2. /\ 0 \in 0..MaxMsgLen /\ DefaultParams \in AllParams
    BY Lengths DEF AllParams
  <2> QED BY <2>1, <2>2 DEF Class!build, Classes
<1>2. /\ Class!build.rx.ready = FALSE /\ Class!build.rx.len = 0 /\ Class!build.awaiting = FALSE
      /\ Class!build.pending = Empty /\ Class!build.ep = Empty /\ Class!build.tx = Empty
      /\ Class!build.q = Empty
  BY DEF Class!build
<1>3. /\ Router!new \in Routers /\ Router!new.chain = Empty /\ Router!new.mirror = Empty
  BY DEF Router!new, Routers
<1>4. Rested(Router!new.chain) /\ Rested(Router!new.mirror)
  BY <1>3 DEF Rested
<1>5. way \in Ways
  BY DEF Init
<1>6. Sound(Class!build, << >>, Empty, Empty, {}, Router!new, Empty, way, Empty, "poll")
  BY <1>1, <1>2, <1>3, <1>4, <1>5, Afresh
<1>7. hid \in [left : 0..MaxHidPackets, tries : 0..MaxTries - 1, busy : BOOLEAN]
  <2>1. 0 \in 0..MaxHidPackets /\ 0 \in 0..MaxTries - 1
    BY ConstantsOK
  <2> QED BY <2>1 DEF Init
<1> QED BY <1>6, <1>7, NoProbes DEF Init, CardInv, Typed

-----------------------------------------------------------------------------
(* The theorems.                                                             *)

LEMMA Invariance ==
    Init /\ [][Next]_vars => []CardInv
<1>1. Init => CardInv
  BY Start
<1>2. CardInv /\ [Next]_vars => CardInv'
  <2> SUFFICES ASSUME CardInv, [Next]_vars PROVE CardInv'
    OBVIOUS
  <2>1. CASE UNCHANGED vars
    BY <2>1 DEF vars, device, host, CardInv, Typed
  <2>2. CASE Next
    BY <2>2, StepPoll, StepServe, StepHid, StepCommand, StepAsk, StepContinue, StepProbe,
       StepGiveUp, StepRead, StepReadHid, StepBusReset DEF Next, Device
  <2> QED BY <2>1, <2>2
<1> QED BY <1>1, <1>2, PTL

\* Every answer to an APDU, for every packet size, header, message and Le the assumptions on
\* the constants allow: the host gets a piece of its own body that starts where the last one
\* ended, "ok" only with the end of it, and the applet it believes selected is the one the
\* router selects, however commands, probes, aborts, resets and the loop interleave
\* (CardRouter::process, CcidClass::dispatch_rx, send_response).
THEOREM AnswersAreOwn == Spec => []ApduAnswered
<1>1. CardInv => ApduAnswered
  <2> SUFFICES ASSUME CardInv PROVE ApduAnswered
    OBVIOUS
  <2> DEFINE F == Flight(class.ep, class.tx, class.q)
  <2>1. /\ class \in Classes /\ Shape(class.ep, class.tx, class.q, got)
        /\ Reading(F, want, ModeOf(out), LeadOf(out, class).seq, ServingOf(class),
                   router, read, way, applet)
    BY DEF CardInv, Sound
  <2>2. InFlight = F
    BY <2>1, SameFlight
  <2>3. F \subseteq Replies
    BY <2>1 DEF Flight, Shape, InPackets, Draining
  <2> HIDE DEF F
  <2>4. TypeOK
    <3>1. DOMAIN class = DOMAIN Class!build
      BY <2>1 DEF Classes, Class!build
    <3>2. class.rx.len \in 0..MaxMsgLen
      BY <2>1 DEF Classes
    <3>3. \A r \in InFlight : r.len \in HeaderLen..MaxMsgLen
      BY <2>2, <2>3 DEF Replies
    <3>4. class.tx # Empty => class.tx.sent < class.tx.reply.len
      BY <2>1 DEF Shape
    <3>5. router.selected \in {Applets[i].name : i \in DOMAIN Applets} \cup {Empty}
      BY <2>1 DEF Reading, Routers, AppletNames
    <3> QED BY <3>1, <3>2, <3>3, <3>4, <3>5 DEF TypeOK, CardInv, Typed
  <2>5. AnswersOwnApdu
    BY <2>1, <2>2 DEF AnswersOwnApdu, Reading, Proper
  <2>6. HostKnowsApplet
    BY <2>1 DEF HostKnowsApplet, Reading
  <2> QED BY <2>4, <2>5, <2>6 DEF ApduAnswered
<1> QED BY <1>1, Invariance, PTL DEF Spec

\* No reply the host waits for is lost to the queue of one, none is torn between packets, and
\* the slot is free again when the loop polls (queue_response, flush_tx,
\* take_pending_request).
THEOREM RepliesAreIntact == Spec => []ReplyIntact
<1>1. CardInv => ReplyIntact
  <2> SUFFICES ASSUME CardInv PROVE ReplyIntact
    OBVIOUS
  <2> DEFINE s == LeadOf(out, class).seq
             x == ServingOf(class)
  <2>1. /\ class.awaiting = FALSE /\ Shape(class.ep, class.tx, class.q, got)
        /\ Core(class.ep, class.tx, class.q, got, want, probes, ModeOf(out), s, x)
        /\ Transit(out, class.rx.len, class.head, way)
        /\ Linked(class, out, want, probes, applet, pc)
    BY DEF CardInv, Sound
  <2>2. InFlight = Flight(class.ep, class.tx, class.q)
    BY <2>1, SameFlight
  <2>3. ReplyOnItsWay
    <3> SUFFICES ASSUME want # Empty
                 PROVE  \/ \E i \in DOMAIN out : out[i].head.seq = want.seq
                        \/ class.rx.len > 0 /\ class.head.seq = want.seq
                        \/ class.pending # Empty /\ class.answering = want.seq
                        \/ \E r \in InFlight : r.seq = want.seq
      BY DEF ReplyOnItsWay
    <3>1. CASE ModeOf(out) = "arriving" /\ s = want.seq
      <4>1. out # << >>
        BY <3>1 DEF ModeOf
      <4>2. out \in Seq(OutPackets) /\ Len(out) \in Nat \ {0}
        BY <2>1, <4>1, BytesLemma DEF Transit, Uniform
      <4>3. 1 \in DOMAIN out
        BY <4>2
      <4> QED BY <3>1, <4>1, <4>3 DEF LeadOf
    <3>2. CASE x = want.seq
      <4>1. want.seq # Empty
        BY <2>1, EmptyIsNone DEF Core, Wants
      <4> QED BY <3>2, <4>1 DEF ServingOf
    <3>3. CASE Flies(class.ep, class.tx, class.q, want.seq)
      BY <2>2, <3>3 DEF Flies, Flight
    <3> QED BY <2>1, <3>1, <3>2, <3>3 DEF Core
  <2>4. NoTornReply
    BY <2>1 DEF NoTornReply, Shape
  <2>5. SlotFrees
    BY <2>1 DEF SlotFrees, Linked
  <2> QED BY <2>3, <2>4, <2>5 DEF ReplyIntact
<1> QED BY <1>1, Invariance, PTL DEF Spec

=============================================================================
