------------------------------- MODULE Links -------------------------------
(***************************************************************************)
(* MultiTransport over the framed transports.  A link is a stub or a       *)
(* framed HID, CCID, NFC or BLE adapter over a device driver; its host     *)
(* writes messages in fragments, may give one up, and the link may drop.   *)
(* A fragment carries one unit of its message; the first one also carries  *)
(* the message's length.  The drivers are external: a fragment written     *)
(* waits in the driver until it is read.                                   *)
(***************************************************************************)
EXTENDS Naturals, Sequences

CONSTANTS
  None, Nothing,
  Kinds,       \* the kind of each link, in the order MultiTransport tries them
  MaxLen,      \* bound: units of a message
  MaxMsgs,     \* bound: messages begun
  MaxFaults    \* bound: dropped links, abandoned messages, failed inits and closes

VARIABLES
  links,       \* for each link: initialized, up, the assembler rx, the driver's queue inq
  host,        \* for each link: the message its host is writing, or None
  torn,        \* for each link: part of an abandoned message may be in the assembler
  got,         \* what recv has just returned: a message with its link, Nothing, or None
  waiting,     \* for each link: messages written whole, not yet returned
  begun, faults

vars == <<links, host, torn, got, waiting, begun, faults>>

Ids == DOMAIN Kinds
Framed(i) == Kinds[i] \in {"hid", "ble"}
Unit(m, k, of) == [msg |-> m, part |-> k, of |-> of]
Whole(m, of) == [k \in 1 .. of |-> Unit(m, k, of)]

----------------------------------------------------------------------------
(* init and close. *)

Inited(link) == [link EXCEPT !.initialized = TRUE, !.rx = None]
Closed(i, link) ==
  [link EXCEPT !.initialized = FALSE, !.rx = None, !.up = @ /\ Kinds[i] # "ble",
               !.inq = IF Kinds[i] = "ble" THEN <<>> ELSE @]

\* A stub marks itself initialized and fails; a driver's own init may fail too.
FailsInit(i, bad) == Kinds[i] = "stub" \/ i \in bad
StubInit(link) == [link EXCEPT !.initialized = TRUE]

\* MultiTransport::init: in order, the first failure ends it.
multi_init(bad) ==
  [i \in Ids |->
     IF \E j \in Ids : j < i /\ FailsInit(j, bad) THEN links[i]
     ELSE IF Kinds[i] = "stub" THEN StubInit(links[i])
     ELSE IF i \in bad THEN links[i] ELSE Inited(links[i])]

----------------------------------------------------------------------------
(* recv. *)

\* Mutant: a first fragment is appended to what is there.
HidStep_mutant(rx, f) ==
  LET next == IF rx = None THEN [of |-> f.of, buf |-> <<f>>] ELSE [rx EXCEPT !.buf = Append(@, f)]
  IN  IF Len(next.buf) = next.of THEN [rx |-> None, out |-> next.buf]
      ELSE [rx |-> next, out |-> None]

\* One step of an adapter's read loop: the state is its assembler and what it returns.
\* The adapter of HID (CtaphidAssembler): a first fragment always starts over.
HidStep(rx, f) ==
  IF f.part = 1
  THEN IF f.of = 1 THEN [rx |-> None, out |-> <<f>>]
       ELSE [rx |-> [of |-> f.of, buf |-> <<f>>], out |-> None]
  ELSE IF rx = None THEN [rx |-> None, out |-> Nothing]
  ELSE IF f.part # Len(rx.buf) + 1 THEN [rx |-> None, out |-> Nothing]
  ELSE IF f.part = rx.of THEN [rx |-> None, out |-> Append(rx.buf, f)]
  ELSE [rx |-> [rx EXCEPT !.buf = Append(@, f)], out |-> None]

\* push_fragment of BLE: with a message under way everything is continuation, and with
\* none everything is a header, whose length is then whatever the bytes say (len).
BleStep(rx, f, len) ==
  LET next == IF rx = None THEN [of |-> IF f.part = 1 THEN f.of ELSE len, buf |-> <<f>>]
              ELSE [rx EXCEPT !.buf = Append(@, f)]
  IN  IF Len(next.buf) > next.of THEN [rx |-> None, out |-> Nothing]
      ELSE IF Len(next.buf) = next.of THEN [rx |-> None, out |-> next.buf]
      ELSE [rx |-> next, out |-> None]

\* CCID and NFC read one block.
Step(i, rx, f, len) ==
  CASE Kinds[i] = "hid" -> HidStep(rx, f)
    [] Kinds[i] = "ble" -> BleStep(rx, f, len)
    [] OTHER -> [rx |-> None, out |-> <<f>>]

\* The read loop over the waiting fragments, after each of them: it goes on until a
\* message, an error, or the driver's Timeout on an empty queue.
Read(i, link, len) ==
  LET run[k \in 0 .. Len(link.inq)] ==
        IF k = 0 THEN [rx |-> link.rx, out |-> None, used |-> 0]
        ELSE LET before == run[k - 1] IN
             IF before.out # None THEN before
             ELSE LET step == Step(i, before.rx, link.inq[k], len)
                  IN  [rx |-> step.rx, out |-> step.out, used |-> k]
  IN  run
Loop(i, link, len) == Read(i, link, len)[Len(link.inq)]

CanRecv(i, link) ==
  link.initialized /\ Kinds[i] # "stub" /\ (Kinds[i] \in {"nfc", "ble"} => link.up)

RecvOf(i, link, len) ==
  IF CanRecv(i, link) THEN Loop(i, link, len)
  ELSE [rx |-> link.rx, out |-> None, used |-> 0]

IsMessage(out) == out # None /\ out # Nothing

\* MultiTransport::recv: the first link that returns a message; those tried before it
\* have read what they had.
FirstOk(results) ==
  LET ok == {i \in Ids : IsMessage(results[i].out)}
  IN  IF ok = {} THEN None ELSE CHOOSE i \in ok : \A j \in ok : i <= j

multi_recv(results, first) ==
  [i \in Ids |->
     IF first # None /\ i > first THEN links[i]
     ELSE [links[i] EXCEPT !.rx = results[i].rx,
                           !.inq = SubSeq(@, results[i].used + 1, Len(@))]]

----------------------------------------------------------------------------

Init ==
  /\ links = [i \in Ids |-> [initialized |-> FALSE, up |-> TRUE, rx |-> None, inq |-> <<>>]]
  /\ host = [i \in Ids |-> None] /\ torn = [i \in Ids |-> FALSE]
  /\ got = None /\ waiting = [i \in Ids |-> {}] /\ begun = 0 /\ faults = 0

\* The messages whose first fragment is still in the driver.
Held(inq) == {inq[k].msg : k \in {n \in DOMAIN inq : inq[n].part = 1}}

\* The authenticator initializes its transports; a driver may fail.
InitTransports ==
  \E bad \in SUBSET {i \in Ids : Kinds[i] # "stub"} :
    /\ (bad = {} /\ faults' = faults) \/ (bad # {} /\ faults < MaxFaults /\ faults' = faults + 1)
    /\ links' = multi_init(bad)
    /\ torn' = [i \in Ids |-> IF links'[i] = links[i] THEN torn[i]
                              ELSE host[i] # None \/ links[i].inq # <<>>]
    /\ waiting' = [i \in Ids |-> IF links'[i] = links[i] THEN waiting[i]
                                 ELSE waiting[i] \cap Held(links[i].inq)]
    /\ got' = None
    /\ UNCHANGED <<host, begun>>

CloseTransports ==
  /\ faults < MaxFaults /\ faults' = faults + 1
  /\ links' = [i \in Ids |-> Closed(i, links[i])]
  /\ host' = [i \in Ids |-> IF links'[i].up THEN host[i] ELSE None]
  /\ torn' = [i \in Ids |-> host'[i] # None \/ links'[i].inq # <<>>]
  /\ waiting' = [i \in Ids |-> {}]
  /\ got' = None
  /\ UNCHANGED begun

\* The host writes a message's first fragment, then the others.
Write(i) ==
  /\ links[i].up /\ Kinds[i] # "stub"
  /\ \E of \in 1 .. (IF Framed(i) THEN MaxLen ELSE 1) :
       LET w == IF host[i] = None THEN Unit(begun + 1, 1, of)
                ELSE Unit(host[i].msg, host[i].part + 1, host[i].of)
       IN  /\ host[i] = None => begun < MaxMsgs
           /\ host[i] # None => of = 1
           /\ links' = [links EXCEPT ![i].inq = Append(@, w)]
           /\ host' = [host EXCEPT ![i] = IF w.part = w.of THEN None ELSE w]
           /\ begun' = IF host[i] = None THEN begun + 1 ELSE begun
           /\ waiting' = [waiting EXCEPT ![i] = IF w.part = w.of THEN @ \cup {w.msg} ELSE @]
  /\ got' = None
  /\ UNCHANGED <<torn, faults>>

\* The host abandons a message.
GiveUp(i) ==
  /\ host[i] # None /\ faults < MaxFaults
  /\ host' = [host EXCEPT ![i] = None]
  /\ torn' = [torn EXCEPT ![i] = TRUE]
  /\ faults' = faults + 1
  /\ got' = None
  /\ UNCHANGED <<links, waiting, begun>>

\* A central disconnects or a reader leaves: what the driver held is gone, the adapter
\* is not told.  Later it is back.
Drop(i) ==
  /\ links[i].up /\ Kinds[i] \in {"nfc", "ble"} /\ faults < MaxFaults
  /\ links' = [links EXCEPT ![i].up = FALSE, ![i].inq = <<>>]
  /\ torn' = [torn EXCEPT ![i] = @ \/ host[i] # None \/ links[i].rx # None \/ links[i].inq # <<>>]
  /\ host' = [host EXCEPT ![i] = None]
  /\ waiting' = [waiting EXCEPT ![i] = {}]
  /\ faults' = faults + 1
  /\ got' = None
  /\ UNCHANGED begun
Return(i) ==
  /\ ~links[i].up
  /\ links' = [links EXCEPT ![i].up = TRUE]
  /\ got' = None
  /\ UNCHANGED <<host, torn, waiting, begun, faults>>

\* The authenticator receives from whichever link has a message.
Recv ==
  \E len \in 1 .. MaxLen :
    LET results == [i \in Ids |-> RecvOf(i, links[i], len)]
        first == FirstOk(results)
    IN  /\ links' = multi_recv(results, first)
        /\ IF first = None THEN got' = Nothing /\ UNCHANGED waiting
           ELSE LET units == results[first].out IN
                /\ got' = [link |-> first, units |-> units, torn |-> torn[first]]
                /\ waiting' = [waiting EXCEPT ![first] = @ \ {units[k].msg : k \in DOMAIN units}]
        /\ UNCHANGED <<host, torn, begun, faults>>

Next == InitTransports \/ CloseTransports \/ Recv
          \/ \E i \in Ids : Write(i) \/ GiveUp(i) \/ Drop(i) \/ Return(i)

Spec == Init /\ [][Next]_vars

----------------------------------------------------------------------------

Units == [msg : 1 .. MaxMsgs, part : 1 .. MaxLen, of : 1 .. MaxLen]
Assemblies == [of : 1 .. MaxLen, buf : Seq(Units)]
Received == [link : Ids, units : Seq(Units), torn : BOOLEAN]

ConstantsOK ==
  /\ MaxLen \in Nat \ {0} /\ MaxMsgs \in Nat /\ MaxFaults \in Nat
  /\ Kinds \in Seq({"hid", "ble", "ccid", "nfc", "stub"})
  /\ None # Nothing
  /\ \A v \in {None, Nothing} :
       /\ v \notin Ids /\ v \notin Units /\ v \notin Seq(Units)
       /\ v \notin Assemblies /\ v \notin Received

\* Adapters hold units of messages; a stub never holds any.
TypeOK ==
  /\ \A i \in Ids : /\ links[i].initialized \in BOOLEAN /\ links[i].up \in BOOLEAN
                    /\ links[i].inq \in Seq(Units)
                    /\ links[i].rx # None => Framed(i) /\ links[i].rx.buf \in Seq(Units)
  /\ begun \in 0 .. MaxMsgs /\ faults \in 0 .. MaxFaults /\ waiting \in [Ids -> SUBSET (1 .. MaxMsgs)]

\* What recv returns is one whole message of one host: always over HID, CCID and NFC, and
\* over BLE unless a message was abandoned since the adapter was last initialized
\* (push_fragment keeps a partial message across a disconnection; init drops it).
MessagesIntact ==
  got \notin {None, Nothing} /\ ~(got.torn /\ Kinds[got.link] = "ble") =>
    \E m \in 1 .. MaxMsgs, of \in 1 .. MaxLen : got.units = Whole(m, of)

\* When recv returns nothing, no working link holds a message written whole: a stub, an
\* idle link or half a message tried first never hides it (first success of
\* MultiTransport::recv).  A torn link may have lost it.
NothingHidden ==
  got = Nothing => \A i \in Ids : CanRecv(i, links[i]) /\ ~torn[i] => waiting[i] = {}
=============================================================================
