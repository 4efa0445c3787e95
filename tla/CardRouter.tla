----------------------------- MODULE CardRouter -----------------------------
(***************************************************************************)
(* The ISO 7816-4 router of the card (iso7816.rs): SELECT by AID, the      *)
(* responses cut to the host's Le and continued by GET RESPONSE, and the   *)
(* mirror the OATH applet keeps of its last response for SEND REMAINING.   *)
(*                                                                         *)
(* A response is the interval from..to of the bytes of a body; tag tells   *)
(* which command produced the body and `of' how long it is, for the          *)
(* properties.  A function of the source takes the router r and gives      *)
(* [r |-> the router after it, out |-> the reply].                         *)
(***************************************************************************)
EXTENDS Naturals, Sequences, SequencesExt

CONSTANTS Applets,          \* registered applets, in order: [name, aid]
          NoLe,             \* the command carries no Le
          LeMax,            \* LE_MAX: what Le = 00 means
          ResponseWindow,   \* RESPONSE_WINDOW of the OATH applet
          Nothing           \* no chain, no mirror, no body

ConstantsOK ==
    /\ LeMax \in Nat \ {0} /\ ResponseWindow \in 1..LeMax /\ NoLe \notin Nat
    /\ Applets \in Seq([name : STRING, aid : Seq(Nat)])
    /\ \A i \in DOMAIN Applets : Applets[i].aid # << >>

\* "more" stands for 61 XX; XX only repeats what is left.
StatusWords == {"ok", "error", "more", "not_found", "ins", "length", "conditions"}
Whole(tag, len) == [tag |-> tag, of |-> len, from |-> 0, to |-> len, sw |-> "ok"]
Status(sw) == [Whole(Nothing, 0) EXCEPT !.sw = sw]
\* The first n bytes of a chunk, more to follow; the rest of it.
First(chunk, n) == [chunk EXCEPT !.to = chunk.from + n, !.sw = "more"]
Rest(chunk, n) == [chunk EXCEPT !.from = @ + n]
Length(chunk) == chunk.to - chunk.from

new == [selected |-> Nothing, chain |-> Nothing, mirror |-> Nothing]

\* The applet a SELECT of the bytes requested reaches: the first whose AID is
\* requested, otherwise the first of the longest AIDs it is a prefix of.
\* The scan stops at an exact match, so a longer AID before it loses.
Matches(requested) == {i \in DOMAIN Applets : IsPrefix(requested, Applets[i].aid)}
best_match(requested) ==
    LET exact == {i \in Matches(requested) : Applets[i].aid = requested}
        longest == {i \in Matches(requested) : \A j \in Matches(requested) :
                        Len(Applets[j].aid) <= Len(Applets[i].aid)}
        first(S) == CHOOSE i \in S : \A j \in S : i <= j
    IN IF exact # {} THEN first(exact) ELSE first(longest)

\* select() of an applet fails when its state cannot be loaded: accepts.
\* The response to SELECT leaves whole, whatever Le says.
handle_select(r, apdu, tag, accepts, len) ==
    IF apdu.aid = << >> \/ Matches(apdu.aid) = {}
    THEN [r |-> r, out |-> Status("not_found")]
    ELSE IF accepts
    THEN [r |-> [r EXCEPT !.selected = Applets[best_match(apdu.aid)].name],
          out |-> Whole(tag, len)]
    ELSE [r |-> r, out |-> Status("error")]

\* All of the applet's answer if it fits in Le, else what fits and a chain.
deliver(r, chunk, le) ==
    LET limit == IF le = NoLe THEN 0 ELSE le
    IN IF Length(chunk) <= limit \/ Length(chunk) = 0
       THEN [r |-> r, out |-> chunk]
       ELSE [r |-> [r EXCEPT !.chain = Rest(chunk, limit)], out |-> First(chunk, limit)]

serve_get_response(r, le) ==
    IF r.chain = Nothing
    THEN [r |-> r, out |-> Status("conditions")]
    ELSE LET window == IF le = NoLe THEN LeMax ELSE le
         IN IF Length(r.chain) <= window
            THEN [r |-> [r EXCEPT !.chain = Nothing], out |-> r.chain]
            ELSE [r |-> [r EXCEPT !.chain = Rest(@, window)], out |-> First(r.chain, window)]

\* OathApplet::cmd_send_remaining, once its require_validated has passed.
cmd_send_remaining(r, le) ==
    IF r.mirror = Nothing
    THEN [r |-> r, out |-> Status("conditions")]
    ELSE LET window == IF le = NoLe \/ le > ResponseWindow THEN ResponseWindow ELSE le
         IN IF Length(r.mirror) <= window
            THEN [r |-> [r EXCEPT !.mirror = Nothing], out |-> r.mirror]
            ELSE [r |-> [r EXCEPT !.mirror = Rest(@, window)], out |-> First(r.mirror, window)]

\* OathApplet::process: every other command replaces the mirror by what the
\* router will not have delivered of the answer, or clears it.
mirrored_mutant(r, chunk, le) ==
    [r EXCEPT !.mirror = IF Length(chunk) = 0 THEN Nothing ELSE chunk]
mirrored(r, chunk, le) ==
    LET delivered == IF le = NoLe THEN 0 ELSE IF le < Length(chunk) THEN le ELSE Length(chunk)
    IN [r EXCEPT !.mirror = IF chunk.sw = "error" \/ Length(chunk) = 0 THEN Nothing
                            ELSE Rest(chunk, delivered)]

\* The selected applet's process: its own logic is in the applet's module;
\* here it answers a body of len bytes, or refuses.
applet_process(r, apdu, tag, accepts, len) ==
    LET answer == IF accepts THEN Whole(tag, len) ELSE Status("error")
    IN IF r.selected = "oath" /\ apdu.ins = "send_remaining"
       THEN IF accepts THEN cmd_send_remaining(r, apdu.le) ELSE [r |-> r, out |-> answer]
       ELSE IF r.selected = "oath"
       THEN [r |-> mirrored(r, answer, apdu.le), out |-> answer]
       ELSE [r |-> r, out |-> IF apdu.ins = "send_remaining" THEN Status("error") ELSE answer]

\* CardRouter::process.  A malformed APDU leaves even the chain alone; INS A4
\* is SELECT whatever the class, before the applet sees it.
process(r, apdu, tag, accepts, len) ==
    LET fresh == [r EXCEPT !.chain = Nothing]
        served == applet_process(fresh, apdu, tag, accepts, len)
    IN CASE apdu.ins = "malformed"    -> [r |-> r, out |-> Status("length")]
         [] apdu.ins = "get_response" -> serve_get_response(r, apdu.le)
         [] apdu.ins = "select"       -> handle_select(fresh, apdu, tag, accepts, len)
         [] OTHER -> IF fresh.selected = Nothing
                     THEN [r |-> fresh, out |-> Status("ins")]
                     ELSE deliver(served.r, served.out, apdu.le)
=============================================================================
