----------------------------- MODULE AuthMessage -----------------------------
(***************************************************************************)
(* What a pinUvAuthParam authorizes.  authenticatorConfig and credential   *)
(* management read the same bytes twice: once into the request they carry  *)
(* out, once into the message they authenticate.  The platform authorizes  *)
(* one command; what reaches the device may have been reordered, repeated, *)
(* cut or sent as the other command on the way.  A MAC is the token and    *)
(* the message it was computed over; encoded parameters are opaque.        *)
(***************************************************************************)
EXTENDS Naturals, Sequences

CONSTANTS
  None,
  Params,      \* encoded sub-command parameters
  MaxChanges   \* bound: changes on the way, and tokens issued later

VARIABLES
  token,       \* PinUvAuthTokenState, or None
  issued,      \* tokens issued so far
  meant,       \* the command the platform authorized, with its token
  command,     \* the command byte that arrives
  wire,        \* the entries of the map that arrives
  done,        \* what was carried out
  changes

vars == <<token, issued, meant, command, wire, done, changes>>

Commands == {"config", "credMgmt"}
Permission == [config |-> "acfg", credMgmt |-> "cm"]
SubCommands == [config |-> 1 .. 5, credMgmt |-> 1 .. 7]

Entry(name, text, value) == [name |-> name, text |-> text, value |-> value]
Named(entries, name) == {i \in DOMAIN entries : entries[i].name = name}
LastNamed(entries, name) ==
  LET at == Named(entries, name)
  IN  IF at = {} THEN None ELSE entries[CHOOSE i \in at : \A j \in at : j <= i].value

----------------------------------------------------------------------------
(* Reading the request. *)

\* A later entry of the same name, labelled or spelled out, replaces an earlier one; a
\* request without a sub-command is refused.
decode_authnr_config_request(entries) ==
  IF LastNamed(entries, "subCommand") = None THEN None
  ELSE [sub |-> LastNamed(entries, "subCommand"), params |-> LastNamed(entries, "params"),
        protocol |-> LastNamed(entries, "protocol"), param |-> LastNamed(entries, "param")]

\* Mutant: repeated names are accepted, the first counts.
decode_cred_mgmt_mutant(entries) ==
  LET first(name) ==
        LET at == Named(entries, name)
        IN  IF at = {} THEN None ELSE entries[CHOOSE i \in at : \A j \in at : i <= j].value
  IN  IF first("subCommand") = None THEN None
      ELSE [sub |-> first("subCommand"), params |-> first("params"),
            protocol |-> first("protocol"), param |-> first("param")]

\* Credential management goes through decode_cbor, which refuses a repeated name.
decode_cred_mgmt(entries) ==
  IF \E i, j \in DOMAIN entries : i < j /\ entries[i].name = entries[j].name THEN None
  ELSE decode_authnr_config_request(entries)

----------------------------------------------------------------------------
(* The message that the MAC must be over, read from the same entries. *)

Message(prefix, entries) ==
  IF LastNamed(entries, "subCommand") = None THEN None
  ELSE prefix \o <<LastNamed(entries, "subCommand")>>
         \o (IF LastNamed(entries, "params") = None THEN <<>> ELSE <<LastNamed(entries, "params")>>)

authnr_config_auth_message(entries) == Message(<<13>>, entries)
credential_management_auth_message(entries) == Message(<<>>, entries)

verify_pin_uv_auth_message(protocol, param, message) ==
  /\ token # None
  /\ token.protocol = protocol
  /\ param = [token |-> token.id, message |-> message]

\* Neither command names a relying party, so a token bound to one is refused.  Both
\* refuse a request without a MAC.
verify_pin_uv_auth_for_operation(request, message, permission) ==
  /\ request.protocol # None /\ request.param # None
  /\ verify_pin_uv_auth_message(request.protocol, request.param, message)
  /\ permission \in token.permissions
  /\ token.rp = None

----------------------------------------------------------------------------

NewToken(id) ==
  {[id |-> id, protocol |-> p, permissions |-> ps, rp |-> rp] :
     p \in {1, 2}, ps \in (SUBSET {"acfg", "cm"}) \ {{}}, rp \in {None, "rp"}}

\* The entries as a conforming platform writes them, labelled and in order.
Written(sub, params, protocol, param) ==
  <<Entry("subCommand", FALSE, sub)>>
    \o (IF params = None THEN <<>> ELSE <<Entry("params", FALSE, params)>>)
    \o <<Entry("protocol", FALSE, protocol), Entry("param", FALSE, param)>>

Init ==
  /\ token = None /\ issued = 0 /\ meant = None /\ command = None
  /\ wire = <<>> /\ done = None /\ changes = 0

\* set_pin_uv_auth_token: a new token replaces the old one, also after the platform used it.
Issue ==
  /\ token = None \/ changes < MaxChanges
  /\ done = None
  /\ token' \in NewToken(issued + 1)
  /\ issued' = issued + 1
  /\ changes' = IF token = None THEN changes ELSE changes + 1
  /\ UNCHANGED <<meant, command, wire, done>>

Authorize ==
  /\ token # None /\ meant = None
  /\ \E cmd \in Commands, params \in Params \cup {None} : \E sub \in SubCommands[cmd] \cap {1, 4, 7} :
       LET message == (IF cmd = "config" THEN <<13>> ELSE <<>>) \o <<sub>>
                        \o (IF params = None THEN <<>> ELSE <<params>>)
       IN  /\ meant' = [cmd |-> cmd, sub |-> sub, params |-> params, token |-> token]
           /\ command' = cmd
           /\ wire' = Written(sub, params, token.protocol, [token |-> token.id, message |-> message])
  /\ UNCHANGED <<token, issued, done, changes>>

\* On the way: an entry repeated or put first with another value, one lost, or the
\* other command's byte.
Change ==
  /\ meant # None /\ done = None /\ changes < MaxChanges
  /\ changes' = changes + 1
  /\ \/ /\ \/ \E sub \in {1, 4, 13}, text \in BOOLEAN :
                LET e == Entry("subCommand", text, sub) IN wire' \in {Append(wire, e), <<e>> \o wire}
           \/ \E params \in Params, text \in BOOLEAN :
                LET e == Entry("params", text, params) IN wire' \in {Append(wire, e), <<e>> \o wire}
           \/ \E i \in DOMAIN wire : wire' = SubSeq(wire, 1, i - 1) \o SubSeq(wire, i + 1, Len(wire))
        /\ UNCHANGED command
     \/ command' \in Commands \ {command} /\ UNCHANGED wire
  /\ UNCHANGED <<token, issued, meant, done>>

Carried(request, message) ==
  IF /\ request # None /\ message # None
     /\ verify_pin_uv_auth_for_operation(request, message, Permission[command])
     /\ request.sub \in SubCommands[command]
  THEN [cmd |-> command, sub |-> request.sub, params |-> request.params] ELSE [cmd |-> "refused"]

handle_authnr_config ==
  /\ meant # None /\ done = None /\ command = "config"
  /\ done' = Carried(decode_authnr_config_request(wire), authnr_config_auth_message(wire))
  /\ UNCHANGED <<token, issued, meant, command, wire, changes>>

handle_credential_management ==
  /\ meant # None /\ done = None /\ command = "credMgmt"
  /\ done' = Carried(decode_cred_mgmt(wire), credential_management_auth_message(wire))
  /\ UNCHANGED <<token, issued, meant, command, wire, changes>>

Next == Issue \/ Authorize \/ Change \/ handle_authnr_config \/ handle_credential_management

Spec == Init /\ [][Next]_vars

----------------------------------------------------------------------------

\* Tokens, MACs and decoded requests, none of which is None.
Tokens == [id : Nat, protocol : {1, 2}, permissions : SUBSET {"acfg", "cm"}, rp : {None, "rp"}]
Macs == [token : Nat, message : Seq(Nat \cup Params)]
Requests == [sub : Nat, params : Params \cup {None}, protocol : {1, 2}, param : Macs]

ConstantsOK ==
  /\ MaxChanges \in Nat
  /\ None \notin Nat \cup Params
  /\ None \notin Seq(Nat \cup Params)
  /\ None \notin Tokens /\ None \notin Macs /\ None \notin Requests

\* Tokens and commands have their types.
TypeOK ==
  /\ token # None => token \in NewToken(issued)
  /\ command \in Commands \cup {None} /\ changes \in 0 .. MaxChanges
  /\ done # None => done.cmd \in Commands \cup {"refused"}

\* A command is carried out only as the platform authorized it: the same command, the
\* same sub-command and parameters, with the token that is still current, its
\* permission, and no relying party it does not name.  The two readings of the bytes
\* never disagree, and a MAC for one command never serves the other
\* (decode_authnr_config_request against authnr_config_auth_message, decode_cbor against
\* credential_management_auth_message).
DoneAsAuthorized ==
  done # None /\ done.cmd # "refused" =>
    /\ done = [cmd |-> meant.cmd, sub |-> meant.sub, params |-> meant.params]
    /\ token = meant.token /\ token.rp = None /\ Permission[done.cmd] \in token.permissions

\* What arrives unchanged under a fitting token is carried out.
AuthorizedIsDone ==
  done # None /\ changes = 0 /\ token.rp = None /\ Permission[meant.cmd] \in token.permissions =>
    done.cmd = meant.cmd
=============================================================================
