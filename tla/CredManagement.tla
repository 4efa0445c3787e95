--------------------------- MODULE CredManagement ---------------------------
(***************************************************************************)
(* authenticatorCredentialManagement and the EnumerateRPs commands over    *)
(* StorageEngine: the three cursors that live from one command to the      *)
(* next, deleteCredential, updateUserInformation, and what ends a cursor   *)
(* (its last entry, Reset, a loss of power).                               *)
(*                                                                         *)
(* A credential is its user name; ids are drawn once and are numbers,      *)
(* which gives BTreeMap its order.  A command without a token of           *)
(* permission cm is refused and changes nothing: it is not an action.      *)
(***************************************************************************)
EXTENDS Naturals, Sequences, FiniteSets, Functions

CONSTANTS MaxCreds,         \* credentials drawn
          Rps, RpOf,        \* relying parties, and the one of each credential
          Names,            \* user names
          FirstName,        \* the one credentials are registered with
          MaxResets,        \* Resets
          MaxFaults,        \* calls of the backend that fail
          Absent, None

Creds == 1 .. MaxCreds
CursorStates == [items : Seq(Rps \cup Creds), current_index : Nat]
ConstantsOK == /\ MaxCreds \in Nat \ {0} /\ MaxResets \in Nat /\ MaxFaults \in Nat
               /\ FirstName \in Names /\ RpOf \in [Creds -> Rps]
               /\ {Absent, None} \cap (Names \cup Rps) = {} /\ None \notin CursorStates

VARIABLES disk,             \* the cred:* records of the backend
          credentials,      \* StorageEngine::credentials
          cursors,          \* enumerate_rps_state, cred_mgmt_rps_state, cred_mgmt_creds_state
          token,            \* pin_uv_auth_token, with permission cm
          pc, left,         \* a running Reset, and the keys it has still to delete
          drawn,            \* ghost: ids used so far
          told, began,      \* ghosts: entries told since a cursor began; the entries,
                            \* and the number of Resets, when it began
          acked, refused,   \* ghosts: the last name acknowledged, those refused since
          resets, faults

vars == <<disk, credentials, cursors, token, pc, left, drawn, told, began, acked, refused,
          resets, faults>>
ghosts == <<told, began>>

Cursors == {"rps", "cm_rps", "cm_creds"}
EntriesOf(k) == IF k = "cm_creds" THEN Creds ELSE Rps
NoEntries == [set |-> {}, at |-> 0]
NoRecords == [c \in Creds |-> Absent]
Closed == [k \in Cursors |-> None]
Untold == [k \in Cursors |-> <<>>]
NotBegun == [k \in Cursors |-> NoEntries]
Resident == {c \in Creds : credentials[c] # Absent}

TypeOK ==
    /\ disk \in [Creds -> Names \cup {Absent}] /\ credentials \in [Creds -> Names \cup {Absent}]
    /\ \A k \in Cursors : cursors[k] # None =>
          /\ cursors[k].items \in Seq(EntriesOf(k))
          /\ cursors[k].current_index \in 0 .. Len(cursors[k].items) - 1
    /\ token \in BOOLEAN /\ pc \in {"idle", "clear", "off"} /\ left \subseteq Creds
    /\ drawn \in 0 .. MaxCreds /\ resets \in 0 .. MaxResets
    /\ faults \in 0 .. MaxFaults
    /\ \A k \in Cursors : told[k] \in Seq(EntriesOf(k))
    /\ acked \in [Creds -> Names \cup {Absent}] /\ refused \in [Creds -> SUBSET Names]

Init ==
    /\ disk = NoRecords /\ credentials = NoRecords /\ cursors = Closed
    /\ token = FALSE /\ pc = "idle" /\ left = {} /\ drawn = 0
    /\ told = Untold /\ began = NotBegun
    /\ acked = NoRecords /\ refused = [c \in Creds |-> {}] /\ resets = 0 /\ faults = 0

----------------------------------------------------------------------------
(* Enumerations *)

\* Values of a BTreeMap come in the order of its keys.
InOrder(ids) ==
    CHOOSE s \in [1 .. Cardinality(ids) -> ids] : \A i, j \in DOMAIN s : i < j => s[i] < s[j]

\* One entry for each relying party, at its first credential.
enumerate_rps ==
    LET firsts == {c \in Resident : \A d \in Resident : d < c => RpOf[d] # RpOf[c]}
        ids == InOrder(firsts)
    IN  [i \in 1 .. Len(ids) |-> RpOf[ids[i]]]

\* The credentials are copied into the cursor, of which their ids are kept here.
find_credentials_by_rp_hash(rp) ==
    InOrder({c \in Resident : RpOf[c] = rp})

\* The first entry is told at once; an empty list is an error and leaves the cursor
\* of an earlier enumeration as it is.
Begin(k, items) ==
    /\ pc = "idle" /\ items # <<>>
    /\ cursors' = [cursors EXCEPT ![k] = [items |-> items, current_index |-> 0]]
    /\ told' = [told EXCEPT ![k] = <<items[1]>>]
    /\ began' = [began EXCEPT ![k] = [set |-> Range(items), at |-> resets]]
    /\ UNCHANGED <<disk, credentials, token, pc, left, drawn, acked, refused, resets, faults>>

\* The index moves first; at the end the cursor goes, with NoCredentials.
GetNext(k) ==
    /\ pc = "idle" /\ cursors[k] # None
    /\ LET i == cursors[k].current_index + 1
       IN IF i >= Len(cursors[k].items)
          THEN /\ cursors' = [cursors EXCEPT ![k] = None]
               /\ told' = [told EXCEPT ![k] = <<>>] /\ began' = [began EXCEPT ![k] = NoEntries]
          ELSE /\ cursors' = [cursors EXCEPT ![k].current_index = i]
               /\ told' = [told EXCEPT ![k] = Append(@, cursors[k].items[i + 1])]
               /\ UNCHANGED began
    /\ UNCHANGED <<disk, credentials, token, pc, left, drawn, acked, refused, resets, faults>>

\* 0x3B and 0x3C ask for no token.
handle_enumerate_rps_initial == Begin("rps", enumerate_rps)
handle_enumerate_rps_next == GetNext("rps")

handle_cred_mgmt_enumerate_rps_begin == token /\ Begin("cm_rps", enumerate_rps)
handle_cred_mgmt_enumerate_rps_next == token /\ GetNext("cm_rps")
handle_cred_mgmt_enumerate_creds_begin(rp) ==
    token /\ Begin("cm_creds", find_credentials_by_rp_hash(rp))
handle_cred_mgmt_enumerate_creds_next == token /\ GetNext("cm_creds")

----------------------------------------------------------------------------
(* Commands that change credentials; a write or a deletion of the backend may fail *)

Fault == faults < MaxFaults /\ faults' = faults + 1

\* store_credential: the backend first, so that a failed write changes nothing.
make_credential ==
    /\ pc = "idle" /\ drawn < MaxCreds /\ drawn' = drawn + 1
    /\ disk' = [disk EXCEPT ![drawn'] = FirstName]
    /\ credentials' = [credentials EXCEPT ![drawn'] = FirstName]
    /\ acked' = [acked EXCEPT ![drawn'] = FirstName]
    /\ UNCHANGED <<cursors, token, pc, left, ghosts, refused, resets, faults>>

\* update_sign_count writes the whole record, as RAM has it.
get_assertion(c) ==
    /\ pc = "idle" /\ c \in Resident
    /\ disk' = [disk EXCEPT ![c] = credentials[c]]
    /\ UNCHANGED <<credentials, cursors, token, pc, left, drawn, ghosts, acked, refused, resets, faults>>

\* delete_credential: RAM first; an error of the backend becomes NoCredentials.
handle_cred_mgmt_delete_credential(c) ==
    /\ pc = "idle" /\ token /\ c \in Resident
    /\ credentials' = [credentials EXCEPT ![c] = Absent]
    /\ \/ disk' = [disk EXCEPT ![c] = Absent] /\ UNCHANGED faults
       \/ Fault /\ UNCHANGED disk
    /\ UNCHANGED <<cursors, token, pc, left, drawn, ghosts, acked, refused, resets>>

\* update_user_info: RAM first too, so that a refused name stays in RAM, and the next
\* write of the record makes it last.
handle_cred_mgmt_update_user_mutant(c, name) ==
    /\ pc = "idle" /\ token /\ c \in Resident
    /\ credentials' = [credentials EXCEPT ![c] = name]
    /\ acked' = [acked EXCEPT ![c] = name] /\ refused' = [refused EXCEPT ![c] = {}]
    /\ \/ disk' = [disk EXCEPT ![c] = name] /\ UNCHANGED faults
       \/ Fault /\ UNCHANGED disk
    /\ UNCHANGED <<cursors, token, pc, left, drawn, ghosts, resets>>
handle_cred_mgmt_update_user(c, name) ==
    /\ pc = "idle" /\ token /\ c \in Resident
    /\ credentials' = [credentials EXCEPT ![c] = name]
    /\ \/ /\ disk' = [disk EXCEPT ![c] = name]
          /\ acked' = [acked EXCEPT ![c] = name] /\ refused' = [refused EXCEPT ![c] = {}]
          /\ UNCHANGED faults
       \/ /\ Fault /\ refused' = [refused EXCEPT ![c] = @ \cup {name}]
          /\ UNCHANGED <<disk, acked>>
    /\ UNCHANGED <<cursors, token, pc, left, drawn, ghosts, resets>>

\* A token of permission cm, issued by ClientPIN.
IssueToken ==
    /\ pc = "idle" /\ ~token /\ token' = TRUE
    /\ UNCHANGED <<disk, credentials, cursors, pc, left, drawn, ghosts, acked, refused, resets, faults>>

----------------------------------------------------------------------------
(* Reset and loss of power *)

\* The records go one by one, an error is dropped, ...
handle_reset ==
    /\ pc = "idle" /\ resets < MaxResets
    /\ pc' = "clear" /\ left' = {c \in Creds : disk[c] # Absent}
    /\ UNCHANGED <<disk, credentials, cursors, token, drawn, ghosts, acked, refused, resets, faults>>

ClearKey(c) ==
    /\ pc = "clear" /\ c \in left /\ left' = left \ {c}
    /\ \/ disk' = [disk EXCEPT ![c] = Absent] /\ UNCHANGED faults
       \/ Fault /\ UNCHANGED disk
    /\ UNCHANGED <<credentials, cursors, token, pc, drawn, ghosts, acked, refused, resets>>

\* ... then RAM, the cursors and the token.
FinishReset_mutant ==
    /\ pc = "clear" /\ left = {}
    /\ pc' = "idle" /\ resets' = resets + 1
    /\ credentials' = NoRecords /\ token' = FALSE
    /\ cursors' = [Closed EXCEPT !["cm_creds"] = cursors["cm_creds"]]
    /\ UNCHANGED <<disk, left, drawn, ghosts, acked, refused, faults>>
FinishReset ==
    /\ pc = "clear" /\ left = {}
    /\ pc' = "idle" /\ resets' = resets + 1
    /\ credentials' = NoRecords /\ cursors' = Closed /\ token' = FALSE
    /\ told' = Untold /\ began' = NotBegun
    /\ UNCHANGED <<disk, left, drawn, acked, refused, faults>>

PowerLoss ==
    /\ pc # "off" /\ pc' = "off" /\ left' = {}
    /\ credentials' = NoRecords /\ cursors' = Closed /\ token' = FALSE
    /\ told' = Untold /\ began' = NotBegun
    /\ UNCHANGED <<disk, drawn, acked, refused, resets, faults>>

load_from_backend ==
    /\ pc = "off" /\ pc' = "idle" /\ credentials' = disk
    /\ UNCHANGED <<disk, cursors, token, left, drawn, ghosts, acked, refused, resets, faults>>

----------------------------------------------------------------------------
handle_credential_management ==
    \/ handle_cred_mgmt_enumerate_rps_begin \/ handle_cred_mgmt_enumerate_rps_next
    \/ \E rp \in Rps : handle_cred_mgmt_enumerate_creds_begin(rp)
    \/ handle_cred_mgmt_enumerate_creds_next
    \/ \E c \in Creds : \/ handle_cred_mgmt_delete_credential(c)
                        \/ \E name \in Names : handle_cred_mgmt_update_user(c, name)

Next ==
    \/ handle_enumerate_rps_initial \/ handle_enumerate_rps_next
    \/ handle_credential_management
    \/ make_credential
    \/ \E c \in Creds : get_assertion(c) \/ ClearKey(c)
    \/ IssueToken \/ handle_reset \/ FinishReset \/ PowerLoss \/ load_from_backend

Spec == Init /\ [][Next]_vars

----------------------------------------------------------------------------
\* An enumeration that ends by itself has told every entry it began with, once, no
\* matter which other enumerations, deletions and renamings ran in between.
EndsComplete ==
    \A k \in Cursors : cursors[k] # None /\ cursors'[k] = None /\ pc = "idle" /\ pc' = "idle"
                          => /\ Range(told[k]) = began[k].set
                             /\ IsInjective(told[k])

\* No cursor outlives a Reset: nothing erased by it is told after it (handle_reset).
CursorOfThisLife == \A k \in Cursors : cursors[k] # None => began[k].at = resets

\* A credential has the name last acknowledged for it, or one that was refused after
\* that, in RAM and after a restart: no acknowledged renaming is lost
\* (update_user_info changes RAM before the write that may fail).
AckedNameKept ==
    \A c \in Creds : /\ disk[c] # Absent => disk[c] \in {acked[c]} \cup refused[c]
                     /\ credentials[c] # Absent => credentials[c] \in {acked[c]} \cup refused[c]
=============================================================================
