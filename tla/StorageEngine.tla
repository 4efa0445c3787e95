---------------------------- MODULE StorageEngine ----------------------------
(***************************************************************************)
(* StorageEngine: the credentials and the key-value store in RAM over a    *)
(* StorageBackend, with the commands that drive it (MakeCredential,        *)
(* GetAssertion's counters, deleteCredential, Reset).                      *)
(*                                                                         *)
(* A backend call is atomic (AtomicStore) but may fail, and the power may  *)
(* go between two of them: commands that make several are cut into steps.  *)
(* Credentials are reduced to their signature counter.                     *)
(***************************************************************************)
EXTENDS Naturals, FiniteSets

CONSTANTS Creds,            \* credential ids, each drawn at most once
          Absent,           \* no record under a key
          MaxCredentials,   \* max_credential_count
          WriteFaults, DeleteFaults, ReadFaults,    \* backend calls that may fail
          SortedKeys,       \* list_keys in order (flash) or in any order (file)
          MaxSignCount      \* bound on the signature counter

\* client_pin_* (for every plain record) and global_sign_count.
KvKeys == {"pin", "counter"}
ConstantsOK ==
    /\ IsFiniteSet(Creds) /\ Absent \notin Nat /\ MaxCredentials \in Nat \ {0} /\ MaxSignCount \in Nat
    /\ {WriteFaults, DeleteFaults, ReadFaults, SortedKeys} \subseteq BOOLEAN
    /\ Creds \cap KvKeys = {}
StoredKeys == Creds \cup KvKeys

Record == Nat \cup {Absent}

VARIABLES disk,             \* what the backend holds
          credentials,      \* the index in RAM: the counter of each credential
          kv_store,         \* the key-value store
          pc, req,          \* the running command
          created,          \* ghost: creation order, 0 if not yet
          reported,         \* ghost: last counter a relying party saw
          deleted, reset    \* ghosts: credentials erased by a completed
                            \* deleteCredential, by a completed Reset

ram == <<credentials, kv_store>>
ghosts == <<created, reported, deleted, reset>>
vars == <<disk, ram, pc, req, ghosts>>

NoRecords(K) == [k \in K |-> Absent]
Idle == [kind |-> "none"]
Requests ==
    {Idle} \cup [kind : {"make"}, id : Creds]
           \cup [kind : {"assert"}, id : Creds, count : Nat]
           \cup [kind : {"clear"}, left : SUBSET StoredKeys]

TypeOK ==
    /\ disk \in [StoredKeys -> Record] /\ credentials \in [Creds -> Record]
    /\ kv_store \in [KvKeys -> Record]
    /\ pc \in {"idle", "off", "write", "update", "clear"} /\ req \in Requests
    /\ created \in [Creds -> Nat] /\ reported \in [Creds -> Nat]
    /\ deleted \subseteq Creds /\ reset \subseteq Creds

Init ==
    /\ disk = NoRecords(StoredKeys) /\ credentials = NoRecords(Creds)
    /\ kv_store = NoRecords(KvKeys)
    /\ pc = "idle" /\ req = Idle
    /\ created = [c \in Creds |-> 0] /\ reported = [c \in Creds |-> 0]
    /\ deleted = {} /\ reset = {}

Done == pc' = "idle" /\ req' = Idle

\* StorageBackend::write and ::delete, which change one record or return Err.
Written(k, v) == disk' = [disk EXCEPT ![k] = v]
Removed(k) == disk' = [disk EXCEPT ![k] = Absent]
WriteFailed == WriteFaults /\ UNCHANGED disk
DeleteFailed == DeleteFaults /\ UNCHANGED disk

Resident == {c \in Creds : credentials[c] # Absent}

----------------------------------------------------------------------------
(* The key-value store *)

\* store: the backend first, then RAM.
store(k, v) == Written(k, v) /\ kv_store' = [kv_store EXCEPT ![k] = v]
StoreFailed == WriteFailed /\ UNCHANGED kv_store

\* retrieve: the backend first; RAM answers for a record the backend lacks.
retrieve(k) == IF disk[k] # Absent THEN disk[k] ELSE kv_store[k]

Store(k) ==
    /\ pc = "idle" /\ (store(k, 1) \/ StoreFailed)
    /\ UNCHANGED <<credentials, pc, req, ghosts>>

\* delete: the backend's error is dropped.
Delete(k) ==
    /\ pc = "idle" /\ (Removed(k) \/ DeleteFailed)
    /\ kv_store' = [kv_store EXCEPT ![k] = Absent]
    /\ UNCHANGED <<credentials, pc, req, ghosts>>

----------------------------------------------------------------------------
(* MakeCredential: store_credential *)

\* delete_credential: RAM first, then the backend, whose error is returned.
delete_credential(c, ok) ==
    /\ credentials' = [credentials EXCEPT ![c] = Absent]
    /\ IF ok THEN Removed(c) ELSE DeleteFailed
    /\ UNCHANGED kv_store

prune_oldest_credential(c, ok) ==
    /\ c \in Resident /\ \A d \in Resident : created[c] <= created[d]
    /\ delete_credential(c, ok)

\* A fresh id; at the limit the oldest credential goes first, and an error there
\* ends the command.
AtLimit == Cardinality(Resident) >= MaxCredentials

store_credential(id) ==
    /\ pc = "idle" /\ created[id] = 0
    /\ created' = [created EXCEPT ![id] = 1 + Cardinality({c \in Creds : created[c] # 0})]
    /\ \/ /\ ~AtLimit
          /\ pc' = "write" /\ req' = [kind |-> "make", id |-> id]
          /\ UNCHANGED <<disk, ram>>
       \/ /\ AtLimit
          /\ \E c \in Creds, ok \in BOOLEAN :
                /\ prune_oldest_credential(c, ok)
                /\ IF ok
                   THEN pc' = "write" /\ req' = [kind |-> "make", id |-> id]
                   ELSE UNCHANGED <<pc, req>>
    /\ UNCHANGED <<reported, deleted, reset>>

WriteCredential ==
    /\ pc = "write"
    /\ \/ Written(req.id, 0) /\ credentials' = [credentials EXCEPT ![req.id] = 0]
       \/ WriteFailed /\ UNCHANGED credentials
    /\ Done
    /\ UNCHANGED <<kv_store, ghosts>>

----------------------------------------------------------------------------
(* GetAssertion: next_sign_count, then update_sign_count *)

\* A record that is missing, unreadable or whose read failed counts as 0.
CurrentSignCount ==
    {IF retrieve("counter") = Absent THEN 0 ELSE retrieve("counter")}
    \cup (IF ReadFaults THEN {0} ELSE {})

next_sign_count(c) ==
    /\ pc = "idle" /\ c \in Resident
    /\ \E current \in CurrentSignCount :
          /\ current < MaxSignCount
          /\ \/ /\ store("counter", current + 1)
                /\ pc' = "update"
                /\ req' = [kind |-> "assert", id |-> c, count |-> current + 1]
             \/ StoreFailed /\ UNCHANGED <<pc, req>>
    /\ UNCHANGED <<credentials, ghosts>>

\* RAM first, then the backend; only then is the assertion returned.
update_sign_count ==
    /\ pc = "update"
    /\ credentials' = [credentials EXCEPT ![req.id] = req.count]
    /\ \/ Written(req.id, req.count) /\ reported' = [reported EXCEPT ![req.id] = req.count]
       \/ WriteFailed /\ UNCHANGED reported
    /\ Done
    /\ UNCHANGED <<kv_store, created, deleted, reset>>

----------------------------------------------------------------------------
(* deleteCredential of credential management, and Reset *)

handle_cred_mgmt_delete_credential_mutant(c) ==
    /\ pc = "idle" /\ c \in Resident
    /\ \E ok \in BOOLEAN : delete_credential(c, ok) /\ deleted' = deleted \cup {c}
    /\ UNCHANGED <<pc, req, created, reported, reset>>
handle_cred_mgmt_delete_credential(c) ==
    /\ pc = "idle" /\ c \in Resident
    /\ \E ok \in BOOLEAN :
          /\ delete_credential(c, ok)
          /\ deleted' = IF ok THEN deleted \cup {c} ELSE deleted
    /\ UNCHANGED <<pc, req, created, reported, reset>>

\* clear: the keys are listed once (none, if that fails) ...
clear ==
    /\ pc = "idle"
    /\ pc' = "clear"
    /\ \/ req' = [kind |-> "clear", left |-> {k \in StoredKeys : disk[k] # Absent}]
       \/ ReadFaults /\ req' = [kind |-> "clear", left |-> {}]
    /\ UNCHANGED <<disk, ram, ghosts>>

\* client_pin_* < cred:* < global_sign_count
Rank(k) == CASE k = "pin" -> 1 [] k \in Creds -> 2 [] k = "counter" -> 3

\* ... and deleted one by one, errors dropped ...
ClearKey(k) ==
    /\ pc = "clear" /\ k \in req.left
    /\ SortedKeys => \A other \in req.left : Rank(k) <= Rank(other)
    /\ req' = [req EXCEPT !.left = @ \ {k}]
    /\ Removed(k) \/ DeleteFailed
    /\ UNCHANGED <<ram, pc, ghosts>>

\* ... and only then RAM is emptied.
FinishClear ==
    /\ pc = "clear" /\ req.left = {}
    /\ reset' = reset \cup Resident
    /\ credentials' = NoRecords(Creds)
    /\ kv_store' = NoRecords(KvKeys)
    /\ Done
    /\ UNCHANGED <<disk, created, reported, deleted>>

----------------------------------------------------------------------------
PowerLoss ==
    /\ pc # "off"
    /\ pc' = "off" /\ req' = Idle
    /\ credentials' = NoRecords(Creds)
    /\ kv_store' = NoRecords(KvKeys)
    /\ UNCHANGED <<disk, ghosts>>

\* with_backend: load_from_backend stops at the first read error, which is only
\* logged; the key-value store starts empty.
load_from_backend ==
    /\ pc = "off"
    /\ \E loaded \in SUBSET Creds :
          /\ ~ReadFaults => loaded = Creds
          /\ credentials' = [c \in Creds |-> IF c \in loaded THEN disk[c] ELSE Absent]
    /\ Done
    /\ UNCHANGED <<disk, kv_store, ghosts>>

Commands ==
    \/ Store("pin") \/ Delete("pin")
    \/ \E c \in Creds : \/ store_credential(c) \/ next_sign_count(c)
                        \/ handle_cred_mgmt_delete_credential(c)
    \/ clear

Steps == \/ WriteCredential \/ update_sign_count
         \/ \E k \in StoredKeys : ClearKey(k)
         \/ FinishClear

Next == Commands \/ Steps \/ PowerLoss \/ load_from_backend

Spec == Init /\ [][Next]_vars

----------------------------------------------------------------------------
\* Whatever fails, a credential the engine answers for, and a value its key-value
\* store would answer with, is one that a restart brings back: nothing is
\* acknowledged from RAM alone (store, store_credential, retrieve's fallback).
NothingOnlyInRam ==
    /\ \A c \in Resident : pc # "clear" => disk[c] # Absent
    /\ \A k \in KvKeys : pc # "clear" /\ kv_store[k] # Absent
                            => disk[k] = kv_store[k]

\* The counter an assertion is about to carry is above every one a relying party
\* has seen for the credential, over failed writes, losses of power and interrupted
\* Resets (next_sign_count: "garantindo valores estritamente crescentes entre
\* assercoes sucessivas").
SignCountGrows == pc = "update" => req.count > reported[req.id]

\* A credential whose deletion was acknowledged never comes back, not even at a
\* restart after deletions that failed (delete_credential).
DeletionIsFinal == \A c \in deleted : disk[c] = Absent /\ credentials[c] = Absent

\* A credential erased by a Reset that returned never comes back (clear: "para que
\* um reinicio nao ressuscite credenciais, PIN ou large blobs ja apagados").
ResetIsFinal == \A c \in reset : credentials[c] = Absent

\* Neither RAM nor the backend ever holds more credentials than the limit, pruning
\* and creating being two writes (set_max_credential_count).
LimitHolds == Cardinality({c \in Creds : disk[c] # Absent}) <= MaxCredentials
=============================================================================
