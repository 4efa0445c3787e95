------------------------ MODULE StorageEngineProofs ------------------------
(***************************************************************************)
(* Proofs about StorageEngine for any set of credentials, any limit and    *)
(* any backend.  What holds whatever call fails rests on RAM never being   *)
(* ahead of the backend and on ids being drawn once; what holds over a     *)
(* backend whose deletions and reads do not fail rests on RAM and backend  *)
(* holding the same credentials, and on Reset erasing the counter last.    *)
(***************************************************************************)
EXTENDS StorageEngine, FiniteSetTheorems, TLAPS

\* The running command has the request of its kind.
RequestOfStep ==
    /\ pc = "write" => req \in [kind : {"make"}, id : Creds]
    /\ pc = "update" => req \in [kind : {"assert"}, id : Creds, count : Nat]
    /\ pc = "clear" => req \in [kind : {"clear"}, left : SUBSET StoredKeys]

\* Every id was drawn before anything was done under it, and the one being written is new.
DrawnOnce ==
    /\ \A c \in Creds : created[c] = 0 =>
          /\ disk[c] = Absent /\ credentials[c] = Absent
          /\ c \notin deleted /\ c \notin reset /\ reported[c] = 0
    /\ pc = "write" => /\ created[req.id] # 0 /\ reported[req.id] = 0
                       /\ req.id \notin deleted /\ req.id \notin reset
    /\ pc = "update" => disk[req.id] # Absent /\ credentials[req.id] # Absent

\* Whatever fails.
EngineInv == TypeOK /\ RequestOfStep /\ DrawnOnce /\ NothingOnlyInRam /\ DeletionIsFinal

OnDisk == {c \in Creds : disk[c] # Absent}
SignCount == IF disk["counter"] = Absent THEN 0 ELSE disk["counter"]

\* Outside of a Reset RAM and backend hold the same credentials.
SameCredentials ==
    pc \in {"idle", "write", "update"} =>
        \A c \in Creds : credentials[c] = Absent <=> disk[c] = Absent

\* What a Reset has not erased yet is on its list.
ErasureListed == pc = "clear" => \A k \in StoredKeys : disk[k] # Absent => k \in req.left

ErasedStays == \A c \in reset : disk[c] = Absent /\ credentials[c] = Absent

\* A credential about to be written has room.
RoomToWrite == pc = "write" => Cardinality(OnDisk) < MaxCredentials

\* The stored counter is not below any count seen for a credential that is still there.
CountersBelow ==
    /\ \A c \in Creds : disk[c] # Absent => reported[c] <= SignCount
    /\ pc = "update" => req.count = SignCount /\ req.count > reported[req.id]

\* Over a backend whose deletions and reads do not fail and that lists keys in order.
SoundBackend == DeleteFaults = FALSE /\ ReadFaults = FALSE /\ SortedKeys = TRUE
SoundInv ==
    /\ EngineInv /\ SameCredentials /\ ErasureListed /\ ErasedStays
    /\ LimitHolds /\ RoomToWrite /\ CountersBelow

----------------------------------------------------------------------------
(* Whatever fails *)

LEMMA Drawn ==
  ASSUME ConstantsOK, NEW S \in SUBSET Creds
  PROVE  IsFiniteSet(S) /\ Cardinality(S) \in Nat
<1>1. IsFiniteSet(S)
  BY FS_Subset DEF ConstantsOK
<1> QED
  BY <1>1, FS_CardinalityType

LEMMA EngineInit == ConstantsOK /\ Init => EngineInv
<1> SUFFICES ASSUME ConstantsOK, Init PROVE EngineInv
  OBVIOUS
<1> USE DEF Init, NoRecords
<1>1. TypeOK
  BY DEF TypeOK, Record, Requests, Idle
<1>2. RequestOfStep /\ DrawnOnce
  BY DEF RequestOfStep, DrawnOnce, StoredKeys
<1>3. NothingOnlyInRam /\ DeletionIsFinal
  BY DEF NothingOnlyInRam, DeletionIsFinal, Resident
<1> QED
  BY <1>1, <1>2, <1>3 DEF EngineInv

\* Commands that touch records of the key-value store and no credential.
LEMMA EngineStores ==
  ASSUME ConstantsOK, EngineInv, Store("pin") \/ Delete("pin")
  PROVE  EngineInv'
<1> USE DEF ConstantsOK, EngineInv
<1>1. /\ pc = "idle" /\ UNCHANGED <<credentials, pc, req, created, reported, deleted, reset>>
  BY DEF Store, Delete, ghosts
<1>2. /\ disk' \in [StoredKeys -> Record] /\ kv_store' \in [KvKeys -> Record]
      /\ \A k \in StoredKeys \ {"pin"} : disk'[k] = disk[k]
      /\ kv_store'["counter"] = kv_store["counter"]
      /\ kv_store'["pin"] = Absent \/ kv_store'["pin"] = disk'["pin"]
  <2>1. "pin" \in KvKeys /\ "pin" \in StoredKeys /\ "counter" \in KvKeys
    BY DEF KvKeys, StoredKeys
  <2>2. CASE Store("pin")
    BY <2>1, <2>2
    DEF Store, store, Written, StoreFailed, WriteFailed, TypeOK, Record, NothingOnlyInRam
  <2>3. CASE Delete("pin")
    BY <2>1, <2>3 DEF Delete, Removed, DeleteFailed, TypeOK, Record
  <2> QED  BY <2>2, <2>3
<1>3. \A c \in Creds : disk'[c] = disk[c]
  BY <1>2 DEF KvKeys, StoredKeys
<1>4. TypeOK'
  BY <1>1, <1>2 DEF TypeOK
<1>5. RequestOfStep' /\ DrawnOnce'
  BY <1>1, <1>3 DEF RequestOfStep, DrawnOnce
<1>6. NothingOnlyInRam'
  BY <1>1, <1>2, <1>3 DEF NothingOnlyInRam, Resident, KvKeys, StoredKeys
<1>7. DeletionIsFinal'
  BY <1>1, <1>3 DEF DeletionIsFinal, TypeOK
<1> QED
  BY <1>4, <1>5, <1>6, <1>7 DEF EngineInv

\* delete_credential leaves RAM without the credential, and the backend too if it could.
LEMMA Deletes ==
  ASSUME ConstantsOK, TypeOK, NEW c \in Creds, NEW ok \in BOOLEAN, delete_credential(c, ok)
  PROVE  /\ disk' \in [StoredKeys -> Record] /\ credentials' \in [Creds -> Record]
         /\ credentials'[c] = Absent /\ (ok => disk'[c] = Absent) /\ UNCHANGED kv_store
         /\ \A d \in Creds \ {c} : credentials'[d] = credentials[d]
         /\ \A k \in StoredKeys \ {c} : disk'[k] = disk[k]
         /\ disk'[c] \in {disk[c], Absent}
         /\ ~ok => DeleteFaults
<1>1. c \in StoredKeys
  BY DEF StoredKeys
<1> QED
  BY <1>1 DEF delete_credential, Removed, DeleteFailed, TypeOK, Record

LEMMA EngineCreates ==
  ASSUME ConstantsOK, EngineInv, NEW id \in Creds, store_credential(id)
  PROVE  EngineInv'
<1> USE DEF EngineInv
<1> DEFINE n == 1 + Cardinality({c \in Creds : created[c] # 0})
<1>1. /\ pc = "idle" /\ created[id] = 0 /\ created' = [created EXCEPT ![id] = n]
      /\ UNCHANGED <<reported, deleted, reset, kv_store>>
  BY DEF store_credential, ram, prune_oldest_credential, delete_credential
<1>2. n \in Nat /\ n # 0
  BY Drawn
<1> HIDE DEF n
<1>3. created' \in [Creds -> Nat] /\ created'[id] # 0
      /\ \A c \in Creds : created'[c] = 0 => created[c] = 0
  BY <1>1, <1>2 DEF TypeOK
<1>4. \/ pc' = "write" /\ req' = [kind |-> "make", id |-> id]
      \/ UNCHANGED <<pc, req>>
  BY DEF store_credential
<1> DEFINE Shrunk ==
             /\ disk' \in [StoredKeys -> Record] /\ credentials' \in [Creds -> Record]
             /\ \A c \in Creds : /\ disk'[c] \in {disk[c], Absent}
                                 /\ \/ credentials'[c] = Absent
                                    \/ credentials'[c] = credentials[c] /\ disk'[c] = disk[c]
             /\ \A k \in KvKeys : disk'[k] = disk[k]
<1>5. Shrunk
  <2>1. CASE UNCHANGED <<disk, ram>>
    BY <2>1 DEF ram, TypeOK
  <2>2. ASSUME NEW c \in Creds, NEW ok \in BOOLEAN, delete_credential(c, ok) PROVE Shrunk
    BY <2>2, Deletes DEF ConstantsOK, StoredKeys
  <2> QED  BY <2>1, <2>2 DEF store_credential, prune_oldest_credential
<1>6. TypeOK'
  <2>1. req' \in Requests /\ pc' \in {"idle", "write"}
    BY <1>1, <1>4 DEF TypeOK, Requests
  <2> QED  BY <1>1, <1>3, <1>5, <2>1 DEF TypeOK
<1>7. RequestOfStep'
  BY <1>1, <1>4 DEF RequestOfStep
<1>8. DrawnOnce'
  BY <1>1, <1>3, <1>4, <1>5 DEF DrawnOnce
<1>9. NothingOnlyInRam'
  BY <1>1, <1>4, <1>5 DEF NothingOnlyInRam, Resident
<1>10. DeletionIsFinal'
  BY <1>1, <1>5 DEF DeletionIsFinal, TypeOK
<1> QED
  BY <1>6, <1>7, <1>8, <1>9, <1>10 DEF EngineInv

LEMMA EngineWrites ==
  ASSUME ConstantsOK, EngineInv, WriteCredential
  PROVE  EngineInv'
<1> USE DEF EngineInv
<1>1. /\ pc = "write" /\ pc' = "idle" /\ req' = Idle
      /\ UNCHANGED <<kv_store, created, reported, deleted, reset>>
  BY DEF WriteCredential, Done, ghosts
<1>2. PICK id \in Creds : /\ id = req.id /\ created[id] # 0 /\ reported[id] = 0
                          /\ id \notin deleted /\ id \in StoredKeys /\ id \notin KvKeys
  BY <1>1 DEF RequestOfStep, DrawnOnce, StoredKeys, ConstantsOK
<1>3. \/ UNCHANGED <<disk, credentials>>
      \/ disk' = [disk EXCEPT ![id] = 0] /\ credentials' = [credentials EXCEPT ![id] = 0]
  BY <1>2 DEF WriteCredential, Written, WriteFailed
<1>4. TypeOK'
  BY <1>1, <1>2, <1>3 DEF TypeOK, Record, Requests
<1>5. RequestOfStep'
  BY <1>1 DEF RequestOfStep
<1>6. DrawnOnce'
  BY <1>1, <1>2, <1>3 DEF DrawnOnce, TypeOK, StoredKeys
<1>7. NothingOnlyInRam'
  BY <1>1, <1>2, <1>3 DEF NothingOnlyInRam, Resident, TypeOK, ConstantsOK, StoredKeys
<1>8. DeletionIsFinal'
  BY <1>1, <1>2, <1>3 DEF DeletionIsFinal, TypeOK, StoredKeys
<1> QED
  BY <1>4, <1>5, <1>6, <1>7, <1>8 DEF EngineInv

\* A current count is a number: retrieve answers from the backend or, alike, from RAM.
LEMMA CurrentIsCount ==
  ASSUME TypeOK, NEW n \in CurrentSignCount
  PROVE  n \in Nat
<1>1. "counter" \in StoredKeys /\ "counter" \in KvKeys
  BY DEF StoredKeys, KvKeys
<1>2. retrieve("counter") \in Record
  BY <1>1 DEF retrieve, TypeOK
<1> HIDE DEF retrieve
<1> QED
  BY <1>2 DEF CurrentSignCount, Record

LEMMA EngineCounts ==
  ASSUME ConstantsOK, EngineInv, NEW c \in Creds, next_sign_count(c)
  PROVE  EngineInv'
<1> USE DEF EngineInv
<1>1. PICK n \in CurrentSignCount :
          \/ /\ store("counter", n + 1) /\ pc' = "update"
             /\ req' = [kind |-> "assert", id |-> c, count |-> n + 1]
          \/ StoreFailed /\ UNCHANGED <<pc, req>>
  BY DEF next_sign_count
<1>2. n \in Nat /\ n + 1 \in Nat /\ n + 1 # Absent
  BY CurrentIsCount, <1>1 DEF ConstantsOK
<1>3. /\ pc = "idle" /\ credentials[c] # Absent
      /\ UNCHANGED <<credentials, created, reported, deleted, reset>>
  BY DEF next_sign_count, ghosts, Resident
<1>4. CASE StoreFailed /\ UNCHANGED <<pc, req>>
  <2>1. UNCHANGED vars
    BY <1>3, <1>4 DEF StoreFailed, WriteFailed, vars, ram, ghosts
  <2> QED
    BY <2>1 DEF vars, ram, ghosts, EngineInv, TypeOK, RequestOfStep, DrawnOnce,
                NothingOnlyInRam, DeletionIsFinal, Resident
<1>5. CASE /\ store("counter", n + 1) /\ pc' = "update"
           /\ req' = [kind |-> "assert", id |-> c, count |-> n + 1]
  <2>1. /\ disk' = [disk EXCEPT !["counter"] = n + 1]
        /\ kv_store' = [kv_store EXCEPT !["counter"] = n + 1]
        /\ "counter" \in StoredKeys /\ "counter" \in KvKeys
    BY <1>5 DEF store, Written, StoredKeys, KvKeys
  <2>2. /\ disk' \in [StoredKeys -> Record] /\ kv_store' \in [KvKeys -> Record]
        /\ \A k \in StoredKeys \ {"counter"} : disk'[k] = disk[k]
        /\ \A k \in KvKeys \ {"counter"} : kv_store'[k] = kv_store[k]
        /\ disk'["counter"] = kv_store'["counter"]
    BY <2>1, <1>2 DEF TypeOK, Record
  <2>3. \A d \in Creds : disk'[d] = disk[d]
    BY <2>2 DEF ConstantsOK, StoredKeys, KvKeys
  <2>4. req' \in [kind : {"assert"}, id : Creds, count : Nat] /\ req'.id = c
    BY <1>5, <1>2
  <2>5. TypeOK'
    BY <1>3, <1>5, <2>2, <2>4 DEF TypeOK, Requests
  <2>6. RequestOfStep'
    BY <1>5, <2>4 DEF RequestOfStep
  <2>7. disk[c] # Absent
    BY <1>3 DEF NothingOnlyInRam, Resident
  <2>8. DrawnOnce'
    BY <1>3, <1>5, <2>3, <2>4, <2>7 DEF DrawnOnce
  <2>9. NothingOnlyInRam'
    BY <1>3, <1>5, <2>2, <2>3 DEF NothingOnlyInRam, Resident, StoredKeys
  <2>10. DeletionIsFinal'
    BY <1>3, <2>3 DEF DeletionIsFinal, TypeOK
  <2> QED  BY <2>5, <2>6, <2>8, <2>9, <2>10 DEF EngineInv
<1> QED
  BY <1>1, <1>4, <1>5

LEMMA EngineUpdates ==
  ASSUME ConstantsOK, EngineInv, update_sign_count
  PROVE  EngineInv'
<1> USE DEF EngineInv
<1>1. /\ pc = "update" /\ pc' = "idle" /\ req' = Idle
      /\ UNCHANGED <<kv_store, created, deleted, reset>>
  BY DEF update_sign_count, Done
<1>2. PICK id \in Creds, n \in Nat :
          /\ id = req.id /\ n = req.count /\ n # Absent /\ id \in StoredKeys /\ id \notin KvKeys
          /\ disk[id] # Absent /\ credentials[id] # Absent
  BY <1>1 DEF RequestOfStep, DrawnOnce, StoredKeys, ConstantsOK
<1>3. /\ credentials' = [credentials EXCEPT ![id] = n]
      /\ disk' \in {disk, [disk EXCEPT ![id] = n]}
      /\ reported' \in {reported, [reported EXCEPT ![id] = n]}
  BY <1>2 DEF update_sign_count, Written, WriteFailed
<1>4. /\ disk' \in [StoredKeys -> Record] /\ credentials' \in [Creds -> Record]
      /\ reported' \in [Creds -> Nat]
      /\ disk'[id] # Absent /\ credentials'[id] # Absent
      /\ \A k \in StoredKeys \ {id} : disk'[k] = disk[k]
      /\ \A c \in Creds \ {id} : credentials'[c] = credentials[c] /\ reported'[c] = reported[c]
  BY <1>2, <1>3 DEF TypeOK, Record
<1>5. created[id] # 0 /\ id \notin deleted
  BY <1>2 DEF DrawnOnce, DeletionIsFinal
<1>6. TypeOK'
  BY <1>1, <1>4 DEF TypeOK, Requests
<1>7. RequestOfStep'
  BY <1>1 DEF RequestOfStep
<1>8. DrawnOnce'
  BY <1>1, <1>4, <1>5 DEF DrawnOnce, StoredKeys
<1>9. NothingOnlyInRam'
  BY <1>1, <1>2, <1>4 DEF NothingOnlyInRam, Resident, StoredKeys
<1>10. DeletionIsFinal'
  BY <1>1, <1>4, <1>5 DEF DeletionIsFinal, TypeOK, StoredKeys
<1> QED
  BY <1>6, <1>7, <1>8, <1>9, <1>10 DEF EngineInv

LEMMA EngineDeletes ==
  ASSUME ConstantsOK, EngineInv, NEW c \in Creds, handle_cred_mgmt_delete_credential(c)
  PROVE  EngineInv'
<1> USE DEF EngineInv
<1>1. PICK ok \in BOOLEAN : /\ delete_credential(c, ok)
                            /\ deleted' = IF ok THEN deleted \cup {c} ELSE deleted
  BY DEF handle_cred_mgmt_delete_credential
<1>2. /\ pc = "idle" /\ credentials[c] # Absent
      /\ UNCHANGED <<pc, req, created, reported, reset>>
  BY DEF handle_cred_mgmt_delete_credential, Resident
<1>3. /\ disk' \in [StoredKeys -> Record] /\ credentials' \in [Creds -> Record]
      /\ credentials'[c] = Absent /\ (ok => disk'[c] = Absent) /\ UNCHANGED kv_store
      /\ \A d \in Creds \ {c} : credentials'[d] = credentials[d]
      /\ \A k \in StoredKeys \ {c} : disk'[k] = disk[k]
      /\ disk'[c] \in {disk[c], Absent}
  BY <1>1, Deletes
<1>4. c \in StoredKeys /\ c \notin KvKeys
  BY DEF StoredKeys, ConstantsOK
<1>5. TypeOK'
  BY <1>1, <1>2, <1>3 DEF TypeOK
<1>6. RequestOfStep'
  BY <1>2 DEF RequestOfStep
<1>7. DrawnOnce'
  BY <1>1, <1>2, <1>3, <1>4 DEF DrawnOnce, StoredKeys
<1>8. NothingOnlyInRam'
  BY <1>2, <1>3, <1>4 DEF NothingOnlyInRam, Resident, StoredKeys
<1>9. DeletionIsFinal'
  BY <1>1, <1>2, <1>3, <1>4 DEF DeletionIsFinal, TypeOK, StoredKeys
<1> QED
  BY <1>5, <1>6, <1>7, <1>8, <1>9 DEF EngineInv

\* Reset, from listing the keys to emptying RAM.
LEMMA EngineResets ==
  ASSUME ConstantsOK, EngineInv, clear \/ (\E k \in StoredKeys : ClearKey(k)) \/ FinishClear
  PROVE  EngineInv'
<1> USE DEF EngineInv
<1>1. CASE clear
  <2>1. /\ pc = "idle" /\ pc' = "clear" /\ req' \in [kind : {"clear"}, left : SUBSET StoredKeys]
        /\ UNCHANGED <<disk, credentials, kv_store, created, reported, deleted, reset>>
    BY <1>1 DEF clear, ram, ghosts
  <2>2. TypeOK'
    BY <2>1 DEF TypeOK, Requests
  <2> QED
    BY <2>1, <2>2 DEF EngineInv, RequestOfStep, DrawnOnce, NothingOnlyInRam, Resident, DeletionIsFinal
<1>2. ASSUME NEW k \in StoredKeys, ClearKey(k) PROVE EngineInv'
  <2>1. /\ pc = "clear" /\ pc' = "clear" /\ req' = [req EXCEPT !.left = @ \ {k}]
        /\ UNCHANGED <<credentials, kv_store, created, reported, deleted, reset>>
        /\ disk' \in {disk, [disk EXCEPT ![k] = Absent]}
    BY <1>2 DEF ClearKey, ram, ghosts, Removed, DeleteFailed
  <2>2. req' \in [kind : {"clear"}, left : SUBSET StoredKeys]
    BY <2>1 DEF RequestOfStep
  <2>3. /\ disk' \in [StoredKeys -> Record]
        /\ \A c \in Creds : disk'[c] \in {disk[c], Absent}
    BY <2>1 DEF TypeOK, Record, StoredKeys
  <2>4. TypeOK'
    BY <2>1, <2>2, <2>3 DEF TypeOK, Requests
  <2> QED
    BY <2>1, <2>2, <2>3, <2>4
    DEF EngineInv, TypeOK, RequestOfStep, DrawnOnce, NothingOnlyInRam, Resident, DeletionIsFinal
<1>3. CASE FinishClear
  <2>1. /\ pc' = "idle" /\ req' = Idle /\ reset' = reset \cup Resident
        /\ credentials' = NoRecords(Creds) /\ kv_store' = NoRecords(KvKeys)
        /\ UNCHANGED <<disk, created, reported, deleted>>
    BY <1>3 DEF FinishClear, Done
  <2>2. TypeOK'
    BY <2>1 DEF TypeOK, Requests, NoRecords, Record, Resident
  <2>3. DrawnOnce'
    BY <2>1 DEF DrawnOnce, NoRecords, Resident
  <2> QED
    BY <2>1, <2>2, <2>3
    DEF EngineInv, TypeOK, RequestOfStep, NothingOnlyInRam, Resident, DeletionIsFinal, NoRecords
<1> QED
  BY <1>1, <1>2, <1>3

\* The power goes, and the engine is loaded anew.
LEMMA EngineRestarts ==
  ASSUME ConstantsOK, EngineInv, PowerLoss \/ load_from_backend
  PROVE  EngineInv'
<1> USE DEF EngineInv
<1>1. CASE PowerLoss
  <2>1. /\ pc' = "off" /\ req' = Idle
        /\ credentials' = NoRecords(Creds) /\ kv_store' = NoRecords(KvKeys)
        /\ UNCHANGED <<disk, created, reported, deleted, reset>>
    BY <1>1 DEF PowerLoss, ghosts
  <2>2. TypeOK'
    BY <2>1 DEF TypeOK, Requests, NoRecords, Record
  <2> QED
    BY <2>1, <2>2 DEF EngineInv, TypeOK, RequestOfStep, DrawnOnce, NothingOnlyInRam, Resident,
                      DeletionIsFinal, NoRecords
<1>2. CASE load_from_backend
  <2>1. PICK loaded \in SUBSET Creds :
           credentials' = [c \in Creds |-> IF c \in loaded THEN disk[c] ELSE Absent]
    BY <1>2 DEF load_from_backend
  <2>2. /\ pc = "off" /\ pc' = "idle" /\ req' = Idle
        /\ UNCHANGED <<disk, kv_store, created, reported, deleted, reset>>
    BY <1>2 DEF load_from_backend, Done, ghosts
  <2>3. credentials' \in [Creds -> Record] /\ \A c \in Creds : credentials'[c] \in {disk[c], Absent}
    BY <2>1 DEF TypeOK, StoredKeys, Record
  <2>4. TypeOK'
    BY <2>2, <2>3 DEF TypeOK, Requests
  <2>5. NothingOnlyInRam'
    BY <2>2, <2>3 DEF NothingOnlyInRam, Resident
  <2> QED
    BY <2>2, <2>3, <2>4, <2>5 DEF EngineInv, TypeOK, RequestOfStep, DrawnOnce, DeletionIsFinal
<1> QED
  BY <1>1, <1>2

\* Whatever backend call fails, and wherever the power goes.
LEMMA EngineStep == ConstantsOK /\ EngineInv /\ [Next]_vars => EngineInv'
<1> SUFFICES ASSUME ConstantsOK, EngineInv, [Next]_vars PROVE EngineInv'
  OBVIOUS
<1>1. CASE UNCHANGED vars
  BY <1>1 DEF vars, ram, ghosts, EngineInv, TypeOK, RequestOfStep, DrawnOnce,
              NothingOnlyInRam, DeletionIsFinal, Resident
<1>2. CASE Next
  BY <1>2, EngineStores, EngineCreates, EngineWrites, EngineCounts, EngineUpdates,
     EngineDeletes, EngineResets, EngineRestarts DEF Next, Commands, Steps
<1> QED
  BY <1>1, <1>2

----------------------------------------------------------------------------
(* Over a backend whose deletions and reads do not fail *)

LEMMA SoundInit == ConstantsOK /\ Init => SoundInv
<1> SUFFICES ASSUME ConstantsOK, Init PROVE SoundInv
  OBVIOUS
<1>1. EngineInv
  BY EngineInit
<1> USE DEF Init, NoRecords
<1>2. SameCredentials /\ ErasureListed /\ ErasedStays /\ RoomToWrite
  BY DEF SameCredentials, ErasureListed, ErasedStays, RoomToWrite, StoredKeys
<1>3. LimitHolds
  <2>1. {c \in Creds : disk[c] # Absent} = {}
    BY DEF StoredKeys
  <2> QED  BY <2>1, FS_EmptySet DEF LimitHolds, ConstantsOK
<1>4. CountersBelow
  BY DEF CountersBelow, StoredKeys
<1> QED
  BY <1>1, <1>2, <1>3, <1>4 DEF SoundInv

\* With fewer credentials the limit holds as before.
LEMMA FewerHold ==
  ASSUME ConstantsOK, LimitHolds, OnDisk' \subseteq OnDisk
  PROVE  LimitHolds' /\ Cardinality(OnDisk') <= Cardinality(OnDisk)
<1>1. IsFiniteSet(OnDisk) /\ Cardinality(OnDisk) \in Nat /\ Cardinality(OnDisk') \in Nat
  BY Drawn DEF OnDisk
<1>2. Cardinality(OnDisk') <= Cardinality(OnDisk)
  BY <1>1, FS_Subset
<1> QED
  BY <1>1, <1>2 DEF LimitHolds, OnDisk, ConstantsOK

LEMMA SoundStores ==
  ASSUME ConstantsOK, SoundBackend, SoundInv, EngineInv', Store("pin") \/ Delete("pin")
  PROVE  SoundInv'
<1> USE DEF SoundInv
<1>1. pc = "idle" /\ UNCHANGED <<credentials, pc, req, created, reported, deleted, reset>>
  BY DEF Store, Delete, ghosts
<1>2. \A k \in StoredKeys \ {"pin"} : disk'[k] = disk[k]
  <2>1. disk' = disk \/ disk' = [disk EXCEPT !["pin"] = 1] \/ disk' = [disk EXCEPT !["pin"] = Absent]
    BY DEF Store, Delete, store, Written, Removed, StoreFailed, WriteFailed, DeleteFailed
  <2> QED  BY <2>1 DEF EngineInv, TypeOK
<1>3. (\A c \in Creds : disk'[c] = disk[c]) /\ SignCount' = SignCount
  BY <1>2 DEF ConstantsOK, KvKeys, StoredKeys, SignCount
<1>4. OnDisk' = OnDisk
  BY <1>3 DEF OnDisk
<1>5. LimitHolds' /\ SameCredentials' /\ ErasureListed' /\ ErasedStays' /\ RoomToWrite'
  <2>1. reset \subseteq Creds
    BY DEF EngineInv, TypeOK
  <2> QED
    BY <1>1, <1>3, <1>4, <2>1, FewerHold
    DEF SameCredentials, ErasureListed, ErasedStays, RoomToWrite
<1>6. CountersBelow'
  BY <1>1, <1>3 DEF CountersBelow
<1> QED
  BY <1>5, <1>6 DEF SoundInv

\* A credential that is deleted goes from RAM and backend alike.
LEMMA GoneAlike ==
  ASSUME ConstantsOK, SoundBackend, SoundInv, pc \in {"idle", "write", "update"},
         NEW c \in Creds, NEW ok \in BOOLEAN, delete_credential(c, ok),
         UNCHANGED <<reported, reset>>
  PROVE  /\ ok = TRUE /\ OnDisk' = OnDisk \ {c}
         /\ \A d \in Creds : credentials'[d] = Absent <=> disk'[d] = Absent
         /\ ErasedStays' /\ SignCount' = SignCount
<1> USE DEF SoundInv
<1>1. EngineInv /\ TypeOK
  BY DEF EngineInv
<1>2. ok = TRUE
  BY Deletes, <1>1 DEF SoundBackend
<1>3. /\ credentials'[c] = Absent /\ disk'[c] = Absent
      /\ \A d \in Creds \ {c} : credentials'[d] = credentials[d]
      /\ \A k \in StoredKeys \ {c} : disk'[k] = disk[k]
  BY Deletes, <1>1, <1>2
<1>4. "counter" \in StoredKeys \ {c} /\ \A d \in Creds \ {c} : disk'[d] = disk[d]
  BY <1>3 DEF StoredKeys, KvKeys, ConstantsOK
<1>5. SignCount' = SignCount
  BY <1>3, <1>4 DEF SignCount
<1>6. OnDisk' = OnDisk \ {c}
  BY <1>3, <1>4 DEF OnDisk
<1>7. \A d \in Creds : credentials'[d] = Absent <=> disk'[d] = Absent
  BY <1>3, <1>4 DEF SameCredentials
<1>8. ErasedStays'
  BY <1>1, <1>3, <1>4 DEF ErasedStays, TypeOK
<1> QED
  BY <1>2, <1>5, <1>6, <1>7, <1>8

LEMMA SoundDeletes ==
  ASSUME ConstantsOK, SoundBackend, SoundInv, EngineInv', NEW c \in Creds,
         handle_cred_mgmt_delete_credential(c)
  PROVE  SoundInv'
<1> USE DEF SoundInv
<1>1. PICK ok \in BOOLEAN : delete_credential(c, ok)
  BY DEF handle_cred_mgmt_delete_credential
<1>2. pc = "idle" /\ UNCHANGED <<pc, req, created, reported, reset>>
  BY DEF handle_cred_mgmt_delete_credential
<1>3. /\ OnDisk' = OnDisk \ {c} /\ ErasedStays' /\ SignCount' = SignCount
      /\ \A d \in Creds : credentials'[d] = Absent <=> disk'[d] = Absent
  BY <1>1, <1>2, GoneAlike
<1>4. LimitHolds'
  BY <1>3, FewerHold
<1>5. SameCredentials' /\ ErasureListed' /\ RoomToWrite'
  BY <1>2, <1>3 DEF SameCredentials, ErasureListed, RoomToWrite
<1>6. CountersBelow'
  BY <1>2, <1>3 DEF CountersBelow, OnDisk
<1> QED
  BY <1>3, <1>4, <1>5, <1>6 DEF SoundInv

\* At the limit the oldest credential has gone from the backend before the new one is due.
LEMMA SoundCreates ==
  ASSUME ConstantsOK, SoundBackend, SoundInv, EngineInv', NEW id \in Creds, store_credential(id)
  PROVE  SoundInv'
<1> USE DEF SoundInv
<1>1. pc = "idle" /\ UNCHANGED <<reported, deleted, reset>>
  BY DEF store_credential
<1>2. IsFiniteSet(OnDisk) /\ Cardinality(OnDisk) \in Nat /\ Cardinality(OnDisk) <= MaxCredentials
  BY Drawn DEF OnDisk, LimitHolds
<1>3. Resident = OnDisk
  BY <1>1 DEF Resident, OnDisk, SameCredentials
<1> DEFINE Goal == /\ pc' = "write" /\ Cardinality(OnDisk') < MaxCredentials /\ OnDisk' \subseteq OnDisk
                   /\ \A d \in Creds : credentials'[d] = Absent <=> disk'[d] = Absent
                   /\ ErasedStays' /\ SignCount' = SignCount
<1>4. ASSUME ~AtLimit, pc' = "write", UNCHANGED <<disk, ram>> PROVE Goal
  <2>1. Cardinality(OnDisk) < MaxCredentials
    BY <1>2, <1>3, <1>4 DEF AtLimit, ConstantsOK
  <2>2. UNCHANGED <<disk, credentials, kv_store, OnDisk, SignCount>>
    BY <1>4 DEF ram, OnDisk, SignCount
  <2> QED
    BY <1>1, <1>4, <2>1, <2>2 DEF SameCredentials, ErasedStays
<1>5. ASSUME NEW c \in Creds, NEW ok \in BOOLEAN, prune_oldest_credential(c, ok),
             ok => pc' = "write"
      PROVE  Goal
  <2>1. delete_credential(c, ok) /\ c \in OnDisk
    BY <1>3, <1>5 DEF prune_oldest_credential
  <2>2. /\ ok = TRUE /\ OnDisk' = OnDisk \ {c} /\ ErasedStays' /\ SignCount' = SignCount
        /\ \A d \in Creds : credentials'[d] = Absent <=> disk'[d] = Absent
    BY <2>1, <1>1, GoneAlike
  <2>3. Cardinality(OnDisk \ {c}) = Cardinality(OnDisk) - 1
    BY <1>2, <2>1, FS_RemoveElement
  <2>4. Cardinality(OnDisk') < MaxCredentials
    BY <1>2, <2>2, <2>3 DEF ConstantsOK
  <2> QED
    BY <1>5, <2>2, <2>4
<1>6. Goal
  BY <1>4, <1>5 DEF store_credential
<1> HIDE DEF Goal
<1>7. LimitHolds'
  BY <1>6, FewerHold DEF Goal
<1>8. SameCredentials' /\ ErasureListed' /\ RoomToWrite' /\ ErasedStays'
  BY <1>6 DEF Goal, SameCredentials, ErasureListed, RoomToWrite
<1>9. CountersBelow'
  BY <1>1, <1>6 DEF Goal, CountersBelow, OnDisk
<1> QED
  BY <1>7, <1>8, <1>9 DEF SoundInv

LEMMA SoundWrites ==
  ASSUME ConstantsOK, SoundBackend, SoundInv, EngineInv', WriteCredential
  PROVE  SoundInv'
<1> USE DEF SoundInv
<1>1. /\ pc = "write" /\ pc' = "idle" /\ req' = Idle
      /\ UNCHANGED <<kv_store, created, reported, deleted, reset>>
  BY DEF WriteCredential, Done, ghosts
<1>2. PICK id \in Creds : /\ id = req.id /\ reported[id] = 0 /\ id \notin reset
                          /\ id \in StoredKeys /\ id # "counter"
  BY <1>1 DEF EngineInv, RequestOfStep, DrawnOnce, StoredKeys, KvKeys, ConstantsOK
<1>3. \/ UNCHANGED <<disk, credentials>>
      \/ disk' = [disk EXCEPT ![id] = 0] /\ credentials' = [credentials EXCEPT ![id] = 0]
  BY <1>2 DEF WriteCredential, Written, WriteFailed
<1>4. /\ SignCount' = SignCount /\ SignCount \in Nat
      /\ \A d \in Creds \ {id} : disk'[d] = disk[d] /\ credentials'[d] = credentials[d]
      /\ \/ UNCHANGED <<disk, credentials>>
         \/ disk'[id] # Absent /\ credentials'[id] # Absent
  <2>1. "counter" \in StoredKeys /\ 0 # Absent
    BY DEF StoredKeys, KvKeys, ConstantsOK
  <2> QED  BY <1>2, <1>3, <2>1 DEF SignCount, EngineInv, TypeOK, StoredKeys, Record
<1>5. OnDisk' \subseteq OnDisk \cup {id}
  BY <1>4 DEF OnDisk
<1>6. LimitHolds'
  <2>1. IsFiniteSet(OnDisk) /\ Cardinality(OnDisk) \in Nat /\ Cardinality(OnDisk') \in Nat
    BY Drawn DEF OnDisk
  <2>2. /\ IsFiniteSet(OnDisk \cup {id})
        /\ Cardinality(OnDisk \cup {id}) \in {Cardinality(OnDisk), Cardinality(OnDisk) + 1}
    BY <2>1, FS_AddElement
  <2>3. Cardinality(OnDisk') <= Cardinality(OnDisk \cup {id})
    BY <1>5, <2>2, FS_Subset
  <2>4. Cardinality(OnDisk) < MaxCredentials
    BY <1>1 DEF RoomToWrite
  <2> QED
    BY <2>1, <2>2, <2>3, <2>4 DEF LimitHolds, OnDisk, ConstantsOK
<1>7. SameCredentials' /\ ErasureListed' /\ RoomToWrite'
  BY <1>1, <1>4 DEF SameCredentials, ErasureListed, RoomToWrite
<1>8. ErasedStays'
  BY <1>1, <1>2, <1>4 DEF ErasedStays, EngineInv, TypeOK
<1>9. CountersBelow'
  BY <1>1, <1>2, <1>4 DEF CountersBelow
<1> QED
  BY <1>6, <1>7, <1>8, <1>9 DEF SoundInv

\* At rest the current count is the stored one: RAM never answers for a lost record.
LEMMA SoundCounts ==
  ASSUME ConstantsOK, SoundBackend, SoundInv, EngineInv', NEW c \in Creds, next_sign_count(c)
  PROVE  SoundInv'
<1> USE DEF SoundInv
<1>1. PICK n \in CurrentSignCount :
          \/ /\ store("counter", n + 1) /\ pc' = "update"
             /\ req' = [kind |-> "assert", id |-> c, count |-> n + 1]
          \/ StoreFailed /\ UNCHANGED <<pc, req>>
  BY DEF next_sign_count
<1>2. /\ pc = "idle" /\ credentials[c] # Absent
      /\ UNCHANGED <<credentials, created, reported, deleted, reset>>
  BY DEF next_sign_count, ghosts, Resident
<1>3. n = SignCount /\ n \in Nat /\ n + 1 # Absent /\ "counter" \in StoredKeys
  <2>1. "counter" \in KvKeys /\ (kv_store["counter"] # Absent => disk["counter"] = kv_store["counter"])
    BY <1>2 DEF EngineInv, NothingOnlyInRam, KvKeys
  <2>2. (IF retrieve("counter") = Absent THEN 0 ELSE retrieve("counter")) = SignCount
    BY <2>1 DEF retrieve, SignCount
  <2>3. n = SignCount
    BY <1>1, <2>2 DEF CurrentSignCount, SoundBackend
  <2>4. n \in Nat
    BY CurrentIsCount DEF EngineInv
  <2> QED  BY <2>1, <2>3, <2>4 DEF ConstantsOK, StoredKeys
<1>4. CASE StoreFailed /\ UNCHANGED <<pc, req>>
  BY <1>2, <1>4 DEF StoreFailed, WriteFailed, SoundInv, SameCredentials, ErasureListed, ErasedStays,
                    LimitHolds, RoomToWrite, OnDisk, CountersBelow, SignCount
<1>5. CASE /\ store("counter", n + 1) /\ pc' = "update"
           /\ req' = [kind |-> "assert", id |-> c, count |-> n + 1]
  <2>1. /\ disk'["counter"] = n + 1
        /\ \A k \in StoredKeys \ {"counter"} : disk'[k] = disk[k]
    BY <1>3, <1>5 DEF store, Written, EngineInv, TypeOK
  <2>2. (\A d \in Creds : disk'[d] = disk[d]) /\ SignCount' = n + 1
    BY <1>3, <2>1 DEF StoredKeys, KvKeys, ConstantsOK, SignCount
  <2>3. OnDisk' = OnDisk
    BY <2>2 DEF OnDisk
  <2>4. LimitHolds'
    BY <2>3, FewerHold
  <2>5. SameCredentials' /\ ErasureListed' /\ RoomToWrite'
    BY <1>2, <1>5, <2>2 DEF SameCredentials, ErasureListed, RoomToWrite
  <2>6. ErasedStays'
    BY <1>2, <2>2 DEF ErasedStays, EngineInv, TypeOK
  <2>7. \A d \in Creds : disk[d] # Absent => reported[d] <= n /\ reported[d] \in Nat
    BY <1>3 DEF CountersBelow, EngineInv, TypeOK
  <2>8. req'.id = c /\ req'.count = n + 1 /\ disk[c] # Absent
    BY <1>2, <1>5 DEF SameCredentials
  <2>9. CountersBelow'
    BY <1>2, <1>3, <1>5, <2>2, <2>7, <2>8 DEF CountersBelow
  <2> QED
    BY <2>4, <2>5, <2>6, <2>9 DEF SoundInv
<1> QED
  BY <1>1, <1>4, <1>5

LEMMA SoundUpdates ==
  ASSUME ConstantsOK, SoundBackend, SoundInv, EngineInv', update_sign_count
  PROVE  SoundInv'
<1> USE DEF SoundInv
<1>1. /\ pc = "update" /\ pc' = "idle" /\ req' = Idle
      /\ UNCHANGED <<kv_store, created, deleted, reset>>
  BY DEF update_sign_count, Done
<1>2. PICK id \in Creds, n \in Nat :
          /\ id = req.id /\ n = req.count /\ n # Absent /\ n = SignCount
          /\ id \in StoredKeys /\ id # "counter" /\ disk[id] # Absent /\ id \notin reset
  BY <1>1 DEF EngineInv, RequestOfStep, DrawnOnce, CountersBelow, ErasedStays,
              StoredKeys, KvKeys, ConstantsOK
<1>3. /\ credentials' = [credentials EXCEPT ![id] = n]
      /\ disk' \in {disk, [disk EXCEPT ![id] = n]}
      /\ reported' \in {reported, [reported EXCEPT ![id] = n]}
  BY <1>2 DEF update_sign_count, Written, WriteFailed
<1>4. /\ disk'[id] # Absent /\ credentials'[id] # Absent /\ reported'[id] \in {reported[id], n}
      /\ SignCount' = n
      /\ \A d \in Creds \ {id} : /\ disk'[d] = disk[d] /\ credentials'[d] = credentials[d]
                                 /\ reported'[d] = reported[d]
  <2>1. "counter" \in StoredKeys
    BY DEF StoredKeys, KvKeys
  <2> QED  BY <1>2, <1>3, <2>1 DEF SignCount, EngineInv, TypeOK, StoredKeys
<1>5. OnDisk' = OnDisk
  BY <1>2, <1>4 DEF OnDisk
<1>6. LimitHolds'
  BY <1>5, FewerHold
<1>7. SameCredentials' /\ ErasureListed' /\ RoomToWrite'
  BY <1>1, <1>2, <1>4 DEF SameCredentials, ErasureListed, RoomToWrite
<1>8. ErasedStays'
  BY <1>1, <1>2, <1>4 DEF ErasedStays, EngineInv, TypeOK
<1>9. CountersBelow'
  BY <1>1, <1>2, <1>4 DEF CountersBelow
<1> QED
  BY <1>6, <1>7, <1>8, <1>9 DEF SoundInv

\* The counter goes last, when no credential it was counted for is left.
LEMMA SoundResets ==
  ASSUME ConstantsOK, SoundBackend, SoundInv, EngineInv',
         clear \/ (\E k \in StoredKeys : ClearKey(k)) \/ FinishClear
  PROVE  SoundInv'
<1> USE DEF SoundInv
<1>1. CASE clear
  <2>1. /\ pc = "idle" /\ pc' = "clear"
        /\ req' = [kind |-> "clear", left |-> {k \in StoredKeys : disk[k] # Absent}]
        /\ UNCHANGED <<disk, credentials, kv_store, created, reported, deleted, reset>>
    BY <1>1 DEF clear, ram, ghosts, SoundBackend
  <2> QED
    BY <2>1 DEF SoundInv, SameCredentials, ErasureListed, ErasedStays, LimitHolds, RoomToWrite,
                CountersBelow, SignCount
<1>2. ASSUME NEW k \in StoredKeys, ClearKey(k) PROVE SoundInv'
  <2>1. /\ pc = "clear" /\ pc' = "clear" /\ req' = [req EXCEPT !.left = @ \ {k}]
        /\ UNCHANGED <<credentials, kv_store, created, reported, deleted, reset>>
        /\ disk' = [disk EXCEPT ![k] = Absent]
        /\ k \in req.left /\ \A other \in req.left : Rank(k) <= Rank(other)
    BY <1>2 DEF ClearKey, ram, ghosts, Removed, DeleteFailed, SoundBackend
  <2>2. req'.left = req.left \ {k}
    BY <2>1 DEF EngineInv, RequestOfStep
  <2>3. disk'[k] = Absent /\ \A other \in StoredKeys \ {k} : disk'[other] = disk[other]
    BY <2>1 DEF EngineInv, TypeOK
  <2>4. (\A c \in Creds : disk'[c] \in {disk[c], Absent}) /\ OnDisk' \subseteq OnDisk
    BY <2>3 DEF OnDisk, StoredKeys
  <2>5. LimitHolds'
    BY <2>4, FewerHold
  <2>6. SameCredentials' /\ RoomToWrite'
    BY <2>1 DEF SameCredentials, RoomToWrite
  <2>7. ErasureListed'
    BY <2>1, <2>2, <2>3 DEF ErasureListed
  <2>8. ErasedStays'
    BY <2>1, <2>4 DEF ErasedStays, EngineInv, TypeOK
  <2>9. ASSUME k = "counter" PROVE CountersBelow'
    <3>1. Rank("counter") = 3 /\ \A c \in Creds : Rank(c) = 2
      BY DEF Rank, ConstantsOK, KvKeys
    <3> HIDE DEF Rank
    <3>2. \A c \in Creds : c \notin req.left
      BY <2>1, <2>9, <3>1
    <3>3. \A c \in Creds : disk[c] = Absent
      BY <2>1, <3>2 DEF ErasureListed, StoredKeys
    <3> QED
      BY <2>1, <2>4, <3>3 DEF CountersBelow
  <2>10. ASSUME k # "counter" PROVE CountersBelow'
    <3>1. SignCount' = SignCount
      BY <2>3, <2>10 DEF SignCount, StoredKeys, KvKeys
    <3> QED
      BY <2>1, <2>4, <3>1 DEF CountersBelow
  <2>11. CountersBelow'
    BY <2>9, <2>10
  <2> QED
    BY <2>5, <2>6, <2>7, <2>8, <2>11 DEF SoundInv
<1>3. CASE FinishClear
  <2>1. /\ pc = "clear" /\ req.left = {} /\ pc' = "idle" /\ req' = Idle
        /\ credentials' = NoRecords(Creds) /\ kv_store' = NoRecords(KvKeys)
        /\ reset' = reset \cup Resident
        /\ UNCHANGED <<disk, created, reported, deleted>>
    BY <1>3 DEF FinishClear, Done
  <2>2. \A k \in StoredKeys : disk[k] = Absent
    BY <2>1 DEF ErasureListed
  <2>3. \A c \in Creds : disk[c] = Absent /\ disk'[c] = Absent /\ credentials'[c] = Absent
    BY <2>1, <2>2 DEF StoredKeys, NoRecords
  <2>4. reset' \subseteq Creds
    BY <2>1 DEF EngineInv, TypeOK, Resident
  <2>5. OnDisk' \subseteq OnDisk
    BY <2>1 DEF OnDisk
  <2>6. LimitHolds'
    BY <2>5, FewerHold
  <2> QED
    BY <2>1, <2>3, <2>4, <2>6
    DEF SoundInv, SameCredentials, ErasureListed, ErasedStays, RoomToWrite, CountersBelow
<1> QED
  BY <1>1, <1>2, <1>3

LEMMA SoundRestarts ==
  ASSUME ConstantsOK, SoundBackend, SoundInv, EngineInv', PowerLoss \/ load_from_backend
  PROVE  SoundInv'
<1> USE DEF SoundInv
<1>1. /\ pc' \in {"off", "idle"} /\ req' = Idle
      /\ UNCHANGED <<disk, created, reported, deleted, reset>>
  BY DEF PowerLoss, load_from_backend, Done, ghosts
<1>2. LimitHolds' /\ ErasureListed' /\ RoomToWrite' /\ CountersBelow'
  BY <1>1 DEF LimitHolds, ErasureListed, RoomToWrite, CountersBelow, SignCount
<1>3. \/ pc' = "off" /\ credentials' = [c \in Creds |-> Absent]
      \/ credentials' = [c \in Creds |-> disk[c]]
  BY DEF PowerLoss, load_from_backend, NoRecords, SoundBackend
<1>4. SameCredentials' /\ ErasedStays'
  BY <1>1, <1>3 DEF SameCredentials, ErasedStays, EngineInv, TypeOK
<1> QED
  BY <1>2, <1>4 DEF SoundInv

LEMMA SoundStep == ConstantsOK /\ SoundBackend /\ SoundInv /\ [Next]_vars => SoundInv'
<1> SUFFICES ASSUME ConstantsOK, SoundBackend, SoundInv, [Next]_vars PROVE SoundInv'
  OBVIOUS
<1>1. EngineInv'
  BY EngineStep DEF SoundInv
<1>2. CASE UNCHANGED vars
  BY <1>1, <1>2 DEF vars, ram, ghosts, SoundInv, SameCredentials, ErasureListed, ErasedStays,
                    LimitHolds, RoomToWrite, OnDisk, CountersBelow, SignCount
<1>3. CASE Next
  BY <1>1, <1>3, SoundStores, SoundCreates, SoundWrites, SoundCounts, SoundUpdates,
     SoundDeletes, SoundResets, SoundRestarts DEF Next, Commands, Steps
<1> QED
  BY <1>2, <1>3

----------------------------------------------------------------------------
\* Whatever backend call fails and wherever the power goes, nothing is answered from RAM
\* alone (store, store_credential, retrieve) and acknowledged deletions are final
\* (delete_credential).
THEOREM NothingAckedIsLost ==
  ASSUME ConstantsOK
  PROVE  Spec => [](NothingOnlyInRam /\ DeletionIsFinal)
<1>1. Init => EngineInv
  BY EngineInit
<1>2. EngineInv /\ [Next]_vars => EngineInv'
  BY EngineStep
<1>3. EngineInv => NothingOnlyInRam /\ DeletionIsFinal
  BY DEF EngineInv
<1> QED
  BY <1>1, <1>2, <1>3, PTL DEF Spec

\* Over a backend like flash, whose writes alone fail, what a Reset erased stays erased
\* (clear), the limit holds on the medium (set_max_credential_count) and every assertion
\* carries a count above those seen before (next_sign_count).
THEOREM SoundBackendKeepsPromises ==
  ASSUME ConstantsOK, SoundBackend
  PROVE  Spec => [](ResetIsFinal /\ LimitHolds /\ SignCountGrows)
<1>1. Init => SoundInv
  BY SoundInit
<1>2. SoundInv /\ [Next]_vars => SoundInv'
  BY SoundStep
<1>3. SoundInv => ResetIsFinal /\ LimitHolds /\ SignCountGrows
  BY DEF SoundInv, ErasedStays, ResetIsFinal, CountersBelow, SignCountGrows
<1> QED
  BY <1>1, <1>2, <1>3, PTL DEF Spec
=============================================================================
