----------------------------- MODULE FlashStore -----------------------------
(***************************************************************************)
(* FlashStorageBackend over a FlashDevice: a map kept as a full snapshot   *)
(* in one of two flash sectors.  commit() erases the sector that is not    *)
(* active, programs a header (generation, length, checksum), then the      *)
(* payload, and only then moves active_sector, generation and the cache.   *)
(*                                                                         *)
(* The device is modelled at the granularity of its three calls            *)
(* (erase_sector, program of the header, program of the payload).  Each    *)
(* may end in a device error or be cut by a loss of power that leaves the  *)
(* sector anywhere between the two contents.  A checksum is identified     *)
(* with the snapshot it was computed from, so two different payloads never *)
(* share one, and a torn header never decodes.                             *)
(***************************************************************************)
EXTENDS Naturals, FiniteSets

CONSTANTS Keys, Values,
          NoValue,        \* "the key is absent"
          Erased, Torn,   \* a header or payload area that holds no data
          Nothing,        \* no pending snapshot
          SlotCapacity,   \* entries that fit in a sector next to the header
          MaxGeneration   \* bound on the number of commits explored

ASSUME NoValueAssumption == NoValue \notin Values
ASSUME BoundAssumption == MaxGeneration \in Nat

Snapshots == [Keys -> Values \cup {NoValue}]
Empty == [k \in Keys |-> NoValue]
Sectors == {0, 1}

\* The header area: magic, generation and checksum; the payload area.
Headers == [generation : Nat, checksum : Snapshots]
Slot == [header : Headers \cup {Erased, Torn}, payload : Snapshots \cup {Erased, Torn}]
ErasedSlot == [header |-> Erased, payload |-> Erased]

\* The areas that hold no data are none of the contents they are told from.
ASSUME MarkerAssumption ==
    /\ Erased \notin Headers /\ Torn \notin Headers
    /\ Erased \notin Snapshots /\ Torn \notin Snapshots
    /\ Nothing \notin Snapshots

VARIABLES slots,        \* contents of the two sectors
          cache, active_sector, generation,     \* the backend's RAM
          next,         \* the snapshot commit() is writing, or Nothing
          pc,           \* the device call commit() is about to make
          result        \* how the last operation ended

vars == <<slots, cache, active_sector, generation, next, pc, result>>
ram == <<cache, active_sector, generation>>

Steps == {"erase", "header", "payload"}

TypeOK ==
    /\ slots \in [Sectors -> Slot]
    /\ cache \in Snapshots /\ active_sector \in Sectors /\ generation \in Nat
    /\ next \in Snapshots \cup {Nothing}
    /\ pc \in Steps \cup {"idle", "off"}
    /\ pc \in Steps <=> next # Nothing
    /\ result \in {"none", "ok", "full", "io"}

----------------------------------------------------------------------------
\* read_slot: a sector counts only if its checksum is that of its payload.
read_slot(s) ==
    /\ s.header \in Headers
    /\ s.payload = s.header.checksum

Fresh == [active |-> 0, generation |-> 0, cache |-> Empty]
Loaded(s, sl) == [active |-> s, generation |-> sl[s].header.generation,
                  cache |-> sl[s].payload]

\* load_latest scans sector 0, then sector 1; a tie goes to sector 1.
load_latest(sl) ==
    LET zero == IF read_slot(sl[0]) THEN Loaded(0, sl) ELSE Fresh
    IN  IF read_slot(sl[1]) /\ sl[1].header.generation >= zero.generation
        THEN Loaded(1, sl) ELSE zero

Init ==
    /\ slots = [s \in Sectors |-> ErasedSlot]
    /\ cache = Empty /\ active_sector = 0 /\ generation = 0
    /\ next = Nothing /\ pc = "idle" /\ result = "none"

----------------------------------------------------------------------------
\* commit's target is never the sector the running state was loaded from.
target_mutant == active_sector
target == 1 - active_sector

Fits(m) == Cardinality({k \in Keys : m[k] # NoValue}) <= SlotCapacity

\* The part of commit() before the device is touched.
commit(m) ==
    /\ pc = "idle" /\ generation < MaxGeneration
    /\ IF Fits(m)
       THEN next' = m /\ pc' = "erase" /\ result' = "none"
       ELSE result' = "full" /\ UNCHANGED <<next, pc>>
    /\ UNCHANGED <<slots, ram>>

write(k, v) == commit([cache EXCEPT ![k] = v])
delete(k) == commit([cache EXCEPT ![k] = NoValue])

NewHeader_mutant == [generation |-> generation, checksum |-> next]
NewHeader == [generation |-> generation + 1, checksum |-> next]

EraseSector ==
    /\ pc = "erase"
    /\ slots' = [slots EXCEPT ![target] = ErasedSlot]
    /\ pc' = "header"
    /\ UNCHANGED <<ram, next, result>>

ProgramHeader ==
    /\ pc = "header"
    /\ slots' = [slots EXCEPT ![target].header = NewHeader]
    /\ pc' = "payload"
    /\ UNCHANGED <<ram, next, result>>

\* The last device call and what commit() and its caller do after it.
ProgramPayload_mutant ==
    /\ pc = "payload"
    /\ slots' = [slots EXCEPT ![target].payload = next]
    /\ active_sector' = target
    /\ generation' = generation + 1
    /\ cache' = next /\ pc' = "idle" /\ result' = "ok"
    /\ UNCHANGED next
ProgramPayload ==
    /\ pc = "payload"
    /\ slots' = [slots EXCEPT ![target].payload = next]
    /\ active_sector' = target
    /\ generation' = generation + 1
    /\ cache' = next /\ next' = Nothing
    /\ pc' = "idle" /\ result' = "ok"

\* What a device call that does not complete can leave of sector content s.
Interrupted(s) ==
    CASE pc = "erase"   -> [header : {s.header, Erased, Torn},
                            payload : {s.payload, Erased, Torn}]
      [] pc = "header"  -> {s, [s EXCEPT !.header = Torn]}
      [] pc = "payload" -> {s, [s EXCEPT !.payload = Torn]}

\* ... and what it leaves if it did complete, the power going right after.
Completed(s) ==
    CASE pc = "erase"   -> ErasedSlot
      [] pc = "header"  -> [s EXCEPT !.header = NewHeader]
      [] pc = "payload" -> [s EXCEPT !.payload = next]

\* A device call returns Err: commit() returns before moving any RAM state.
DeviceError_mutant ==
    /\ pc \in Steps
    /\ \E s \in Interrupted(slots[target]) : slots' = [slots EXCEPT ![target] = s]
    /\ cache' = next /\ next' = Nothing /\ pc' = "idle" /\ result' = "io"
    /\ UNCHANGED <<active_sector, generation>>
DeviceError ==
    /\ pc \in Steps
    /\ \E s \in Interrupted(slots[target]) : slots' = [slots EXCEPT ![target] = s]
    /\ next' = Nothing /\ pc' = "idle" /\ result' = "io"
    /\ UNCHANGED ram

----------------------------------------------------------------------------
Forget ==   \* RAM contents do not survive
    /\ cache' = Empty /\ active_sector' = 0 /\ generation' = 0
    /\ next' = Nothing /\ pc' = "off" /\ result' = "none"

PowerLossIdle == pc = "idle" /\ Forget /\ UNCHANGED slots

PowerLossInCommit ==
    /\ pc \in Steps
    /\ \E s \in Interrupted(slots[target]) \cup {Completed(slots[target])} :
          slots' = [slots EXCEPT ![target] = s]
    /\ Forget

\* FlashStorageBackend::new on the same device.
Reboot ==
    /\ pc = "off"
    /\ LET l == load_latest(slots)
       IN  active_sector' = l.active /\ generation' = l.generation /\ cache' = l.cache
    /\ pc' = "idle"
    /\ UNCHANGED <<slots, next, result>>

Next ==
    \/ \E k \in Keys, v \in Values : write(k, v)
    \/ \E k \in Keys : delete(k)
    \/ EraseSector \/ ProgramHeader \/ ProgramPayload \/ DeviceError
    \/ PowerLossIdle \/ PowerLossInCommit \/ Reboot

Spec == Init /\ [][Next]_vars

----------------------------------------------------------------------------
\* At every instant the device is on, also in the middle of a commit and
\* after a failed one, a restart would restore exactly the running state
\* (FlashStorageBackend: sector, generation and the map reads are answered
\* from).  So nothing acknowledged is lost and nothing refused reappears.
Recoverable ==
    pc # "off" =>
        load_latest(slots) = [active |-> active_sector, generation |-> generation,
                              cache |-> cache]

\* The two sectors never carry the same generation, so load_latest's choice
\* between them is never the tie its ">=" would resolve by position.
NoGenerationTie ==
    read_slot(slots[0]) /\ read_slot(slots[1]) =>
        slots[0].header.generation # slots[1].header.generation

\* No step, device error or loss of power takes the medium back to an older
\* snapshot than the one it held (load_latest's generation).
NeverRollsBack ==
    [][load_latest(slots').generation >= load_latest(slots).generation]_vars

\* The backend implements the atomic durable map of AtomicStore: write() and
\* delete() take effect as a whole or not at all, whatever fails and whenever
\* the power goes.
Abstract == INSTANCE AtomicStore WITH
    disk <- load_latest(slots).cache,
    mem <- IF pc = "off" THEN Nothing ELSE cache,
    pending <- next
CrashAtomic == Abstract!Spec
=============================================================================
