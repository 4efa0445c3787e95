---------------------------- MODULE StorageProofs ----------------------------
(***************************************************************************)
(* Proofs of the properties of the storage run, for every value of the     *)
(* constants: the flash backend and its refinement, the engine over flash  *)
(* and over a failing file (with the lemmas of StorageEngineProofs), the   *)
(* file backend, the simulator's two engines on one file, large blobs, and *)
(* the chip.                                                               *)
(***************************************************************************)
EXTENDS MCStorage, FiniteSetTheorems, SequenceTheorems, TLAPS

-----------------------------------------------------------------------------
(* The flash backend, for every set of keys and values, every capacity of a  *)
(* sector and every bound on the generations.  Recoverable is not inductive  *)
(* as it stands: it says nothing of the sector being rewritten, nor of the   *)
(* sectors while the power is off.  IInv adds the two missing parts.         *)

\* The running state is that of its own sector, or nothing was ever written.
Home ==
    \/ /\ generation = 0 /\ active_sector = 0 /\ cache = Empty
       /\ ~read_slot(slots[0])
    \/ /\ generation > 0
       /\ read_slot(slots[active_sector])
       /\ slots[active_sector].header.generation = generation
       /\ slots[active_sector].payload = cache

\* The other sector is older or unreadable.
Older ==
    read_slot(slots[target]) => slots[target].header.generation < generation

\* How far the rewriting of the target sector has come.
Progress ==
    /\ pc = "header" => slots[target] = ErasedSlot
    /\ pc = "payload" => /\ slots[target].header = NewHeader
                         /\ slots[target].payload = Erased

\* A readable sector was written by a commit, hence has a positive generation.
Positive ==
    \A s \in Sectors : read_slot(slots[s]) => slots[s].header.generation > 0

Running == Home /\ Older /\ Progress

IInv ==
    /\ TypeOK
    /\ Positive
    /\ NoGenerationTie
    /\ pc # "off" => Running

USE NoValueAssumption, BoundAssumption, MarkerAssumption

----------------------------------------------------------------------------
\* Facts about the constants and the operators.

LEMMA EmptyType == Empty \in Snapshots
  BY DEF Empty, Snapshots

LEMMA SlotFields ==
  ASSUME NEW s \in Slot
  PROVE  /\ s.header \in Headers \cup {Erased, Torn}
         /\ s.payload \in Snapshots \cup {Erased, Torn}
         /\ read_slot(s) => /\ s.header \in Headers
                            /\ s.header.generation \in Nat
                            /\ s.payload \in Snapshots
  BY DEF Slot, read_slot, Headers

LEMMA ErasedIsUnreadable == ErasedSlot \in Slot /\ ~read_slot(ErasedSlot)
  BY DEF ErasedSlot, Slot, read_slot

\* The newest readable sector is the one load_latest finds.
LEMMA LatestIs ==
  ASSUME NEW sl \in [Sectors -> Slot], NEW a \in Sectors, NEW g \in Nat, NEW c,
         \/ g = 0 /\ a = 0 /\ c = Empty /\ ~read_slot(sl[0])
         \/ read_slot(sl[a]) /\ sl[a].header.generation = g /\ sl[a].payload = c,
         read_slot(sl[1 - a]) => sl[1 - a].header.generation < g
  PROVE  load_latest(sl) = [active |-> a, generation |-> g, cache |-> c]
<1>1. sl[0] \in Slot /\ sl[1] \in Slot
  BY DEF Sectors
<1>2. /\ read_slot(sl[0]) => sl[0].header.generation \in Nat
      /\ read_slot(sl[1]) => sl[1].header.generation \in Nat
  BY <1>1, SlotFields
<1>3. CASE a = 0
  BY <1>2, <1>3 DEF load_latest, Loaded, Fresh
<1>4. CASE a = 1
  BY <1>2, <1>4 DEF load_latest, Loaded, Fresh
<1> QED
  BY <1>3, <1>4 DEF Sectors

\* The invariant pins down what load_latest finds.
LEMMA HomeIsLatest ==
  ASSUME TypeOK, Home, Older
  PROVE  load_latest(slots) = [active |-> active_sector, generation |-> generation,
                               cache |-> cache]
  BY LatestIs DEF TypeOK, Home, Older, target

\* Any content that is unreadable, or older than the running state, may stand
\* in the target sector.
LEMMA TargetRewritten ==
  ASSUME IInv, pc # "off", NEW s \in Slot,
         read_slot(s) => s.header.generation > 0 /\ s.header.generation < generation,
         slots' = [slots EXCEPT ![target] = s]
  PROVE  /\ slots' \in [Sectors -> Slot]
         /\ slots'[target] = s
         /\ Positive' /\ NoGenerationTie'
         /\ UNCHANGED ram => Home' /\ Older'
<1>1. target \in Sectors /\ active_sector \in Sectors /\ target # active_sector
  BY DEF IInv, TypeOK, target, Sectors
<1>2. slots \in [Sectors -> Slot]
  BY DEF IInv, TypeOK
<1>3. /\ slots' \in [Sectors -> Slot] /\ slots'[target] = s
      /\ slots'[active_sector] = slots[active_sector]
  BY <1>1, <1>2
<1>4. \A x \in Sectors : x = target \/ x = active_sector
  BY <1>1 DEF Sectors
<1>5. Positive'
  BY <1>3, <1>4 DEF IInv, Positive
<1>6. /\ generation \in Nat
      /\ read_slot(slots[active_sector]) => slots[active_sector].header.generation = generation
  BY DEF IInv, Running, Home, TypeOK
<1>7. read_slot(s) => s.header.generation \in Nat
  BY SlotFields
<1>8. ~(read_slot(s) /\ read_slot(slots[active_sector])
        /\ s.header.generation = slots[active_sector].header.generation)
  BY <1>6, <1>7
<1>9. NoGenerationTie'
  <2>1. CASE active_sector = 0
    BY <2>1, <1>3, <1>8 DEF NoGenerationTie, target
  <2>2. CASE active_sector = 1
    BY <2>2, <1>3, <1>8 DEF NoGenerationTie, target
  <2> QED  BY <2>1, <2>2, <1>1 DEF Sectors
<1>10. ASSUME UNCHANGED ram PROVE Home' /\ Older'
  <2>1. /\ generation' = generation /\ active_sector' = active_sector
        /\ cache' = cache /\ target' = target
    BY <1>10 DEF ram, target
  <2>2. Home'
    BY <2>1, <1>3 DEF IInv, Running, Home
  <2>3. Older'
    BY <2>1, <1>3 DEF Older
  <2> QED  BY <2>2, <2>3
<1> QED
  BY <1>3, <1>5, <1>9, <1>10

\* A device call that does not complete leaves nothing readable in the target
\* sector that was not readable there before.
LEMMA InterruptedContent ==
  ASSUME IInv, pc \in Steps, NEW s \in Interrupted(slots[target])
  PROVE  /\ s \in Slot
         /\ read_slot(s) => /\ s.header.generation > 0
                            /\ s.header.generation < generation
<1>1. target \in Sectors /\ slots[target] \in Slot
  BY DEF IInv, TypeOK, target, Sectors
<1>2. pc # "off" /\ Running
  BY DEF IInv, Steps
<1>3. /\ s \in Slot
      /\ read_slot(s) => read_slot(slots[target]) /\ s.header = slots[target].header
  <2>1. CASE pc = "erase"
    <3>1. /\ s \in Slot
          /\ s.header \in {slots[target].header, Erased, Torn}
          /\ s.payload \in {slots[target].payload, Erased, Torn}
      BY <1>1, <2>1 DEF Interrupted, Slot
    <3>2. read_slot(s) => s.header \in Headers /\ s.payload \in Snapshots
      BY <3>1, SlotFields
    <3>3. read_slot(s) => s.header = slots[target].header /\ s.payload = slots[target].payload
      BY <3>1, <3>2
    <3> QED  BY <3>1, <3>3 DEF read_slot
  <2>2. CASE pc = "header"
    BY <1>1, <2>2 DEF Interrupted, Slot, read_slot
  <2>3. CASE pc = "payload"
    <3>1. slots[target].payload = Erased
      BY <1>2, <2>3 DEF Running, Progress
    <3>2. s \in Slot /\ s.payload \in {Erased, Torn} /\ s.header = slots[target].header
      BY <1>1, <2>3, <3>1 DEF Interrupted, Slot
    <3>3. ~read_slot(s)
      BY <3>2 DEF read_slot, Headers
    <3> QED  BY <3>2, <3>3
  <2> QED  BY <2>1, <2>2, <2>3 DEF Steps
<1> QED
  BY <1>1, <1>2, <1>3 DEF IInv, Running, Older, Positive

----------------------------------------------------------------------------
LEMMA InitIInv == Init => IInv
<1> SUFFICES ASSUME Init PROVE IInv
  OBVIOUS
<1>1. slots \in [Sectors -> Slot] /\ slots[0] = ErasedSlot /\ slots[1] = ErasedSlot
  BY ErasedIsUnreadable DEF Init, Sectors
<1>2. TypeOK
  BY <1>1, EmptyType DEF Init, TypeOK, Sectors, Steps
<1>3. \A s \in Sectors : ~read_slot(slots[s])
  BY <1>1, ErasedIsUnreadable DEF Sectors
<1>4. Positive /\ NoGenerationTie
  BY <1>3 DEF Positive, NoGenerationTie, Sectors
<1>5. Running
  BY <1>1, <1>3 DEF Init, Running, Home, Older, Progress, target, Sectors
<1> QED
  BY <1>2, <1>4, <1>5 DEF IInv

\* commit() refuses a snapshot or records it; the device is not touched.
LEMMA BeginPreserves ==
  ASSUME IInv, NEW m \in Snapshots, commit(m)
  PROVE  IInv'
<1>1. TypeOK'
  BY DEF IInv, TypeOK, commit, ram, Steps
<1>2. Positive' /\ NoGenerationTie'
  BY DEF IInv, Positive, NoGenerationTie, commit
<1>3. Running'
  BY DEF IInv, Running, Home, Older, Progress, commit, ram, target
<1> QED
  BY <1>1, <1>2, <1>3 DEF IInv

LEMMA ErasePreserves == IInv /\ EraseSector => IInv'
<1> SUFFICES ASSUME IInv, EraseSector PROVE IInv'
  OBVIOUS
<1>1. /\ slots' \in [Sectors -> Slot] /\ slots'[target] = ErasedSlot
      /\ Positive' /\ NoGenerationTie' /\ Home' /\ Older'
  BY TargetRewritten, ErasedIsUnreadable DEF EraseSector
<1>2. TypeOK'
  BY <1>1 DEF IInv, TypeOK, EraseSector, ram, Steps
<1>3. Progress'
  BY <1>1 DEF Progress, EraseSector, ram, target
<1> QED
  BY <1>1, <1>2, <1>3 DEF IInv, Running

LEMMA NewHeaderType == IInv /\ pc \in Steps => NewHeader \in Headers
  BY DEF IInv, TypeOK, NewHeader, Headers

LEMMA HeaderPreserves == IInv /\ ProgramHeader => IInv'
<1> SUFFICES ASSUME IInv, ProgramHeader PROVE IInv'
  OBVIOUS
<1> DEFINE s == [slots[target] EXCEPT !.header = NewHeader]
<1>1. pc # "off" /\ slots[target] = ErasedSlot /\ target \in Sectors
  BY DEF ProgramHeader, IInv, Running, Progress, TypeOK, target, Sectors
<1>2. s = [header |-> NewHeader, payload |-> Erased]
  BY <1>1 DEF ErasedSlot
<1>3. NewHeader \in Headers /\ NewHeader.checksum \in Snapshots
  BY NewHeaderType DEF ProgramHeader, Steps, Headers
<1>4. s \in Slot /\ ~read_slot(s)
  BY <1>2, <1>3 DEF Slot, read_slot
<1>5. slots' = [slots EXCEPT ![target] = s]
  BY <1>1 DEF ProgramHeader, IInv, TypeOK
<1>6. /\ slots' \in [Sectors -> Slot] /\ slots'[target] = s
      /\ Positive' /\ NoGenerationTie' /\ Home' /\ Older'
  BY <1>1, <1>4, <1>5, TargetRewritten DEF ProgramHeader
<1>7. TypeOK'
  BY <1>6 DEF IInv, TypeOK, ProgramHeader, ram, Steps
<1>8. Progress'
  BY <1>2, <1>6 DEF Progress, ProgramHeader, ram, target, NewHeader
<1> QED
  BY <1>6, <1>7, <1>8 DEF IInv, Running

\* The target sector once its payload is complete.
LEMMA WrittenSlot ==
  ASSUME IInv, pc = "payload",
         slots' = [slots EXCEPT ![target].payload = next]
  PROVE  /\ slots' \in [Sectors -> Slot]
         /\ slots'[active_sector] = slots[active_sector]
         /\ slots'[target].header = NewHeader
         /\ slots'[target].payload = next
         /\ read_slot(slots'[target])
         /\ Positive' /\ NoGenerationTie'
<1>1. /\ target \in Sectors /\ active_sector \in Sectors /\ target # active_sector
      /\ slots \in [Sectors -> Slot] /\ next \in Snapshots /\ generation \in Nat
  BY DEF IInv, TypeOK, target, Sectors, Steps
<1>2. NewHeader \in Headers /\ NewHeader.checksum = next /\ NewHeader.generation = generation + 1
  BY NewHeaderType DEF Steps, NewHeader
<1>3. slots[target].header = NewHeader
  BY DEF IInv, Running, Progress
<1>4. [slots[target] EXCEPT !.payload = next] = [header |-> NewHeader, payload |-> next]
  BY <1>1, <1>3 DEF Slot
<1>5. /\ slots' \in [Sectors -> Slot] /\ slots'[active_sector] = slots[active_sector]
      /\ slots'[target] = [header |-> NewHeader, payload |-> next]
  BY <1>1, <1>2, <1>4 DEF Slot
<1>6. read_slot(slots'[target])
  BY <1>2, <1>5 DEF read_slot
<1>7. \A x \in Sectors : x = target \/ x = active_sector
  BY <1>1 DEF Sectors
<1>8. Positive'
  BY <1>1, <1>2, <1>5, <1>7 DEF IInv, Positive
<1>9. read_slot(slots[active_sector]) => slots[active_sector].header.generation = generation
  BY DEF IInv, Running, Home
<1>10. NoGenerationTie'
  <2>1. CASE active_sector = 0
    BY <2>1, <1>1, <1>2, <1>5, <1>9 DEF NoGenerationTie, target
  <2>2. CASE active_sector = 1
    BY <2>2, <1>1, <1>2, <1>5, <1>9 DEF NoGenerationTie, target
  <2> QED  BY <2>1, <2>2, <1>1 DEF Sectors
<1> QED
  BY <1>5, <1>6, <1>8, <1>10

LEMMA PayloadPreserves == IInv /\ ProgramPayload => IInv'
<1> SUFFICES ASSUME IInv, ProgramPayload PROVE IInv'
  OBVIOUS
<1>1. /\ slots' \in [Sectors -> Slot]
      /\ slots'[active_sector] = slots[active_sector]
      /\ slots'[target].header = NewHeader /\ slots'[target].payload = next
      /\ read_slot(slots'[target]) /\ Positive' /\ NoGenerationTie'
  BY WrittenSlot DEF ProgramPayload
<1>2. /\ active_sector' = target /\ target' = active_sector /\ generation \in Nat
      /\ generation' = generation + 1 /\ cache' = next /\ pc' = "idle"
      /\ NewHeader.generation = generation + 1
  BY DEF ProgramPayload, IInv, TypeOK, target, Sectors, NewHeader
<1>3. TypeOK'
  BY <1>1, <1>2 DEF IInv, TypeOK, ProgramPayload, Steps, Sectors, target
<1>4. Home'
  BY <1>1, <1>2 DEF Home
<1>5. Older'
  <2>1. read_slot(slots[active_sector]) => slots[active_sector].header.generation = generation
    BY DEF ProgramPayload, IInv, Running, Home
  <2> QED  BY <1>1, <1>2, <2>1 DEF Older
<1>6. Progress'
  BY <1>2 DEF Progress
<1> QED
  BY <1>1, <1>3, <1>4, <1>5, <1>6 DEF IInv, Running

LEMMA DeviceErrorPreserves == IInv /\ DeviceError => IInv'
<1> SUFFICES ASSUME IInv, DeviceError PROVE IInv'
  OBVIOUS
<1>1. PICK s \in Interrupted(slots[target]) : slots' = [slots EXCEPT ![target] = s]
  BY DEF DeviceError
<1>2. /\ s \in Slot
      /\ read_slot(s) => s.header.generation > 0 /\ s.header.generation < generation
  BY InterruptedContent DEF DeviceError
<1>3. /\ slots' \in [Sectors -> Slot]
      /\ Positive' /\ NoGenerationTie' /\ Home' /\ Older'
  BY <1>1, <1>2, TargetRewritten DEF DeviceError, Steps
<1>4. TypeOK'
  BY <1>3 DEF IInv, TypeOK, DeviceError, ram, Steps
<1>5. Progress'
  BY DEF Progress, DeviceError
<1> QED
  BY <1>3, <1>4, <1>5 DEF IInv, Running

\* What power loss leaves of the sectors while a commit runs.
LEMMA PowerLossContent ==
  ASSUME IInv, PowerLossInCommit
  PROVE  slots' \in [Sectors -> Slot] /\ Positive' /\ NoGenerationTie'
<1>1. PICK s \in Interrupted(slots[target]) \cup {Completed(slots[target])} :
             slots' = [slots EXCEPT ![target] = s]
  BY DEF PowerLossInCommit
<1>2. pc \in Steps /\ pc # "off" /\ target \in Sectors /\ slots[target] \in Slot
  BY DEF PowerLossInCommit, Steps, IInv, TypeOK, target, Sectors
<1>3. CASE s \in Interrupted(slots[target])
  BY <1>1, <1>2, <1>3, InterruptedContent, TargetRewritten
<1>4. CASE s = Completed(slots[target]) /\ pc = "erase"
  <2>1. s = ErasedSlot  BY <1>4 DEF Completed
  <2> QED  BY <1>1, <1>2, <2>1, ErasedIsUnreadable, TargetRewritten
<1>5. CASE s = Completed(slots[target]) /\ pc = "header"
  <2>1. s = [slots[target] EXCEPT !.header = NewHeader] /\ slots[target] = ErasedSlot
    BY <1>5 DEF Completed, IInv, Running, Progress
  <2>2. NewHeader \in Headers /\ NewHeader.checksum \in Snapshots
    BY NewHeaderType, <1>2 DEF Headers
  <2>3. s = [header |-> NewHeader, payload |-> Erased]
    BY <2>1 DEF ErasedSlot
  <2>4. s \in Slot /\ ~read_slot(s)
    BY <2>2, <2>3 DEF Slot, read_slot
  <2> QED  BY <1>1, <1>2, <2>4, TargetRewritten
<1>6. CASE s = Completed(slots[target]) /\ pc = "payload"
  <2>1. slots' = [slots EXCEPT ![target].payload = next]
    BY <1>1, <1>2, <1>6 DEF Completed, IInv, TypeOK
  <2> QED  BY <1>6, <2>1, WrittenSlot
<1> QED
  BY <1>1, <1>2, <1>3, <1>4, <1>5, <1>6 DEF Steps

LEMMA PowerLossPreserves == IInv /\ (PowerLossIdle \/ PowerLossInCommit) => IInv'
<1> SUFFICES ASSUME IInv, PowerLossIdle \/ PowerLossInCommit PROVE IInv'
  OBVIOUS
<1>1. slots' \in [Sectors -> Slot] /\ Positive' /\ NoGenerationTie'
  <2>1. CASE PowerLossIdle
    BY <2>1 DEF PowerLossIdle, IInv, TypeOK, Positive, NoGenerationTie
  <2> QED  BY <2>1, PowerLossContent
<1>2. Forget
  BY DEF PowerLossIdle, PowerLossInCommit
<1>3. TypeOK'
  BY <1>1, <1>2, EmptyType DEF Forget, TypeOK, Sectors, Steps
<1> QED
  BY <1>1, <1>2, <1>3 DEF Forget, IInv

LEMMA RebootPreserves == IInv /\ Reboot => IInv'
<1> SUFFICES ASSUME IInv, Reboot PROVE IInv'
  OBVIOUS
<1>1. slots[0] \in Slot /\ slots[1] \in Slot /\ slots' = slots /\ pc' = "idle"
  BY DEF IInv, TypeOK, Sectors, Reboot
<1>2. /\ read_slot(slots[0]) => /\ slots[0].header.generation \in Nat
                                /\ slots[0].header.generation > 0
                                /\ slots[0].payload \in Snapshots
      /\ read_slot(slots[1]) => /\ slots[1].header.generation \in Nat
                                /\ slots[1].header.generation > 0
                                /\ slots[1].payload \in Snapshots
  BY <1>1, SlotFields DEF IInv, Positive, Sectors
<1>3. Positive' /\ NoGenerationTie' /\ Progress'
  BY <1>1 DEF IInv, Positive, NoGenerationTie, Progress
<1>4. CASE read_slot(slots[1]) /\ (read_slot(slots[0]) =>
               slots[1].header.generation >= slots[0].header.generation)
  <2>1. load_latest(slots) = Loaded(1, slots)
    BY <1>2, <1>4 DEF load_latest, Loaded, Fresh
  <2>2. /\ active_sector' = 1 /\ generation' = slots[1].header.generation
        /\ cache' = slots[1].payload /\ target' = 0
    BY <2>1 DEF Reboot, Loaded, target
  <2>3. Home' /\ Older'
    BY <1>1, <1>2, <1>4, <2>2 DEF Home, Older, IInv, NoGenerationTie
  <2>4. TypeOK'
    BY <1>1, <1>2, <1>4, <2>2 DEF TypeOK, IInv, Reboot, Sectors, Steps
  <2> QED  BY <1>1, <1>3, <2>3, <2>4 DEF IInv, Running
<1>5. CASE read_slot(slots[0]) /\ ~(read_slot(slots[1]) /\
               slots[1].header.generation >= slots[0].header.generation)
  <2>1. load_latest(slots) = Loaded(0, slots)
    BY <1>2, <1>5 DEF load_latest, Loaded, Fresh
  <2>2. /\ active_sector' = 0 /\ generation' = slots[0].header.generation
        /\ cache' = slots[0].payload /\ target' = 1
    BY <2>1 DEF Reboot, Loaded, target
  <2>3. Home' /\ Older'
    BY <1>1, <1>2, <1>5, <2>2 DEF Home, Older
  <2>4. TypeOK'
    BY <1>1, <1>2, <1>5, <2>2 DEF TypeOK, IInv, Reboot, Sectors, Steps
  <2> QED  BY <1>1, <1>3, <2>3, <2>4 DEF IInv, Running
<1>6. CASE ~read_slot(slots[0]) /\ ~read_slot(slots[1])
  <2>1. active_sector' = 0 /\ generation' = 0 /\ cache' = Empty /\ target' = 1
    BY <1>6 DEF Reboot, load_latest, Fresh, target
  <2>2. Home' /\ Older'
    BY <1>1, <1>6, <2>1 DEF Home, Older
  <2>3. TypeOK'
    BY <1>1, <2>1, EmptyType DEF TypeOK, IInv, Reboot, Sectors, Steps
  <2> QED  BY <1>1, <1>3, <2>2, <2>3 DEF IInv, Running
<1> QED
  BY <1>4, <1>5, <1>6

LEMMA NextPreserves == IInv /\ [Next]_vars => IInv'
<1> SUFFICES ASSUME IInv, [Next]_vars PROVE IInv'
  OBVIOUS
<1>1. ASSUME NEW k \in Keys, NEW v \in Values, write(k, v) PROVE IInv'
  <2>1. [cache EXCEPT ![k] = v] \in Snapshots
    BY <1>1 DEF IInv, TypeOK, Snapshots
  <2> QED  BY <1>1, <2>1, BeginPreserves DEF write
<1>2. ASSUME NEW k \in Keys, delete(k) PROVE IInv'
  <2>1. [cache EXCEPT ![k] = NoValue] \in Snapshots
    BY DEF IInv, TypeOK, Snapshots
  <2> QED  BY <1>2, <2>1, BeginPreserves DEF delete
<1>3. CASE UNCHANGED vars
  BY <1>3 DEF vars, IInv, TypeOK, Positive, NoGenerationTie, Running, Home, Older,
              Progress, target, NewHeader
<1> QED
  BY <1>1, <1>2, <1>3, ErasePreserves, HeaderPreserves, PayloadPreserves,
     DeviceErrorPreserves, PowerLossPreserves, RebootPreserves DEF Next

\* Every reachable state of the backend is well formed (the fields of
\* FlashStorageBackend and the contents of its two sectors).
THEOREM TypeCorrect == Spec => []TypeOK
<1>1. IInv => TypeOK
  BY DEF IInv
<1> QED
  BY <1>1, InitIInv, NextPreserves, PTL DEF Spec

\* Whatever the sizes, a restart at any instant restores exactly the state the
\* backend is serving: commit() is crash safe.
THEOREM AlwaysRecoverable == Spec => []Recoverable
<1>1. IInv => Recoverable
  BY HomeIsLatest DEF IInv, Running, Recoverable
<1> QED
  BY <1>1, InitIInv, NextPreserves, PTL DEF Spec

\* The two sectors never hold snapshots of the same generation, so load_latest
\* never has a tie to break.
THEOREM NeverATie == Spec => []NoGenerationTie
<1>1. IInv => NoGenerationTie
  BY DEF IInv
<1> QED
  BY <1>1, InitIInv, NextPreserves, PTL DEF Spec

----------------------------------------------------------------------------
\* A power loss during commit() leaves the medium with the snapshot it had or
\* with the one being written, and with nothing else.
LEMMA PowerLossLatest ==
  ASSUME IInv, PowerLossInCommit
  PROVE  \/ load_latest(slots') = [active |-> active_sector, generation |-> generation,
                                   cache |-> cache]
         \/ load_latest(slots') = [active |-> target, generation |-> generation + 1,
                                   cache |-> next]
<1>1. PICK s \in Interrupted(slots[target]) \cup {Completed(slots[target])} :
             slots' = [slots EXCEPT ![target] = s]
  BY DEF PowerLossInCommit
<1>2. /\ pc \in Steps /\ slots \in [Sectors -> Slot] /\ slots' \in [Sectors -> Slot]
      /\ active_sector \in Sectors /\ target \in Sectors /\ target # active_sector
      /\ generation \in Nat /\ next \in Snapshots /\ target = 1 - active_sector
      /\ active_sector = 1 - target /\ Home /\ Progress
  <2>1. pc \in Steps /\ pc # "off" /\ slots' \in [Sectors -> Slot]
    BY PowerLossContent DEF PowerLossInCommit, Steps
  <2>2. /\ TypeOK /\ Home /\ Progress
    BY <2>1 DEF IInv, Running
  <2>3. /\ active_sector \in Sectors /\ target \in Sectors /\ target # active_sector
        /\ target = 1 - active_sector /\ active_sector = 1 - target
    BY <2>2 DEF TypeOK, target, Sectors
  <2> QED  BY <2>1, <2>2, <2>3 DEF TypeOK
<1>3. slots'[target] = s /\ slots'[active_sector] = slots[active_sector]
  BY <1>1, <1>2
<1>4. ASSUME read_slot(s) => s.header.generation < generation
      PROVE  load_latest(slots') = [active |-> active_sector, generation |-> generation,
                                    cache |-> cache]
  <2>1. \/ /\ generation = 0 /\ active_sector = 0 /\ cache = Empty
           /\ ~read_slot(slots'[0])
        \/ /\ read_slot(slots'[active_sector])
           /\ slots'[active_sector].header.generation = generation
           /\ slots'[active_sector].payload = cache
    BY <1>2, <1>3 DEF Home
  <2>2. read_slot(slots'[1 - active_sector])
          => slots'[1 - active_sector].header.generation < generation
    BY <1>2, <1>3, <1>4
  <2> QED  BY <1>2, <2>1, <2>2, LatestIs
<1>5. CASE s \in Interrupted(slots[target])
  BY <1>2, <1>4, <1>5, InterruptedContent
<1>6. CASE s = Completed(slots[target]) /\ pc = "erase"
  <2>1. s = ErasedSlot  BY <1>6 DEF Completed
  <2> QED  BY <1>4, <2>1, ErasedIsUnreadable
<1>7. CASE s = Completed(slots[target]) /\ pc = "header"
  <2>1. s = [slots[target] EXCEPT !.header = NewHeader] /\ slots[target] = ErasedSlot
    BY <1>2, <1>7 DEF Completed, Progress
  <2>2. s.payload = Erased /\ s.header = NewHeader
    BY <2>1 DEF ErasedSlot
  <2>3. ~read_slot(s)
    BY <1>2, <2>2 DEF NewHeader, read_slot
  <2> QED  BY <1>4, <2>3
<1>8. CASE s = Completed(slots[target]) /\ pc = "payload"
  <2>1. slots' = [slots EXCEPT ![target].payload = next]
    BY <1>1, <1>2, <1>8 DEF Completed
  <2>2. /\ slots'[target].header = NewHeader /\ slots'[target].payload = next
        /\ read_slot(slots'[target])
    BY <1>8, <2>1, WrittenSlot
  <2>3. slots'[target].header.generation = generation + 1
    BY <2>2 DEF NewHeader
  <2>4. read_slot(slots'[1 - target]) => slots'[1 - target].header.generation < generation + 1
    BY <1>2, <1>3 DEF Home
  <2>5. load_latest(slots') = [active |-> target, generation |-> generation + 1,
                               cache |-> next]
    BY <1>2, <2>2, <2>3, <2>4, LatestIs
  <2> QED  BY <2>5
<1> QED
  BY <1>1, <1>2, <1>5, <1>6, <1>7, <1>8 DEF Steps

\* While the device is on, what it serves is what a restart would load.
LEMMA OnIsLatest ==
  ASSUME IInv, pc # "off"
  PROVE  /\ load_latest(slots).cache = cache
         /\ load_latest(slots).generation = generation
  BY HomeIsLatest DEF IInv, Running

LEMMA OnIsLatestNext ==
  ASSUME IInv', pc' # "off"
  PROVE  /\ load_latest(slots').cache = cache'
         /\ load_latest(slots').generation = generation'
<1>1. TypeOK' /\ Home' /\ Older'
  BY DEF IInv, Running
<1>2. load_latest(slots') = [active |-> active_sector', generation |-> generation',
                             cache |-> cache']
  BY <1>1, LatestIs DEF TypeOK, Home, Older, target
<1> QED
  BY <1>2

LEMMA StepNeverRollsBack ==
  ASSUME IInv, IInv', [Next]_vars
  PROVE  load_latest(slots').generation >= load_latest(slots).generation
<1>1. CASE UNCHANGED slots
  <2>1. load_latest(slots).generation \in Nat
    <3>1. slots[0] \in Slot /\ slots[1] \in Slot
      BY DEF IInv, TypeOK, Sectors
    <3> QED  BY <3>1, SlotFields DEF load_latest, Loaded, Fresh
  <2> QED  BY <1>1, <2>1
<1>2. CASE PowerLossInCommit
  <2>1. pc # "off" /\ generation \in Nat
    BY <1>2 DEF PowerLossInCommit, Steps, IInv, TypeOK
  <2> QED  BY <1>2, <2>1, PowerLossLatest, OnIsLatest
<1>3. CASE EraseSector \/ ProgramHeader \/ ProgramPayload \/ DeviceError
  <2>1. /\ pc # "off" /\ pc' # "off" /\ generation \in Nat
        /\ generation' = generation \/ generation' = generation + 1
    BY <1>3 DEF EraseSector, ProgramHeader, ProgramPayload, DeviceError, ram, Steps,
                IInv, TypeOK
  <2> QED  BY <2>1, OnIsLatest, OnIsLatestNext
<1> QED
  BY <1>1, <1>2, <1>3 DEF Next, vars, write, delete, commit, PowerLossIdle, Reboot

\* For every instance, no step of the backend, no device error and no power
\* loss ever takes the medium back to an older snapshot.
THEOREM RollbackFree == Spec => NeverRollsBack
<1>1. IInv /\ IInv' /\ [Next]_vars
        => [load_latest(slots').generation >= load_latest(slots).generation]_vars
  BY StepNeverRollsBack
<1> QED
  BY <1>1, InitIInv, NextPreserves, PTL DEF Spec, NeverRollsBack

----------------------------------------------------------------------------
LEMMA RefinedInit == Init => Abstract!Init
<1> SUFFICES ASSUME Init PROVE Abstract!Init
  OBVIOUS
<1>1. IInv /\ pc # "off"
  BY InitIInv DEF Init
<1> QED
  BY <1>1, OnIsLatest DEF Init, Abstract!Init

LEMMA RefinedStep ==
  ASSUME IInv, IInv', [Next]_vars
  PROVE  [Abstract!Next]_(Abstract!aVars)
<1> DEFINE d == load_latest(slots).cache
           m == IF pc = "off" THEN Nothing ELSE cache
<1>1. ASSUME NEW x \in Snapshots, commit(x) PROVE [Abstract!Next]_(Abstract!aVars)
  <2>1. pc = "idle" /\ slots' = slots /\ cache' = cache /\ pc' # "off" /\ cache # Nothing
    BY <1>1 DEF commit, ram, IInv, TypeOK
  <2>2. next = Nothing
    BY <2>1 DEF IInv, TypeOK, Steps
  <2>3. CASE Fits(x)
    <3>1. Abstract!Request(x)
      BY <1>1, <2>1, <2>2, <2>3 DEF commit, Abstract!Request
    <3> QED  BY <3>1 DEF Abstract!Next
  <2>4. CASE ~Fits(x)
    BY <1>1, <2>1, <2>4 DEF commit, Abstract!aVars
  <2> QED  BY <2>3, <2>4
<1>2. CASE EraseSector \/ ProgramHeader
  <2>1. pc # "off" /\ pc' # "off" /\ cache' = cache /\ next' = next
    BY <1>2 DEF EraseSector, ProgramHeader, ram
  <2> QED  BY <2>1, OnIsLatest, OnIsLatestNext DEF Abstract!aVars
<1>3. CASE ProgramPayload
  <2>1. pc # "off" /\ pc' # "off" /\ cache' = next /\ next' = Nothing /\ next # Nothing
    BY <1>3 DEF ProgramPayload, IInv, TypeOK, Steps
  <2>2. Abstract!Commit
    BY <2>1, OnIsLatestNext DEF Abstract!Commit
  <2> QED  BY <2>2 DEF Abstract!Next
<1>4. CASE DeviceError
  <2>1. pc # "off" /\ pc' # "off" /\ cache' = cache /\ next' = Nothing /\ next # Nothing
    BY <1>4 DEF DeviceError, ram, IInv, TypeOK, Steps
  <2>2. Abstract!Refuse
    BY <2>1, OnIsLatest, OnIsLatestNext DEF Abstract!Refuse
  <2> QED  BY <2>2 DEF Abstract!Next
<1>5. CASE PowerLossIdle
  <2>1. pc # "off" /\ pc' = "off" /\ slots' = slots /\ next' = Nothing /\ cache # Nothing
    BY <1>5 DEF PowerLossIdle, Forget, IInv, TypeOK
  <2>2. Abstract!PowerLoss
    BY <2>1 DEF Abstract!PowerLoss
  <2> QED  BY <2>2 DEF Abstract!Next
<1>6. CASE PowerLossInCommit
  <2>1. pc # "off" /\ pc' = "off" /\ next' = Nothing /\ cache # Nothing /\ next # Nothing
    BY <1>6 DEF PowerLossInCommit, Forget, IInv, TypeOK, Steps
  <2>2. load_latest(slots').cache \in {d, next}
    BY <1>6, <2>1, PowerLossLatest, OnIsLatest
  <2>3. Abstract!PowerLoss
    BY <2>1, <2>2 DEF Abstract!PowerLoss
  <2> QED  BY <2>3 DEF Abstract!Next
<1>7. CASE Reboot
  <2>1. pc = "off" /\ pc' # "off" /\ slots' = slots /\ next' = next /\ cache' = d
    BY <1>7 DEF Reboot
  <2>2. Abstract!Restart
    BY <2>1 DEF Abstract!Restart
  <2> QED  BY <2>2 DEF Abstract!Next
<1>8. CASE UNCHANGED vars
  BY <1>8 DEF vars, Abstract!aVars
<1>9. ASSUME NEW k \in Keys, NEW v \in Values, write(k, v)
      PROVE  [Abstract!Next]_(Abstract!aVars)
  <2>1. [cache EXCEPT ![k] = v] \in Snapshots
    BY DEF IInv, TypeOK, Snapshots
  <2> QED  BY <1>1, <1>9, <2>1 DEF write
<1>10. ASSUME NEW k \in Keys, delete(k) PROVE [Abstract!Next]_(Abstract!aVars)
  <2>1. [cache EXCEPT ![k] = NoValue] \in Snapshots
    BY DEF IInv, TypeOK, Snapshots
  <2> QED  BY <1>1, <1>10, <2>1 DEF delete
<1> QED
  BY <1>2, <1>3, <1>4, <1>5, <1>6, <1>7, <1>8, <1>9, <1>10 DEF Next

\* FlashStorageBackend is an atomic durable map: every behaviour of the two
\* sectors and the backend's RAM is a behaviour of AtomicStore.
THEOREM Refinement == Spec => CrashAtomic
<1>1. IInv /\ IInv' /\ [Next]_vars => [Abstract!Next]_(Abstract!aVars)
  BY RefinedStep
<1> QED
  BY <1>1, RefinedInit, InitIInv, NextPreserves, PTL DEF Spec, CrashAtomic, Abstract!Spec

-----------------------------------------------------------------------------
(* The parts of the run.                                                     *)

\* The lemmas about the engine, over flash and over a file.
FlashP == INSTANCE StorageEngineProofs WITH Creds <- FlashCreds, MaxCredentials <- FlashLimit,
             WriteFaults <- TRUE, DeleteFaults <- FALSE, ReadFaults <- FALSE,
             SortedKeys <- TRUE, MaxSignCount <- FlashCounts, pc <- step
FileP == INSTANCE StorageEngineProofs WITH Creds <- FileCreds, MaxCredentials <- FileLimit,
             WriteFaults <- TRUE, DeleteFaults <- TRUE, ReadFaults <- TRUE,
             SortedKeys <- FALSE, MaxSignCount <- FileCounts, pc <- step

\* The part that runs takes its own steps, and stays the one that runs.
LEMMA PartSteps ==
  ASSUME [MCNext]_allvars
  PROVE  /\ part' = part
         /\ part = "chip" => [QspiFlash!Next]_(QspiFlash!vars)
         /\ part = "file" => [FileStore!Next]_(FileStore!vars)
         /\ part = "flash_engine" => [FlashEngine!Next]_(FlashEngine!vars)
         /\ part = "file_engine" => [FileEngine!Next]_(FileEngine!vars)
         /\ part = "blobs" => [LargeBlobs!Next]_(LargeBlobs!vars)
         /\ part = "simulator" => [Simulator!Next]_(Simulator!vars)
<1>1. CASE UNCHANGED allvars
  BY <1>1 DEF allvars, others, QspiFlash!vars, FileStore!vars, FlashEngine!vars, FlashEngine!ram,
              FlashEngine!ghosts, FileEngine!vars, FileEngine!ram, FileEngine!ghosts,
              LargeBlobs!vars, Simulator!vars
<1>2. CASE MCNext
  BY <1>2 DEF MCNext, others
<1> QED
  BY <1>1, <1>2

----------------------------------------------------------------------------
(* The engines *)

EnginesInv ==
    /\ part = "flash_engine" => FlashP!SoundInv
    /\ part = "file_engine" => FileP!EngineInv

LEMMA EngineConstants ==
  FlashP!ConstantsOK /\ FlashP!SoundBackend /\ FileP!ConstantsOK
<1>1. FlashP!ConstantsOK
  BY Constants DEF Constants, FlashEngine!ConstantsOK, FlashP!ConstantsOK, FlashEngine!KvKeys,
     FlashP!KvKeys, FlashEngine!IsFiniteSet, FlashP!IsFiniteSet
<1>2. FileP!ConstantsOK
  BY Constants DEF Constants, FileEngine!ConstantsOK, FileP!ConstantsOK, FileEngine!KvKeys,
     FileP!KvKeys, FileEngine!IsFiniteSet, FileP!IsFiniteSet
<1> QED
  BY <1>1, <1>2 DEF FlashP!SoundBackend

\* The engine's steps are those the lemmas speak of: the definitions are the same.
LEMMA FlashEngineSteps ==
  [FlashEngine!Next]_(FlashEngine!vars) => [FlashP!Next]_(FlashP!vars)
<1>1. FlashEngine!Next => FlashP!Next
  BY DEF
     FlashEngine!Next, FlashEngine!Commands, FlashEngine!Steps, FlashEngine!PowerLoss,
     FlashEngine!load_from_backend, FlashEngine!Store, FlashEngine!Delete,
     FlashEngine!store_credential, FlashEngine!next_sign_count,
     FlashEngine!handle_cred_mgmt_delete_credential, FlashEngine!clear,
     FlashEngine!WriteCredential, FlashEngine!update_sign_count, FlashEngine!ClearKey,
     FlashEngine!FinishClear, FlashEngine!Done, FlashEngine!NoRecords, FlashEngine!Idle,
     FlashEngine!ghosts, FlashEngine!ram, FlashEngine!Removed, FlashEngine!Written,
     FlashEngine!WriteFailed, FlashEngine!DeleteFailed, FlashEngine!StoreFailed,
     FlashEngine!store, FlashEngine!retrieve, FlashEngine!Resident,
     FlashEngine!delete_credential, FlashEngine!prune_oldest_credential,
     FlashEngine!AtLimit, FlashEngine!CurrentSignCount, FlashEngine!Rank,
     FlashEngine!StoredKeys, FlashEngine!KvKeys, FlashEngine!Cardinality, FlashP!Next,
     FlashP!Commands, FlashP!Steps, FlashP!PowerLoss, FlashP!load_from_backend,
     FlashP!Store, FlashP!Delete, FlashP!store_credential, FlashP!next_sign_count,
     FlashP!handle_cred_mgmt_delete_credential, FlashP!clear, FlashP!WriteCredential,
     FlashP!update_sign_count, FlashP!ClearKey, FlashP!FinishClear, FlashP!Done,
     FlashP!NoRecords, FlashP!Idle, FlashP!ghosts, FlashP!ram, FlashP!Removed,
     FlashP!Written, FlashP!WriteFailed, FlashP!DeleteFailed, FlashP!StoreFailed,
     FlashP!store, FlashP!retrieve, FlashP!Resident, FlashP!delete_credential,
     FlashP!prune_oldest_credential, FlashP!AtLimit, FlashP!CurrentSignCount, FlashP!Rank,
     FlashP!StoredKeys, FlashP!KvKeys, FlashP!Cardinality
<1> QED
  BY <1>1 DEF FlashEngine!vars, FlashEngine!ram, FlashEngine!ghosts, FlashP!vars, FlashP!ram, FlashP!ghosts

LEMMA FileEngineSteps ==
  [FileEngine!Next]_(FileEngine!vars) => [FileP!Next]_(FileP!vars)
<1>1. FileEngine!Next => FileP!Next
  BY DEF
     FileEngine!Next, FileEngine!Commands, FileEngine!Steps, FileEngine!PowerLoss,
     FileEngine!load_from_backend, FileEngine!Store, FileEngine!Delete,
     FileEngine!store_credential, FileEngine!next_sign_count,
     FileEngine!handle_cred_mgmt_delete_credential, FileEngine!clear,
     FileEngine!WriteCredential, FileEngine!update_sign_count, FileEngine!ClearKey,
     FileEngine!FinishClear, FileEngine!Done, FileEngine!NoRecords, FileEngine!Idle,
     FileEngine!ghosts, FileEngine!ram, FileEngine!Removed, FileEngine!Written,
     FileEngine!WriteFailed, FileEngine!DeleteFailed, FileEngine!StoreFailed,
     FileEngine!store, FileEngine!retrieve, FileEngine!Resident,
     FileEngine!delete_credential, FileEngine!prune_oldest_credential, FileEngine!AtLimit,
     FileEngine!CurrentSignCount, FileEngine!Rank, FileEngine!StoredKeys, FileEngine!KvKeys,
     FileEngine!Cardinality, FileP!Next, FileP!Commands, FileP!Steps, FileP!PowerLoss,
     FileP!load_from_backend, FileP!Store, FileP!Delete, FileP!store_credential,
     FileP!next_sign_count, FileP!handle_cred_mgmt_delete_credential, FileP!clear,
     FileP!WriteCredential, FileP!update_sign_count, FileP!ClearKey, FileP!FinishClear,
     FileP!Done, FileP!NoRecords, FileP!Idle, FileP!ghosts, FileP!ram, FileP!Removed,
     FileP!Written, FileP!WriteFailed, FileP!DeleteFailed, FileP!StoreFailed, FileP!store,
     FileP!retrieve, FileP!Resident, FileP!delete_credential, FileP!prune_oldest_credential,
     FileP!AtLimit, FileP!CurrentSignCount, FileP!Rank, FileP!StoredKeys, FileP!KvKeys,
     FileP!Cardinality
<1> QED
  BY <1>1 DEF FileEngine!vars, FileEngine!ram, FileEngine!ghosts, FileP!vars, FileP!ram, FileP!ghosts

LEMMA FlashEngineStarts == FlashEngine!Init => FlashP!Init
  BY DEF FlashEngine!Init, FlashP!Init, FlashEngine!NoRecords, FlashP!NoRecords, FlashEngine!StoredKeys, FlashP!StoredKeys,
         FlashEngine!KvKeys, FlashP!KvKeys, FlashEngine!Idle, FlashP!Idle

LEMMA FileEngineStarts == FileEngine!Init => FileP!Init
  BY DEF FileEngine!Init, FileP!Init, FileEngine!NoRecords, FileP!NoRecords, FileEngine!StoredKeys, FileP!StoredKeys,
         FileEngine!KvKeys, FileP!KvKeys, FileEngine!Idle, FileP!Idle

LEMMA EnginesInit == MCInit => EnginesInv
<1> SUFFICES ASSUME MCInit PROVE EnginesInv
  OBVIOUS
<1>1. ASSUME part = "flash_engine" PROVE FlashP!SoundInv
  <2>1. FlashEngine!Init
    BY <1>1 DEF MCInit
  <2> QED  BY <2>1, FlashEngineStarts, EngineConstants, FlashP!SoundInit
<1>2. ASSUME part = "file_engine" PROVE FileP!EngineInv
  <2>1. FileEngine!Init
    BY <1>2 DEF MCInit
  <2> QED  BY <2>1, FileEngineStarts, EngineConstants, FileP!EngineInit
<1> QED
  BY <1>1, <1>2 DEF EnginesInv

LEMMA EnginesStep == EnginesInv /\ [MCNext]_allvars => EnginesInv'
<1> SUFFICES ASSUME EnginesInv, [MCNext]_allvars PROVE EnginesInv'
  OBVIOUS
<1>1. part' = part
  BY PartSteps
<1>2. ASSUME part = "flash_engine" PROVE FlashP!SoundInv'
  BY <1>2, PartSteps, FlashEngineSteps, EngineConstants, FlashP!SoundStep DEF EnginesInv
<1>3. ASSUME part = "file_engine" PROVE FileP!EngineInv'
  BY <1>3, PartSteps, FileEngineSteps, EngineConstants, FileP!EngineStep DEF EnginesInv
<1> QED
  BY <1>1, <1>2, <1>3 DEF EnginesInv

LEMMA EnginesSafe == EnginesInv => CredentialsDurable
<1> SUFFICES ASSUME EnginesInv PROVE CredentialsDurable
  OBVIOUS
<1>1. ASSUME part = "flash_engine"
      PROVE  /\ FlashEngine!TypeOK /\ FlashEngine!ResetIsFinal
             /\ FlashEngine!LimitHolds /\ FlashEngine!SignCountGrows
  <2>1. /\ FlashP!TypeOK /\ FlashP!ErasedStays /\ FlashP!LimitHolds /\ FlashP!CountersBelow
    BY <1>1 DEF EnginesInv, FlashP!SoundInv, FlashP!EngineInv
  <2>2. FlashEngine!TypeOK
    BY <2>1 DEF
      FlashEngine!TypeOK, FlashP!TypeOK, FlashEngine!StoredKeys, FlashP!StoredKeys,
      FlashEngine!KvKeys, FlashP!KvKeys, FlashEngine!Record, FlashP!Record,
      FlashEngine!Requests, FlashP!Requests, FlashEngine!Idle, FlashP!Idle
  <2>3. FlashEngine!ResetIsFinal /\ FlashEngine!SignCountGrows
    BY <2>1 DEF FlashEngine!ResetIsFinal, FlashP!ErasedStays, FlashEngine!SignCountGrows,
                FlashP!CountersBelow
  <2>4. FlashEngine!LimitHolds
    BY <2>1 DEF FlashEngine!LimitHolds, FlashP!LimitHolds, FlashEngine!Cardinality, FlashP!Cardinality
  <2> QED  BY <2>2, <2>3, <2>4
<1>2. ASSUME part = "file_engine"
      PROVE  FileEngine!TypeOK /\ FileEngine!NothingOnlyInRam /\ FileEngine!DeletionIsFinal
  <2>1. FileP!TypeOK /\ FileP!NothingOnlyInRam /\ FileP!DeletionIsFinal
    BY <1>2 DEF EnginesInv, FileP!EngineInv
  <2>2. FileEngine!TypeOK
    BY <2>1 DEF
      FileEngine!TypeOK, FileP!TypeOK, FileEngine!StoredKeys, FileP!StoredKeys,
      FileEngine!KvKeys, FileP!KvKeys, FileEngine!Record, FileP!Record,
      FileEngine!Requests, FileP!Requests, FileEngine!Idle, FileP!Idle
  <2>3. FileEngine!NothingOnlyInRam /\ FileEngine!DeletionIsFinal
    BY <2>1 DEF FileEngine!NothingOnlyInRam, FileP!NothingOnlyInRam, FileEngine!Resident,
                FileP!Resident, FileEngine!KvKeys, FileP!KvKeys, FileEngine!DeletionIsFinal,
                FileP!DeletionIsFinal
  <2> QED  BY <2>2, <2>3
<1> QED
  BY <1>1, <1>2 DEF CredentialsDurable

\* What the engine acknowledged lasts, for any number of credentials, any limit and any
\* interleaving of commands, failed calls and losses of power: over flash as the firmware
\* uses it, and over a file of which every call may fail.
THEOREM EnginesDurable == MCSpec => []CredentialsDurable
  BY EnginesInit, EnginesStep, EnginesSafe, PTL DEF MCSpec

----------------------------------------------------------------------------
(* The file backend *)

\* How far flush() has come says which of the three files hold the new map.
FlushInv ==
    /\ FileStore!TypeOK
    /\ step \in FileStore!Replacement => journal = pending
    /\ step \in {"remove_main", "rename"} => tmp = pending
    /\ step = "remove_journal" => main = pending
FileInv == part = "file" => FlushInv

LEMMA ParsedFile ==
  ASSUME NEW f \in FileStore!Files
  PROVE  /\ FileStore!parse(f) \in FileStore!Snapshots \cup {Nothing}
         /\ f \in FileStore!Snapshots => FileStore!parse(f) = f
<1>1. FileStore!Empty \in FileStore!Snapshots
  BY DEF FileStore!Empty, FileStore!Snapshots
<1> USE Constants DEF Constants, FileStore!ConstantsOK
<1>2. CASE f \in {Absent, Blank}
  BY <1>1, <1>2 DEF FileStore!parse
<1>3. CASE f = TornFile
  BY <1>3 DEF FileStore!parse
<1>4. CASE f \in FileStore!Snapshots
  BY <1>4 DEF FileStore!parse
<1> QED
  BY <1>2, <1>3, <1>4 DEF FileStore!Files

\* One flush step keeps the files in order, and changes what a restart finds only to the
\* map being written, unless it leaves the journal empty or torn.
LEMMA FlushStep ==
  ASSUME FlushInv, [FileStore!Next]_(FileStore!vars)
  PROVE  FlushInv' /\ FileStore!DamageOnlyThroughJournal
<1> DEFINE S == FileStore!Snapshots
           F == FileStore!Files
           Rep == FileStore!Replacement
           Goal == FlushInv' /\ FileStore!DamageOnlyThroughJournal
<1>1. /\ \A x : x \in F <=> x \in S \/ x \in {Absent, Blank, TornFile}
      /\ {Absent, Blank, TornFile, Nothing} \cap S = {}
  BY Constants DEF Constants, FileStore!ConstantsOK, FileStore!Files
<1>2. /\ FileStore!Steps = {"create_journal", "write_journal", "create_tmp", "write_tmp",
                             "remove_main", "rename", "remove_journal"}
      /\ Rep = {"create_tmp", "write_tmp", "remove_main", "rename", "remove_journal"}
  BY DEF FileStore!Steps, FileStore!JournalWrite, FileStore!Replacement
<1>3. /\ main \in F /\ journal \in F /\ tmp \in F /\ pending \in S \cup {Nothing}
      /\ step \in FileStore!Steps \cup {"idle", "off"}
      /\ step \in FileStore!Steps <=> pending # Nothing
      /\ registered \subseteq FileKeys
      /\ step \in Rep => journal = pending
      /\ step \in {"remove_main", "rename"} => tmp = pending
      /\ step = "remove_journal" => main = pending
  BY DEF FlushInv, FileStore!TypeOK
<1>4. FileStore!Stored \in S \cup {Nothing}
  BY <1>3, ParsedFile DEF FileStore!Stored, FileStore!load_snapshot
\* Two shapes of step: the files a restart reads are as before ...
<1>5. ASSUME UNCHANGED <<main, journal>> PROVE FileStore!DamageOnlyThroughJournal
  BY <1>5 DEF FileStore!DamageOnlyThroughJournal, FileStore!Stored
\* ... or the journal is whole before and after.
<1>6. ASSUME journal \in S, UNCHANGED journal PROVE FileStore!DamageOnlyThroughJournal
  <2>1. journal # Absent
    BY <1>1, <1>6
  <2>2. FileStore!Stored' = FileStore!Stored
    BY <1>6, <2>1 DEF FileStore!Stored, FileStore!load_snapshot
  <2> QED  BY <2>2 DEF FileStore!DamageOnlyThroughJournal
<1>7. ASSUME NEW k \in FileKeys, NEW v \in Values \cup {NoValue}, step = "idle",
             FileStore!Stored # Nothing, pending' = [FileStore!Stored EXCEPT ![k] = v],
             step' = "create_journal", UNCHANGED <<main, journal, tmp>>,
             registered' \subseteq registered
      PROVE  Goal
  <2>1. pending' \in FileStore!Snapshots
    BY <1>4, <1>7 DEF FileStore!Snapshots
  <2> QED
    BY <1>1, <1>2, <1>3, <1>5, <1>7, <2>1 DEF FlushInv, FileStore!TypeOK
<1>8. CASE \E k \in FileKeys, v \in Values : FileStore!write(k, v)
  BY <1>7, <1>8 DEF FileStore!write, FileStore!files
<1>9. CASE \E k \in FileKeys : FileStore!delete(k)
  BY <1>7, <1>9 DEF FileStore!delete, FileStore!files
<1>10. CASE FileStore!CreateJournal
  BY <1>1, <1>2, <1>3, <1>10
  DEF FileStore!CreateJournal, FlushInv, FileStore!TypeOK, FileStore!DamageOnlyThroughJournal
<1>11. CASE FileStore!WriteJournal
  <2>1. journal' = pending /\ pending \in FileStore!Snapshots /\ step' = "create_tmp"
        /\ UNCHANGED <<main, tmp, pending, registered>>
    BY <1>2, <1>3, <1>11 DEF FileStore!WriteJournal
  <2>2. FileStore!Stored' = pending
    <3>1. journal' # Absent /\ journal' \in FileStore!Files
      BY <1>1, <2>1
    <3> QED
      BY <2>1, <3>1, ParsedFile DEF FileStore!Stored, FileStore!load_snapshot
  <2> QED
    BY <1>1, <1>2, <1>3, <2>1, <2>2
    DEF FlushInv, FileStore!TypeOK, FileStore!DamageOnlyThroughJournal
<1>12. CASE FileStore!CreateTmp \/ FileStore!WriteTmp
  BY <1>1, <1>2, <1>3, <1>5, <1>12 DEF FileStore!CreateTmp, FileStore!WriteTmp, FlushInv, FileStore!TypeOK
<1>13. CASE FileStore!RemoveMain \/ FileStore!Rename
  <2>1. journal \in FileStore!Snapshots /\ UNCHANGED journal
    BY <1>2, <1>3, <1>13 DEF FileStore!RemoveMain, FileStore!Rename
  <2> QED
    BY <1>1, <1>2, <1>3, <1>6, <1>13, <2>1
    DEF FileStore!RemoveMain, FileStore!Rename, FlushInv, FileStore!TypeOK
<1>14. CASE FileStore!RemoveJournal
  <2>1. /\ step = "remove_journal" /\ journal' = Absent /\ main' = pending /\ pending \in FileStore!Snapshots
        /\ step' = "idle" /\ pending' = Nothing /\ UNCHANGED tmp /\ registered' \subseteq FileKeys
    BY <1>2, <1>3, <1>14 DEF FileStore!RemoveJournal
  <2>2. FileStore!Stored' = pending
    BY <1>3, <2>1, ParsedFile DEF FileStore!Stored, FileStore!load_snapshot, FileStore!Files
  <2> QED
    BY <1>1, <1>2, <1>3, <2>1, <2>2
    DEF FlushInv, FileStore!TypeOK, FileStore!DamageOnlyThroughJournal
<1>15. CASE FileStore!IoError \/ FileStore!Crash
  <2>1. /\ step' \in {"idle", "off"} /\ pending' = Nothing /\ UNCHANGED <<main, registered>>
        /\ journal' \in {journal, Blank, TornFile} /\ tmp' \in {tmp, Blank, TornFile}
    BY <1>15 DEF FileStore!IoError, FileStore!Crash, FileStore!CutShort
  <2>2. FileStore!DamageOnlyThroughJournal
    BY <1>5, <2>1 DEF FileStore!DamageOnlyThroughJournal
  <2> QED
    BY <1>1, <1>2, <1>3, <2>1, <2>2 DEF FlushInv, FileStore!TypeOK
<1>16. CASE FileStore!Reopen
  BY <1>1, <1>2, <1>3, <1>5, <1>16 DEF FileStore!Reopen, FileStore!files, FlushInv, FileStore!TypeOK
<1>17. CASE UNCHANGED FileStore!vars
  BY <1>5, <1>17 DEF FileStore!vars, FlushInv, FileStore!TypeOK
<1> QED
  BY <1>8, <1>9, <1>10, <1>11, <1>12, <1>13, <1>14, <1>15, <1>16, <1>17 DEF FileStore!Next

\* Whatever call of flush() is cut short, and by an error or a crash, a restart finds the
\* old map or the new one until a journal itself is torn, and the journal covers the main
\* file while it is replaced: for any keys and values.
THEOREM FileDamageConfined == MCSpec => FileStoreSafe
<1>1. MCInit => FileInv
  <2> SUFFICES ASSUME MCInit, part = "file" PROVE FlushInv
    BY DEF FileInv
  <2>1. FileStore!Init
    BY DEF MCInit
  <2> QED
    BY <2>1 DEF FileStore!Init, FlushInv, FileStore!TypeOK, FileStore!Files, FileStore!Steps,
                FileStore!JournalWrite, FileStore!Replacement
<1>2. FileInv /\ [MCNext]_allvars
        => FileInv' /\ [part = "file" => FileStore!DamageOnlyThroughJournal]_allvars
  BY PartSteps, FlushStep DEF FileInv
<1>3. FileInv => (part = "file" => FileStore!TypeOK /\ FileStore!JournalCoversReplacement)
  <2> SUFFICES ASSUME FlushInv, step \in FileStore!Replacement PROVE FileStore!Stored = pending
    BY DEF FileInv, FlushInv, FileStore!JournalCoversReplacement
  <2>1. journal = pending /\ pending \in FileStore!Snapshots
    BY DEF FlushInv, FileStore!TypeOK, FileStore!Steps
  <2>2. journal # Absent /\ journal \in FileStore!Files
    BY <2>1, Constants DEF Constants, FileStore!ConstantsOK, FileStore!Files
  <2> QED
    BY <2>1, <2>2, ParsedFile DEF FileStore!Stored, FileStore!load_snapshot
<1> QED
  BY <1>1, <1>2, <1>3, PTL DEF MCSpec, FileStoreSafe

----------------------------------------------------------------------------
(* The simulator *)

\* With a path the file holds what the host was told of credentials, PIN and counts, and
\* RAM never claims a PIN the file lacks; without one RAM alone holds them.
HostInv ==
    /\ storage_path => /\ enrolled \subseteq file.cred /\ file.pin = pinned /\ file.count = seen
                       /\ running /\ auth.pin => pinned
    /\ ~storage_path => /\ file.pin = FALSE /\ file.count = 0 /\ file.sys = Absent
                        /\ running => auth.pin = pinned /\ auth.count = seen
    /\ running => enrolled \subseteq auth.credentials

\* The applet's record, where there is one, is its state; where a Reset erased it, the copy
\* in RAM is its state or is missing.
AppletInv ==
    /\ Simulator!AppletViewKept
    /\ storage_path =>
          /\ file.sys # Absent => file.sys = acked \/ (wiped /\ file.sys = Factory)
          /\ file.sys = Absent => wiped \/ acked = Factory
          /\ running => {file.sys, applet_storage} \subseteq {Absent, card_router.state}

SharedInv == Simulator!TypeOK /\ HostInv /\ AppletInv /\ Simulator!PackedHasKey
SimInv == part = "simulator" => SharedInv

LEMMA SharedInit == Simulator!Init => SharedInv
<1> SUFFICES ASSUME Simulator!Init PROVE SharedInv
  OBVIOUS
<1> USE Constants DEF Constants, Simulator!ConstantsOK, Simulator!Init, Simulator!NoFile, Simulator!NewAuth
<1>1. Simulator!TypeOK
  <2>1. /\ file \in [cred : SUBSET SimCreds, pin : BOOLEAN, count : 0..MaxCount,
                     sys : AppletStates \cup {Absent}]
        /\ auth \in [credentials : SUBSET SimCreds, pin : BOOLEAN, count : 0..MaxCount,
                     format : Simulator!Formats, cert : BOOLEAN]
    BY DEF Simulator!Formats
  <2>2. /\ card_router \in [state : AppletStates, session : BOOLEAN] /\ seen \in 0..MaxCount
        /\ enrolled \subseteq SimCreds /\ acked \in AppletStates
        /\ applet_storage \in AppletStates \cup {Absent}
    OBVIOUS
  <2>3. /\ storage_path \in BOOLEAN /\ raw \in BOOLEAN /\ running \in BOOLEAN
        /\ pinned \in BOOLEAN /\ wiped \in BOOLEAN
    BY Zenon
  <2> QED  BY <2>1, <2>2, <2>3 DEF Simulator!TypeOK
<1>2. HostInv /\ AppletInv /\ Simulator!PackedHasKey
  BY DEF HostInv, AppletInv, Simulator!AppletViewKept, Simulator!PackedHasKey
<1> QED
  BY <1>1, <1>2 DEF SharedInv

\* New applets over a record f and a copy r in RAM, and a new authenticator over the file:
\* a start of the process (r missing) and the operation "reset".
LEMMA SharedRestart ==
  ASSUME SharedInv, NEW r \in {Absent, applet_storage},
         ~storage_path => r = Absent, running \/ r = Absent,
         auth' = Simulator!NewAuth(file),
         card_router' = Simulator!new_card_router_over(file.sys, r).router,
         applet_storage' = Simulator!new_card_router_over(file.sys, r).kv,
         file' = [file EXCEPT !.sys = Simulator!new_card_router_over(file.sys, r).sys],
         running' = TRUE, UNCHANGED <<storage_path, raw, wiped>>,
         enrolled' = IF storage_path THEN enrolled ELSE {},
         pinned' = (storage_path /\ pinned),
         seen' = (IF storage_path THEN seen ELSE 0),
         acked' = (IF storage_path THEN acked ELSE Factory)
  PROVE  SharedInv'
<1> USE Constants DEF Constants, Simulator!ConstantsOK
<1> DEFINE s == card_router'.state
<1>1. /\ file \in [cred : SUBSET SimCreds, pin : BOOLEAN, count : 0..MaxCount,
                   sys : AppletStates \cup {Absent}]
      /\ r \in AppletStates \cup {Absent}
  BY DEF SharedInv, Simulator!TypeOK
<1>2. /\ card_router' = [state |-> s, session |-> FALSE]
      /\ s = IF file.sys # Absent THEN file.sys ELSE IF r # Absent THEN r ELSE Factory
      /\ applet_storage' = IF file.sys = Absent /\ r = Absent THEN s ELSE r
      /\ file'.sys = IF file.sys = Absent /\ r = Absent /\ storage_path THEN s ELSE file.sys
  BY <1>1 DEF Simulator!new_card_router_over, Simulator!Loaded, Simulator!retrieve
<1>3. /\ file' \in [cred : SUBSET SimCreds, pin : BOOLEAN, count : 0..MaxCount,
                    sys : AppletStates \cup {Absent}]
      /\ file'.cred = file.cred /\ file'.pin = file.pin /\ file'.count = file.count
      /\ s \in AppletStates
  BY <1>1, <1>2
<1> HIDE DEF s
<1>4. /\ auth'.credentials = file.cred /\ auth'.pin = FALSE /\ auth'.count = 0
      /\ auth'.format = "none"
      /\ auth' \in [credentials : SUBSET SimCreds, pin : BOOLEAN, count : 0..MaxCount,
                    format : Simulator!Formats, cert : BOOLEAN]
  BY <1>1 DEF Simulator!NewAuth, Simulator!Formats
<1>5. pinned' \in BOOLEAN
  OBVIOUS
<1>6. Simulator!TypeOK'
  <2>1. /\ seen' \in 0..MaxCount /\ enrolled' \subseteq SimCreds /\ acked' \in AppletStates
        /\ applet_storage' \in AppletStates \cup {Absent}
        /\ card_router' \in [state : AppletStates, session : BOOLEAN]
    BY <1>1, <1>2, <1>3 DEF SharedInv, Simulator!TypeOK
  <2>2. storage_path' \in BOOLEAN /\ raw' \in BOOLEAN /\ wiped' \in BOOLEAN /\ running' \in BOOLEAN
    BY DEF SharedInv, Simulator!TypeOK
  <2> QED  BY <1>3, <1>4, <1>5, <2>1, <2>2 DEF Simulator!TypeOK
<1>7. HostInv'
  <2>1. CASE storage_path
    BY <1>3, <1>4, <2>1 DEF SharedInv, HostInv
  <2>2. CASE ~storage_path
    <3>1. r = Absent /\ file.sys = Absent /\ file'.sys = Absent
      BY <1>2, <2>2 DEF SharedInv, HostInv
    <3> QED  BY <1>3, <1>4, <2>2, <3>1 DEF SharedInv, HostInv
  <2> QED  BY <2>1, <2>2
<1>8. AppletInv'
  <2>1. CASE storage_path
    <3>1. r # Absent => r = card_router.state
      BY <2>1 DEF SharedInv, AppletInv
    <3>2. s = acked \/ (wiped /\ s = Factory)
      BY <1>2, <2>1, <3>1 DEF SharedInv, AppletInv, Simulator!AppletViewKept
    <3> QED
      BY <1>1, <1>2, <1>3, <2>1, <3>1, <3>2 DEF SharedInv, AppletInv, Simulator!AppletViewKept
  <2>2. CASE ~storage_path
    BY <1>2, <2>2 DEF SharedInv, HostInv, AppletInv, Simulator!AppletViewKept
  <2> QED  BY <2>1, <2>2
<1>9. Simulator!PackedHasKey'
  BY <1>4 DEF Simulator!PackedHasKey
<1> QED
  BY <1>6, <1>7, <1>8, <1>9 DEF SharedInv

LEMMA SharedStep ==
  ASSUME SharedInv, [Simulator!Next]_(Simulator!vars)
  PROVE  SharedInv'
<1> USE Constants DEF Constants, Simulator!ConstantsOK, SharedInv
<1>1. CASE Simulator!main
  BY <1>1, SharedRestart DEF Simulator!main, Simulator!with_storage_path
<1>1a. CASE Simulator!reset
  <2> DEFINE r == IF storage_path THEN applet_storage ELSE Absent
  <2>1. r \in {Absent, applet_storage} /\ (~storage_path => r = Absent)
    OBVIOUS
  <2>2. /\ running = TRUE /\ running' = TRUE
    BY <1>1a DEF Simulator!reset, Simulator!Json, Simulator!TypeOK
  <2>3. /\ card_router' = Simulator!new_card_router_over(file.sys, r).router
        /\ applet_storage' = Simulator!new_card_router_over(file.sys, r).kv
        /\ file' = [file EXCEPT !.sys = Simulator!new_card_router_over(file.sys, r).sys]
    BY <1>1a DEF Simulator!reset
  <2> HIDE DEF r
  <2> QED
    BY <1>1a, <2>1, <2>2, <2>3, SharedRestart DEF Simulator!reset
<1>2. CASE Simulator!Exit \/ UNCHANGED Simulator!vars
  <2>1. /\ running' \in BOOLEAN /\ (running' => running)
        /\ UNCHANGED <<storage_path, raw, file, auth, applet_storage, card_router,
                       enrolled, pinned, seen, acked, wiped>>
    <3>1. running \in BOOLEAN
      BY DEF Simulator!TypeOK
    <3>2. running' = FALSE \/ running' = running
      BY <1>2, Zenon DEF Simulator!Exit, Simulator!vars
    <3>3. running' \in BOOLEAN /\ (running' => running)
      <4>1. CASE running' = FALSE
        BY <4>1
      <4>2. CASE running' = running
        BY <3>1, <4>2
      <4> QED  BY <3>2, <4>1, <4>2
    <3> QED
      BY <1>2, <3>3 DEF Simulator!Exit, Simulator!vars
  <2>2. Simulator!TypeOK'
    BY <2>1 DEF Simulator!TypeOK
  <2>3. HostInv' /\ AppletInv' /\ Simulator!PackedHasKey'
    BY <2>1 DEF Simulator!TypeOK, HostInv, AppletInv, Simulator!AppletViewKept, Simulator!PackedHasKey
  <2> QED  BY <2>2, <2>3
<1> DEFINE fT == [cred : SUBSET SimCreds, pin : BOOLEAN, count : 0..MaxCount,
                  sys : AppletStates \cup {Absent}]
           aT == [credentials : SUBSET SimCreds, pin : BOOLEAN, count : 0..MaxCount,
                  format : Simulator!Formats, cert : BOOLEAN]
<1>3. file \in fT /\ auth \in aT
  BY DEF Simulator!TypeOK
<1>4. CASE \E format \in Simulator!Formats : Simulator!set_attestation_format(format)
  <2>1. /\ UNCHANGED <<storage_path, raw, file, running, enrolled, pinned, seen,
                       applet_storage, card_router, acked, wiped>>
        /\ auth' \in aT /\ auth'.credentials = auth.credentials /\ auth'.pin = auth.pin
        /\ auth'.count = auth.count
        /\ auth'.format = "packed" => auth'.cert \/ auth' = auth
    BY <1>3, <1>4 DEF Simulator!set_attestation_format, Simulator!AppletSide
  <2>2. Simulator!TypeOK'
    BY <2>1 DEF Simulator!TypeOK
  <2>3. HostInv' /\ AppletInv' /\ Simulator!PackedHasKey'
    BY <2>1 DEF HostInv, AppletInv, Simulator!AppletViewKept, Simulator!PackedHasKey
  <2> QED  BY <2>2, <2>3
<1>5. ASSUME NEW c \in SimCreds, NEW alg, Simulator!make_credential(c, alg) PROVE SharedInv'
  <2>1. /\ UNCHANGED <<storage_path, raw, running, pinned, seen, applet_storage, card_router,
                       acked, wiped>>
        /\ auth' = [auth EXCEPT !.credentials = @ \cup {c}]
        /\ file' = IF storage_path THEN [file EXCEPT !.cred = @ \cup {c}] ELSE file
        /\ enrolled' \in {enrolled, enrolled \cup {c}}
    BY <1>5 DEF Simulator!make_credential, Simulator!AppletSide
  <2>2. /\ auth' \in aT /\ auth'.credentials = auth.credentials \cup {c} /\ auth'.pin = auth.pin
        /\ auth'.count = auth.count /\ auth'.format = auth.format /\ auth'.cert = auth.cert
        /\ file' \in fT /\ file'.pin = file.pin /\ file'.count = file.count /\ file'.sys = file.sys
        /\ storage_path => file'.cred = file.cred \cup {c}
    BY <1>3, <2>1
  <2>3. Simulator!TypeOK'
    BY <2>1, <2>2 DEF Simulator!TypeOK
  <2>4. HostInv'
    BY <2>1, <2>2 DEF HostInv
  <2>5. AppletInv' /\ Simulator!PackedHasKey'
    BY <2>1, <2>2 DEF AppletInv, Simulator!AppletViewKept, Simulator!PackedHasKey
  <2> QED  BY <2>3, <2>4, <2>5
<1>6. ASSUME NEW c \in SimCreds, Simulator!get_assertion(c) PROVE SharedInv'
  <2> DEFINE n == Simulator!Count + 1
  <2>1. /\ UNCHANGED <<storage_path, raw, running, enrolled, pinned, applet_storage, card_router,
                       acked, wiped>>
        /\ seen' = n /\ auth' = [auth EXCEPT !.count = n]
        /\ file' = IF storage_path THEN [file EXCEPT !.count = n] ELSE file
    BY <1>6 DEF Simulator!get_assertion, Simulator!AppletSide
  <2>2. n \in 0..MaxCount
    BY <1>3, <1>6 DEF Simulator!get_assertion, Simulator!Count
  <2> HIDE DEF n
  <2>3. /\ auth' \in aT /\ auth'.credentials = auth.credentials /\ auth'.pin = auth.pin
        /\ auth'.count = n /\ auth'.format = auth.format /\ auth'.cert = auth.cert
        /\ file' \in fT /\ file'.pin = file.pin /\ file'.cred = file.cred /\ file'.sys = file.sys
        /\ (storage_path => file'.count = n) /\ (~storage_path => file'.count = file.count)
    BY <1>3, <2>1, <2>2
  <2>4. Simulator!TypeOK'
    BY <2>1, <2>2, <2>3 DEF Simulator!TypeOK
  <2>5. HostInv'
    BY <2>1, <2>3 DEF HostInv
  <2>6. AppletInv' /\ Simulator!PackedHasKey'
    BY <2>1, <2>3 DEF AppletInv, Simulator!AppletViewKept, Simulator!PackedHasKey
  <2> QED  BY <2>4, <2>5, <2>6
<1>7. CASE Simulator!client_pin
  <2>1. /\ UNCHANGED <<storage_path, raw, running, enrolled, seen, applet_storage, card_router,
                       acked, wiped>>
        /\ pinned' = TRUE /\ auth' = [auth EXCEPT !.pin = TRUE]
        /\ file' = IF storage_path THEN [file EXCEPT !.pin = TRUE] ELSE file
    BY <1>7 DEF Simulator!client_pin, Simulator!AppletSide
  <2>2. /\ auth' \in aT /\ auth'.credentials = auth.credentials /\ auth'.pin = TRUE
        /\ auth'.count = auth.count /\ auth'.format = auth.format /\ auth'.cert = auth.cert
        /\ file' \in fT /\ file'.count = file.count /\ file'.cred = file.cred /\ file'.sys = file.sys
        /\ (storage_path => file'.pin = TRUE) /\ (~storage_path => file'.pin = file.pin)
    BY <1>3, <2>1
  <2>3. Simulator!TypeOK'
    BY <2>1, <2>2 DEF Simulator!TypeOK
  <2>4. HostInv'
    BY <2>1, <2>2 DEF HostInv
  <2>5. AppletInv' /\ Simulator!PackedHasKey'
    BY <2>1, <2>2 DEF AppletInv, Simulator!AppletViewKept, Simulator!PackedHasKey
  <2> QED  BY <2>3, <2>4, <2>5
<1>8. CASE Simulator!process_command_reset
  <2>1. /\ UNCHANGED <<storage_path, raw, running, applet_storage, card_router, acked>>
        /\ pinned' = FALSE /\ enrolled' = {} /\ seen' = 0 /\ wiped' = TRUE /\ file' = Simulator!NoFile
        /\ auth' = [auth EXCEPT !.credentials = {}, !.pin = FALSE, !.count = 0]
    BY <1>8 DEF Simulator!process_command_reset, Simulator!AppletSide
  <2>6. auth' = [credentials |-> {}, pin |-> FALSE, count |-> 0, format |-> auth.format,
                 cert |-> auth.cert]
    BY <1>3, <2>1
  <2>2. /\ auth' \in aT /\ auth'.credentials = {} /\ auth'.pin = FALSE
        /\ auth'.count = 0 /\ auth'.format = auth.format /\ auth'.cert = auth.cert
        /\ file' \in fT /\ file'.count = 0 /\ file'.cred = {} /\ file'.sys = Absent /\ file'.pin = FALSE
    <3>1. auth.format \in Simulator!Formats /\ auth.cert \in BOOLEAN
      BY <1>3
    <3>2. auth' \in aT
      BY <2>6, <3>1
    <3> QED
      BY <2>1, <2>6, <3>2 DEF Simulator!NoFile
  <2>3. Simulator!TypeOK'
    BY <2>1, <2>2 DEF Simulator!TypeOK
  <2>4. HostInv'
    BY <2>1, <2>2 DEF HostInv
  <2>5. AppletInv' /\ Simulator!PackedHasKey'
    BY <2>1, <2>2 DEF AppletInv, Simulator!AppletViewKept, Simulator!PackedHasKey
  <2> QED  BY <2>3, <2>4, <2>5
<1>9. CASE Simulator!apdu_verify
  <2>1. /\ UNCHANGED <<storage_path, raw, file, auth, applet_storage, running,
                       enrolled, pinned, seen, acked, wiped>>
        /\ card_router' \in [state : AppletStates, session : BOOLEAN]
        /\ card_router'.state = card_router.state
    BY <1>9 DEF Simulator!apdu_verify, Simulator!TypeOK
  <2>2. Simulator!TypeOK'
    BY <2>1 DEF Simulator!TypeOK
  <2>3. HostInv' /\ AppletInv' /\ Simulator!PackedHasKey'
    BY <2>1 DEF HostInv, AppletInv, Simulator!AppletViewKept, Simulator!PackedHasKey
  <2> QED  BY <2>2, <2>3
<1>10. ASSUME NEW v \in AppletStates, Simulator!apdu(v) PROVE SharedInv'
  <2>1. /\ UNCHANGED <<storage_path, raw, auth, running, enrolled, pinned, seen>>
        /\ card_router' \in [state : AppletStates, session : BOOLEAN] /\ card_router'.state = v
        /\ applet_storage' = v /\ acked' = v /\ wiped' = FALSE
        /\ file' = IF storage_path THEN [file EXCEPT !.sys = v] ELSE file
    BY <1>10 DEF Simulator!apdu, Simulator!TypeOK
  <2>2. /\ file' \in fT /\ file'.count = file.count /\ file'.cred = file.cred /\ file'.pin = file.pin
        /\ (storage_path => file'.sys = v) /\ (~storage_path => file'.sys = file.sys)
    BY <1>3, <2>1
  <2>3. Simulator!TypeOK'
    BY <2>1, <2>2 DEF Simulator!TypeOK
  <2>4. HostInv'
    BY <2>1, <2>2 DEF HostInv
  <2>5. AppletInv' /\ Simulator!PackedHasKey'
    BY <2>1, <2>2 DEF AppletInv, Simulator!AppletViewKept, Simulator!PackedHasKey
  <2> QED  BY <2>3, <2>4, <2>5
<1> QED
  BY <1>1, <1>2, <1>4, <1>5, <1>6, <1>7, <1>8, <1>9, <1>10, <1>1a DEF Simulator!Next

\* Two engines over one file, for any credentials, applet states and counter bound: the
\* host's view of credentials, PIN, counts and applet is kept over restarts, the operation
\* "reset" and a CTAP2 Reset that erases the applets' records under their engine.
THEOREM SimulatorKeepsViews == MCSpec => []SharedFileSafe
<1>1. MCInit => SimInv
  BY SharedInit DEF MCInit, SimInv
<1>2. SimInv /\ [MCNext]_allvars => SimInv'
  BY PartSteps, SharedStep DEF SimInv
<1>3. SimInv => SharedFileSafe
  <2> SUFFICES ASSUME SharedInv PROVE Simulator!HostViewKept /\ Simulator!AssertionsCounted
    BY DEF SimInv, SharedInv, AppletInv, SharedFileSafe
  <2>1. Simulator!HostViewKept
    BY Constants DEF Constants, Simulator!ConstantsOK, SharedInv, Simulator!TypeOK, HostInv,
                     Simulator!HostViewKept, Simulator!retrieve
  <2>2. Simulator!AssertionsCounted
    BY DEF SharedInv, Simulator!TypeOK, HostInv, Simulator!AssertionsCounted, Simulator!Count
  <2> QED  BY <2>1, <2>2
<1> QED
  BY <1>1, <1>2, <1>3, PTL DEF MCSpec

----------------------------------------------------------------------------
(* Large blobs *)

Bytes == Platforms \cup {Zero}

\* The array starts with the acknowledged bytes of the upload.
Holds(array, u) == u.len <= Len(array) /\ \A i \in 1 .. u.len : array[i] = u.by

ArrayInv ==
    /\ LargeBlobs!TypeOK
    /\ upload # None => /\ step # "clear"
                        /\ step = "idle" => Holds(large_blobs, upload)
                        /\ upload.len > 0 => disk # Absent /\ Holds(disk, upload)
    /\ LargeBlobs!ErasedGone
BlobsInv == part = "blobs" => ArrayInv

LEMMA ArrayIsSeq ==
  \A a : a \in LargeBlobs!Arrays <=> a \in Seq(Bytes) /\ Len(a) <= MaxSize
<1>1. MaxSize \in Nat
  BY Constants DEF Constants, LargeBlobs!ConstantsOK
<1>2. LargeBlobs!Arrays = UNION {[1..m -> Bytes] : m \in 0..MaxSize}
  BY DEF LargeBlobs!Arrays, LargeBlobs!BoundedSeq, LargeBlobs!SeqOf, Bytes
<1>3. ASSUME NEW a, a \in LargeBlobs!Arrays PROVE a \in Seq(Bytes) /\ Len(a) <= MaxSize
  <2>1. PICK m \in 0..MaxSize : a \in [1..m -> Bytes]
    BY <1>2, <1>3
  <2>2. a \in Seq(Bytes) /\ Len(a) = m
    BY <1>1, <2>1, LenProperties
  <2> QED  BY <1>1, <2>2
<1>4. ASSUME NEW a, a \in Seq(Bytes), Len(a) <= MaxSize PROVE a \in LargeBlobs!Arrays
  <2>1. a \in [1..Len(a) -> Bytes] /\ Len(a) \in 0..MaxSize
    BY <1>1, <1>4, LenProperties
  <2> QED  BY <1>2, <2>1
<1> QED
  BY <1>3, <1>4

\* What write_large_blobs makes of the array: the fragment, and the rest as it was.
LEMMA SplicedArray ==
  ASSUME large_blobs \in LargeBlobs!Arrays, NEW p \in Platforms, NEW offset \in Nat, NEW len \in Nat,
         NEW length \in Nat \cup {None}, LargeBlobs!InBounds(offset, len, length),
         NEW t, t = LargeBlobs!Spliced(offset, len, length, p)
  PROVE  /\ t \in LargeBlobs!Arrays /\ Len(large_blobs) <= Len(t) /\ offset + len <= Len(t)
         /\ \A i \in 1 .. Len(t) :
               t[i] = IF i \in offset + 1 .. offset + len THEN p
                      ELSE IF i <= Len(large_blobs) THEN large_blobs[i] ELSE Zero
<1> DEFINE end == offset + len
           grown == LargeBlobs!max(IF length # None THEN LargeBlobs!max(length, end) ELSE end,
                                    Len(large_blobs))
<1>1. large_blobs \in Seq(Bytes) /\ Len(large_blobs) \in Nat /\ Len(large_blobs) <= MaxSize
  BY ArrayIsSeq, LenProperties
<1>2. /\ grown \in Nat /\ grown <= MaxSize /\ end <= grown /\ Len(large_blobs) <= grown
      /\ end \in Nat
  BY <1>1, Constants DEF Constants, LargeBlobs!ConstantsOK, LargeBlobs!InBounds, LargeBlobs!max
<1>3. t = [i \in 1 .. grown |-> IF i \in offset + 1 .. end THEN p
                                 ELSE IF i <= Len(large_blobs) THEN large_blobs[i] ELSE Zero]
  BY DEF LargeBlobs!Spliced
<1> HIDE DEF grown
<1>4. t \in [1 .. grown -> Bytes]
  <2> SUFFICES ASSUME NEW i \in 1 .. grown
               PROVE  (IF i \in offset + 1 .. end THEN p
                       ELSE IF i <= Len(large_blobs) THEN large_blobs[i] ELSE Zero) \in Bytes
    BY <1>3
  <2>1. i <= Len(large_blobs) => large_blobs[i] \in Bytes
    BY <1>1, <1>2, ElementOfSeq
  <2> QED  BY <2>1 DEF Bytes
<1>5. t \in Seq(Bytes) /\ Len(t) = grown
  BY <1>2, <1>4, SeqDef, LenProperties
<1> QED
  BY <1>2, <1>3, <1>5, ArrayIsSeq

LEMMA EmptyArray == <<>> \in LargeBlobs!Arrays /\ LargeBlobs!Range(<<>>) = {} /\ Len(<<>>) = 0
<1>1. <<>> \in Seq(Bytes) /\ Len(<<>>) = 0
  BY EmptySeq
<1>2. 0 <= MaxSize
  BY Constants DEF Constants, LargeBlobs!ConstantsOK
<1>3. <<>> \in LargeBlobs!Arrays
  BY <1>1, <1>2, ArrayIsSeq
<1>4. DOMAIN <<>> = {}
  BY <1>1, LenProperties
<1> QED
  BY <1>1, <1>3, <1>4 DEF LargeBlobs!Range

LEMMA ArraysInit == LargeBlobs!Init => ArrayInv
<1> SUFFICES ASSUME LargeBlobs!Init PROVE ArrayInv
  OBVIOUS
<1> QED
  BY EmptyArray DEF LargeBlobs!Init, ArrayInv, LargeBlobs!TypeOK, LargeBlobs!Uploads, LargeBlobs!ErasedGone

\* A fragment accepted in place.
LEMMA ArraysWrite ==
  ASSUME ArrayInv, NEW p \in Platforms, NEW offset \in Nat, NEW len \in Nat,
         NEW length \in Nat \cup {None}, LargeBlobs!handle_large_blobs(p, offset, len, length)
  PROVE  ArrayInv'
<1> DEFINE new == large_blobs'
<1>1. PICK ok \in BOOLEAN :
         /\ disk' = IF ok THEN large_blobs' ELSE disk
         /\ upload' = IF ok THEN LargeBlobs!Continued(offset, len, p)
                      ELSE IF offset = 0 THEN None ELSE LargeBlobs!Disturbed(p)
  BY DEF LargeBlobs!handle_large_blobs, LargeBlobs!write_large_blobs
<1>2. /\ step = "idle" /\ step' = "idle" /\ erased' = erased \ {p}
      /\ LargeBlobs!InBounds(offset, len, length) /\ offset + len <= MaxSize
      /\ large_blobs' = LargeBlobs!Spliced(offset, len, length, p)
      /\ large_blobs \in LargeBlobs!Arrays
  BY DEF LargeBlobs!handle_large_blobs, LargeBlobs!write_large_blobs, LargeBlobs!InBounds,
         ArrayInv, LargeBlobs!TypeOK
<1>3. /\ new \in LargeBlobs!Arrays /\ Len(large_blobs) <= Len(new) /\ offset + len <= Len(new)
      /\ \A i \in 1 .. Len(new) :
            new[i] = IF i \in offset + 1 .. offset + len THEN p
                     ELSE IF i <= Len(large_blobs) THEN large_blobs[i] ELSE Zero
  BY <1>2, SplicedArray
<1> HIDE DEF new
<1>4. /\ Len(new) \in Nat /\ Len(large_blobs) \in Nat /\ new # Absent
      /\ DOMAIN new = 1 .. Len(new) /\ DOMAIN large_blobs = 1 .. Len(large_blobs)
  BY <1>2, <1>3, ArrayIsSeq, LenProperties, Constants DEF Constants, LargeBlobs!ConstantsOK
<1>5. upload # None => upload \in [by : Platforms, len : 0 .. MaxSize] /\ Holds(large_blobs, upload)
                       /\ (upload.len > 0 => disk # Absent /\ Holds(disk, upload))
  BY <1>2 DEF ArrayInv, LargeBlobs!TypeOK, LargeBlobs!Uploads
<1>6. ASSUME NEW u \in [by : Platforms, len : Nat], u.by = p, u.len = offset + len \/ u.len = len,
             u.len = len => offset = 0,
             offset # 0 => upload # None /\ upload.by = p /\ upload.len = offset
      PROVE  Holds(new, u)
  BY <1>3, <1>4, <1>5, <1>6 DEF Holds
<1>7. ASSUME upload # None, upload.by = p PROVE Holds(new, upload)
  BY <1>3, <1>4, <1>5, <1>7 DEF Holds
<1>8. /\ upload' \in LargeBlobs!Uploads
      /\ upload' # None => /\ Holds(new, upload')
                           /\ upload'.len > 0 => disk' # Absent /\ Holds(disk', upload')
  <2>1. CASE ok
    <3>1. disk' = new /\ upload' = LargeBlobs!Continued(offset, len, p)
      BY <1>1, <2>1 DEF new
    <3>2. CASE offset = 0
      <4>1. upload' = [by |-> p, len |-> len] /\ len \in 0 .. MaxSize
        BY <1>2, <3>1, <3>2 DEF LargeBlobs!Continued
      <4> QED  BY <1>4, <1>6, <3>1, <3>2, <4>1 DEF LargeBlobs!Uploads
    <3>3. CASE offset # 0 /\ upload # None /\ upload.by = p /\ upload.len = offset
      <4>1. upload' = [by |-> p, len |-> offset + len] /\ offset + len \in 0 .. MaxSize
        BY <1>2, <3>1, <3>3 DEF LargeBlobs!Continued
      <4> QED  BY <1>4, <1>6, <3>1, <3>3, <4>1 DEF LargeBlobs!Uploads
    <3>4. CASE offset # 0 /\ ~(upload # None /\ upload.by = p /\ upload.len = offset)
      <4>1. upload' = None
        BY <3>1, <3>4 DEF LargeBlobs!Continued
      <4> QED  BY <4>1 DEF LargeBlobs!Uploads
    <3> QED  BY <3>2, <3>3, <3>4
  <2>2. CASE ~ok
    <3>1. disk' = disk /\ upload' \in {None, upload} /\ (upload' # None => upload.by = p)
      BY <1>1, <2>2 DEF LargeBlobs!Disturbed
    <3> QED
      BY <1>5, <1>7, <3>1 DEF LargeBlobs!Uploads
  <2> QED  BY <2>1, <2>2
<1>9. LargeBlobs!TypeOK'
  BY <1>1, <1>2, <1>3, <1>8 DEF new, ArrayInv, LargeBlobs!TypeOK
<1>10. LargeBlobs!ErasedGone'
  <2>1. ASSUME NEW q \in erased, q # p PROVE q \notin LargeBlobs!Range(new)
    <3>1. q \notin LargeBlobs!Range(large_blobs) /\ q # Zero
      BY <1>2, <2>1, Constants
      DEF Constants, LargeBlobs!ConstantsOK, ArrayInv, LargeBlobs!TypeOK, LargeBlobs!ErasedGone
    <3> QED  BY <1>3, <1>4, <2>1, <3>1 DEF LargeBlobs!Range
  <2>2. \A q \in erased : disk # Absent => q \notin LargeBlobs!Range(disk)
    BY DEF ArrayInv, LargeBlobs!ErasedGone
  <2> QED
    BY <1>1, <1>2, <2>1, <2>2 DEF new, LargeBlobs!ErasedGone
<1> QED
  BY <1>2, <1>8, <1>9, <1>10 DEF new, ArrayInv

LEMMA ArraysStep ==
  ASSUME ArrayInv, [LargeBlobs!Next]_(LargeBlobs!vars)
  PROVE  ArrayInv'
<1> USE DEF ArrayInv
<1>1. <<>> \in LargeBlobs!Arrays /\ LargeBlobs!Range(<<>>) = {} /\ Len(<<>>) = 0
  BY EmptyArray
<1>2. ASSUME NEW p \in Platforms, NEW offset \in 0 .. MaxOffered + 1, NEW len \in 0 .. MaxFragment,
             NEW length \in LargeBlobs!Lengths \cup {None},
             LargeBlobs!handle_large_blobs(p, offset, len, length)
      PROVE  ArrayInv'
  BY <1>2, ArraysWrite, Constants DEF Constants, LargeBlobs!ConstantsOK, LargeBlobs!Lengths
<1>3. CASE LargeBlobs!clear
  BY <1>3 DEF LargeBlobs!clear, LargeBlobs!TypeOK, LargeBlobs!Uploads, LargeBlobs!ErasedGone
<1>4. CASE LargeBlobs!clear_large_blobs
  BY <1>1, <1>4 DEF LargeBlobs!clear_large_blobs, LargeBlobs!TypeOK, LargeBlobs!ErasedGone
<1>5. CASE LargeBlobs!PowerLoss
  BY <1>1, <1>5 DEF LargeBlobs!PowerLoss, LargeBlobs!TypeOK, LargeBlobs!ErasedGone
<1>6. CASE LargeBlobs!load_from_backend
  <2>1. /\ step' = "idle" /\ UNCHANGED <<disk, upload, erased>>
        /\ large_blobs' = IF disk = Absent THEN <<>> ELSE disk
    BY <1>6 DEF LargeBlobs!load_from_backend
  <2>2. LargeBlobs!TypeOK' /\ LargeBlobs!ErasedGone'
    BY <1>1, <2>1 DEF LargeBlobs!TypeOK, LargeBlobs!ErasedGone
  <2>3. upload # None => Holds(large_blobs', upload)
    <3> SUFFICES ASSUME upload # None PROVE Holds(large_blobs', upload)
      OBVIOUS
    <3>1. upload.len \in Nat /\ large_blobs' \in LargeBlobs!Arrays
      BY <2>2, Constants DEF Constants, LargeBlobs!ConstantsOK, LargeBlobs!TypeOK, LargeBlobs!Uploads
    <3>2. CASE upload.len = 0
      BY <3>1, <3>2, ArrayIsSeq, LenProperties DEF Holds
    <3>3. CASE upload.len > 0
      BY <2>1, <3>3
    <3> QED  BY <3>1, <3>2, <3>3
  <2> QED
    BY <2>1, <2>2, <2>3
<1>7. CASE UNCHANGED LargeBlobs!vars
  BY <1>7 DEF LargeBlobs!vars, LargeBlobs!TypeOK, LargeBlobs!ErasedGone
<1> QED
  BY <1>2, <1>3, <1>4, <1>5, <1>6, <1>7 DEF LargeBlobs!Next

\* An array that starts with the upload reads back as it, and has it as a prefix.
LEMMA HeldReadsBack ==
  ASSUME NEW a \in LargeBlobs!Arrays, NEW u \in [by : Platforms, len : 0 .. MaxSize], Holds(a, u)
  PROVE  /\ SubSeq(a, 1, u.len) = [i \in 1 .. u.len |-> u.by]
         /\ LargeBlobs!IsPrefix([i \in 1 .. u.len |-> u.by], a)
<1> DEFINE whole == [i \in 1 .. u.len |-> u.by]
<1>1. a \in Seq(Bytes) /\ Len(a) \in Nat /\ u.len \in Nat /\ u.len <= Len(a) /\ u.by \in Bytes
  BY ArrayIsSeq, LenProperties, Constants DEF Constants, LargeBlobs!ConstantsOK, Holds, Bytes
<1>2. whole \in Seq(Bytes) /\ Len(whole) = u.len /\ \A i \in 1 .. u.len : whole[i] = u.by
  BY <1>1
<1> HIDE DEF whole
<1>3. /\ SubSeq(a, 1, u.len) \in Seq(Bytes) /\ Len(SubSeq(a, 1, u.len)) = u.len
      /\ \A i \in 1 .. u.len : SubSeq(a, 1, u.len)[i] = u.by
  <2>1. 1 \in 1 .. Len(a) + 1 /\ u.len \in 1 - 1 .. Len(a)
    BY <1>1
  <2>2. /\ SubSeq(a, 1, u.len) \in Seq(Bytes) /\ Len(SubSeq(a, 1, u.len)) = u.len - 1 + 1
        /\ \A i \in 1 .. u.len - 1 + 1 : SubSeq(a, 1, u.len)[i] = a[1 + i - 1]
    BY <1>1, <2>1, SubSeqProperties
  <2> QED  BY <1>1, <2>2 DEF Holds
<1>4. SubSeq(a, 1, u.len) = whole
  BY <1>2, <1>3, SeqEqual
<1>5. SubSeq(whole, 1, Len(whole)) = whole
  BY <1>2, SubSeqFull
<1> QED
  BY <1>1, <1>2, <1>4, <1>5 DEF whole, LargeBlobs!IsPrefix

\* For any platforms, sizes and fragments: the acknowledged fragments of an undisturbed
\* upload are read back whole, from RAM and from the record, over failed writes and losses
\* of power; and nothing of before a Reset that erased the record is read again.
THEOREM LargeBlobsKept == MCSpec => []BlobsKept
<1>1. MCInit => BlobsInv
  BY ArraysInit DEF MCInit, BlobsInv
<1>2. BlobsInv /\ [MCNext]_allvars => BlobsInv'
  BY PartSteps, ArraysStep DEF BlobsInv
<1>3. BlobsInv => BlobsKept
  <2> SUFFICES ASSUME ArrayInv, upload # None PROVE LargeBlobs!UploadKept
    BY DEF BlobsInv, ArrayInv, BlobsKept, LargeBlobs!UploadKept
  <2>1. upload \in [by : Platforms, len : 0 .. MaxSize] /\ large_blobs \in LargeBlobs!Arrays
    BY DEF ArrayInv, LargeBlobs!TypeOK, LargeBlobs!Uploads
  <2>2. ASSUME step = "idle"
        PROVE  LargeBlobs!read_large_blobs(0, upload.len) = [i \in 1 .. upload.len |-> upload.by]
    <3>1. Holds(large_blobs, upload) /\ upload.len \in Nat /\ Len(large_blobs) \in Nat
      BY <2>1, <2>2, ArrayIsSeq, LenProperties, Constants
      DEF ArrayInv, Constants, LargeBlobs!ConstantsOK
    <3>2. LargeBlobs!read_large_blobs(0, upload.len) = SubSeq(large_blobs, 1, upload.len)
      BY <3>1 DEF Holds, LargeBlobs!read_large_blobs, LargeBlobs!min
    <3> QED  BY <2>1, <3>1, <3>2, HeldReadsBack
  <2>3. ASSUME upload.len > 0
        PROVE  disk # Absent /\ LargeBlobs!IsPrefix([i \in 1 .. upload.len |-> upload.by], disk)
    <3>1. disk \in LargeBlobs!Arrays /\ disk # Absent /\ Holds(disk, upload)
      BY <2>3 DEF ArrayInv, LargeBlobs!TypeOK
    <3> QED  BY <2>1, <3>1, HeldReadsBack
  <2> QED
    BY <2>2, <2>3 DEF LargeBlobs!UploadKept
<1> QED
  BY <1>1, <1>2, <1>3, PTL DEF MCSpec

----------------------------------------------------------------------------
(* The chip *)

Base == total - QspiFlash!capacity_for(total)
Capacity == QspiFlash!capacity_for(total)

\* The first n cells of the call in progress are programmed, no other cell has changed.
ProgrammedTo(n) ==
    \A a \in 0 .. total - 1 :
        cells[a] = IF a \in Base + op.offset .. Base + op.offset + n - 1
                   THEN before[a] /\ op.data[a + 1 - (Base + op.offset)] ELSE before[a]

ChipInv ==
    /\ total \in Nat /\ fw_end \in Nat /\ rom \in BOOLEAN
    /\ region # None => /\ region = [base |-> Base, capacity |-> Capacity]
                        /\ Base > fw_end
    /\ QspiFlash!TypeOK /\ QspiFlash!WritesExact /\ QspiFlash!FirmwareKept
    /\ op # None /\ op.status = "busy" =>
          /\ region # None
          /\ op.kind = "erase" => op.offset + SectorSize <= Capacity /\ cells = before
          /\ op.kind = "program" => /\ op.offset + Len(op.data) <= Capacity
                                    /\ op.written < Len(op.data) /\ ProgrammedTo(op.written)
ChipPartInv == part = "chip" => ChipInv

\* Rounding down to a multiple.
LEMMA RoundedDown ==
  ASSUME NEW x \in Nat, NEW p \in Nat \ {0}
  PROVE  (x \div p) * p \in Nat /\ (x \div p) * p <= x /\ x < (x \div p) * p + p
  OBVIOUS

LEMMA LesserOfTwo ==
  ASSUME NEW x \in Int, NEW y \in Int
  PROVE  /\ QspiFlash!Min({x, y}) \in {x, y}
         /\ QspiFlash!Min({x, y}) <= x /\ QspiFlash!Min({x, y}) <= y
<1>1. \E m \in {x, y} : \A n \in {x, y} : m <= n
  <2>1. CASE x <= y
    BY <2>1
  <2>2. CASE ~(x <= y)
    BY <2>2
  <2> QED  BY <2>1, <2>2
<1> QED
  BY <1>1 DEF QspiFlash!Min

\* The region is the end of the chip.
LEMMA RegionFits ==
  ASSUME total \in Nat
  PROVE  Capacity \in Nat /\ Capacity <= total /\ Base \in Nat /\ Base + Capacity = total
<1> DEFINE half == total \div 2
           m == QspiFlash!Min({RegionLen, half})
<1>1. /\ RegionLen \in Nat /\ RegionLen \in Int /\ SectorSize \in Nat \ {0}
      /\ half \in Nat /\ half \in Int /\ half <= total
  BY Constants DEF Constants, QspiFlash!ConstantsOK
<1> HIDE DEF half
<1>2. m \in Nat /\ m <= total
  <2>1. m \in {RegionLen, half} /\ m <= half
    BY <1>1, LesserOfTwo
  <2> QED  BY <1>1, <2>1
<1> HIDE DEF m
<1>3. (m \div SectorSize) * SectorSize \in Nat /\ (m \div SectorSize) * SectorSize <= m
  BY <1>1, <1>2, RoundedDown
<1>4. Capacity = (m \div SectorSize) * SectorSize
  BY DEF Capacity, QspiFlash!capacity_for, m, half
<1>5. Base = total - Capacity
  BY DEF Base, Capacity
<1> QED
  BY <1>2, <1>3, <1>4, <1>5

LEMMA ChipInit == QspiFlash!Init => ChipInv
<1> SUFFICES ASSUME QspiFlash!Init PROVE ChipInv
  OBVIOUS
<1> USE DEF QspiFlash!Init
<1>1. total \in Nat /\ fw_end \in Nat /\ region = None /\ op = None
  BY Constants DEF Constants, QspiFlash!ConstantsOK
<1>2. rom \in BOOLEAN
  BY Zenon
<1>3. cells \in [0 .. total - 1 -> BOOLEAN] /\ before \in [0 .. total - 1 -> BOOLEAN]
  OBVIOUS
<1>4. QspiFlash!TypeOK /\ QspiFlash!WritesExact
  BY <1>1, <1>3 DEF QspiFlash!TypeOK, QspiFlash!WritesExact
<1>5. QspiFlash!FirmwareKept
  <2> SUFFICES ASSUME NEW a \in 0 .. total - 1, a < fw_end PROVE cells[a] = (a % 2 = 0)
    BY <1>1, <1>3 DEF QspiFlash!FirmwareKept
  <2>1. cells[a] = (a >= fw_end \/ a % 2 = 0)
    OBVIOUS
  <2>2. ~(a >= fw_end)
    BY <1>1
  <2> QED  BY <2>1, <2>2
<1> QED
  BY <1>1, <1>2, <1>4, <1>5 DEF ChipInv

LEMMA ChipOpens == ChipInv /\ QspiFlash!open => ChipInv'
<1> SUFFICES ASSUME ChipInv, QspiFlash!open PROVE ChipInv'
  OBVIOUS
<1>1. /\ region = None /\ UNCHANGED <<total, fw_end, rom, cells, op, before>>
      /\ region' = [base |-> Base, capacity |-> Capacity] /\ Base > fw_end
  BY DEF QspiFlash!open, QspiFlash!region_for, Base, Capacity
<1>2. Base + Capacity = total /\ Base \in Nat
  BY RegionFits DEF ChipInv
<1>3. Base' = Base /\ Capacity' = Capacity
  BY <1>1 DEF Base, Capacity, QspiFlash!capacity_for
<1>4. QspiFlash!TypeOK'
  BY <1>1, <1>2 DEF ChipInv, QspiFlash!TypeOK
<1>5. QspiFlash!WritesExact'
  BY <1>1 DEF ChipInv, QspiFlash!WritesExact, QspiFlash!Reach
<1>6. QspiFlash!FirmwareKept'
  BY <1>1, <1>2 DEF ChipInv, QspiFlash!FirmwareKept
<1>7. ~(op # None /\ op.status = "busy")
  BY <1>1 DEF ChipInv
<1> QED
  BY <1>1, <1>3, <1>4, <1>5, <1>6, <1>7 DEF ChipInv

\* A call is taken, refused, or ends at once; it has changed nothing yet.
LEMMA ChipCalls ==
  ASSUME ChipInv, QspiFlash!Idle, NEW kind \in {"erase", "program"}, NEW offset \in Nat,
         NEW data \in Seq(BOOLEAN), NEW status \in {"busy", "ok", "refused", "failed"},
         QspiFlash!Call(kind, offset, data, status),
         status = "busy" /\ kind = "erase" => offset + SectorSize <= Capacity,
         status = "busy" /\ kind = "program" => offset + Len(data) <= Capacity /\ data # <<>>,
         status = "ok" => kind = "program" /\ data = <<>>
  PROVE  ChipInv'
<1>1. /\ op' = [kind |-> kind, offset |-> offset, data |-> data, written |-> 0, status |-> status]
      /\ before' = cells /\ UNCHANGED <<total, fw_end, rom, region, cells>> /\ region # None
  BY DEF QspiFlash!Call, QspiFlash!Idle
<1>2. op' \in QspiFlash!Calls /\ Len(data) \in Nat /\ (data # <<>> => Len(data) > 0)
  BY <1>1, LenProperties, EmptySeq DEF QspiFlash!Calls
<1>3. Base' = Base /\ Capacity' = Capacity /\ Base \in Nat
  BY <1>1, RegionFits DEF ChipInv, Base, Capacity, QspiFlash!capacity_for
<1>4. QspiFlash!TypeOK'
  BY <1>1, <1>2 DEF ChipInv, QspiFlash!TypeOK
<1>5. QspiFlash!WritesExact'
  <2>1. cells' = before'
    BY <1>1
  <2>2. op'.status = "ok" => QspiFlash!Reach' = {}
    <3> SUFFICES ASSUME status = "ok" PROVE QspiFlash!Reach' = {}
      BY <1>1
    <3>1. op'.kind = "program" /\ Len(op'.data) = 0 /\ op'.offset = offset
      BY <1>1, EmptySeq
    <3>2. QspiFlash!Reach' = Base' + offset .. Base' + offset + 0 - 1
      BY <3>1 DEF QspiFlash!Reach, Base
    <3> QED  BY <1>3, <3>2
  <2> QED  BY <2>1, <2>2 DEF QspiFlash!WritesExact
<1>6. QspiFlash!FirmwareKept'
  BY <1>1 DEF ChipInv, QspiFlash!FirmwareKept
<1>7. ASSUME status = "busy", kind = "program" PROVE ProgrammedTo(op.written)'
  <2> SUFFICES ASSUME NEW a \in 0 .. total' - 1
               PROVE  cells'[a] = IF a \in Base' + op'.offset .. Base' + op'.offset + op'.written - 1
                                  THEN before'[a] /\ op'.data[a + 1 - (Base' + op'.offset)]
                                  ELSE before'[a]
    BY DEF ProgrammedTo
  <2>1. a \notin Base' + op'.offset .. Base' + op'.offset + op'.written - 1
    BY <1>1, <1>3 DEF ChipInv
  <2> QED  BY <1>1, <2>1
<1>8. op' # None /\ op'.status = "busy" =>
          /\ region' # None
          /\ op'.kind = "erase" => op'.offset + SectorSize <= Capacity' /\ cells' = before'
          /\ op'.kind = "program" => /\ op'.offset + Len(op'.data) <= Capacity'
                                     /\ op'.written < Len(op'.data) /\ ProgrammedTo(op.written)'
  BY <1>1, <1>2, <1>3, <1>7
<1> QED
  BY <1>1, <1>3, <1>4, <1>5, <1>6, <1>8 DEF ChipInv

\* The commands find out whether the call fits before anything is done.
LEMMA ChipCommands ==
  ASSUME ChipInv,
         \/ \E sector \in 0 .. RegionLen \div SectorSize : QspiFlash!erase_sector(sector)
         \/ \E offset \in 0 .. RegionLen, n \in 0 .. MaxLen : \E data \in [1 .. n -> BOOLEAN] :
               QspiFlash!program(offset, data)
  PROVE  ChipInv'
<1>1. /\ RegionLen \in Nat /\ MaxLen \in Nat /\ SectorSize \in Nat \ {0}
      /\ RegionLen \div SectorSize \in Nat
  BY Constants DEF Constants, QspiFlash!ConstantsOK
<1>2. QspiFlash!Idle => region.capacity = Capacity /\ Capacity \in Nat
  BY RegionFits DEF QspiFlash!Idle, ChipInv
<1>3. ASSUME NEW sector \in 0 .. RegionLen \div SectorSize, QspiFlash!erase_sector(sector)
      PROVE  ChipInv'
  <2> DEFINE offset == sector * SectorSize
  <2>1. QspiFlash!Idle
    BY <1>3 DEF QspiFlash!erase_sector
  <2>2. offset \in Nat /\ (sector + 1) * SectorSize = offset + SectorSize
    BY <1>1
  <2>3. <<>> \in Seq(BOOLEAN)
    BY EmptySeq
  <2>4. PICK status \in {"refused", "failed", "busy"} :
           /\ QspiFlash!Call("erase", offset, <<>>, status)
           /\ status = "busy" => (sector + 1) * SectorSize <= region.capacity
    <3>1. CASE (sector + 1) * SectorSize > region.capacity
      BY <1>3, <3>1 DEF QspiFlash!erase_sector
    <3>2. CASE (sector + 1) * SectorSize <= region.capacity /\ ~rom
      BY <1>3, <3>2 DEF QspiFlash!erase_sector
    <3>3. CASE /\ ~((sector + 1) * SectorSize > region.capacity)
               /\ ~((sector + 1) * SectorSize <= region.capacity /\ ~rom)
      <4>1. (sector + 1) * SectorSize <= region.capacity
        BY <1>1, <1>2, <2>1, <2>2, <3>3
      <4> QED  BY <1>3, <3>3, <4>1 DEF QspiFlash!erase_sector
    <3> QED  BY <3>1, <3>2, <3>3
  <2>5. status = "busy" => offset + SectorSize <= Capacity
    BY <1>2, <2>1, <2>2, <2>4
  <2> HIDE DEF offset
  <2> QED
    BY <2>1, <2>2, <2>3, <2>4, <2>5, ChipCalls
<1>4. ASSUME NEW offset \in 0 .. RegionLen, NEW n \in 0 .. MaxLen, NEW data \in [1 .. n -> BOOLEAN],
             QspiFlash!program(offset, data)
      PROVE  ChipInv'
  <2>1. QspiFlash!Idle
    BY <1>4 DEF QspiFlash!program
  <2>2. offset \in Nat /\ data \in Seq(BOOLEAN) /\ Len(data) \in Nat
    BY <1>1, LenProperties
  <2>3. PICK status \in {"refused", "ok", "failed", "busy"} :
           /\ QspiFlash!Call("program", offset, data, status)
           /\ status = "busy" => offset + Len(data) <= region.capacity /\ data # <<>>
           /\ status = "ok" => data = <<>>
    <3>1. CASE offset + Len(data) > region.capacity
      BY <1>4, <3>1 DEF QspiFlash!program
    <3>2. CASE offset + Len(data) <= region.capacity /\ data = <<>>
      BY <1>4, <3>2 DEF QspiFlash!program
    <3>3. CASE offset + Len(data) <= region.capacity /\ data # <<>> /\ ~rom
      BY <1>4, <3>3 DEF QspiFlash!program
    <3>4. CASE /\ ~(offset + Len(data) > region.capacity)
               /\ ~(offset + Len(data) <= region.capacity /\ data = <<>>)
               /\ ~(offset + Len(data) <= region.capacity /\ data # <<>> /\ ~rom)
      <4>1. offset + Len(data) <= region.capacity /\ data # <<>>
        BY <1>2, <2>1, <2>2, <3>4
      <4> QED  BY <1>4, <3>4, <4>1 DEF QspiFlash!program
    <3> QED  BY <3>1, <3>2, <3>3, <3>4
  <2> QED
    BY <1>2, <2>1, <2>2, <2>3, ChipCalls
<1> QED
  BY <1>3, <1>4

\* Pages and data: b is the base, o the offset, w of n cells are written, p a page.
LEMMA PageArithmetic ==
  ASSUME NEW b \in Nat, NEW o \in Nat, NEW w \in Nat, NEW n \in Nat, w < n, NEW p \in Nat \ {0}
  PROVE  LET ps == ((o + w) \div p) * p
             t == QspiFlash!Min({ps + p - (o + w), n - w})
         IN  /\ ps \in Nat /\ t \in Nat /\ t > 0 /\ w + t <= n
             /\ b + ps .. b + ps + p - 1 \subseteq {a \in Nat : a >= b}
             /\ b + o + w .. b + o + w + t - 1 \subseteq b + ps .. b + ps + p - 1
             /\ \A a \in Nat : a - b - o + 1 \in w + 1 .. w + t <=> a \in b + o + w .. b + o + w + t - 1
<1> DEFINE x == o + w
           ps == (x \div p) * p
           y == ps + p - x
           z == n - w
           t == QspiFlash!Min({y, z})
<1>1. x \in Nat
  OBVIOUS
<1> HIDE DEF x
<1>2. ps \in Nat /\ ps <= x /\ x < ps + p
  BY <1>1, RoundedDown
<1> HIDE DEF ps
<1>3. y \in Int /\ z \in Int /\ y > 0 /\ z > 0
  BY <1>1, <1>2
<1>4. t \in {y, z} /\ t <= y /\ t <= z
  BY <1>3, LesserOfTwo
<1> HIDE DEF t
<1>5. t \in Nat /\ t > 0 /\ w + t <= n /\ x + t <= ps + p
  BY <1>1, <1>2, <1>3, <1>4
<1>6. /\ b + ps .. b + ps + p - 1 \subseteq {a \in Nat : a >= b}
      /\ b + x .. b + x + t - 1 \subseteq b + ps .. b + ps + p - 1
  BY <1>1, <1>2, <1>5
<1>7. \A a \in Nat : a - b - o + 1 \in w + 1 .. w + t <=> a \in b + o + w .. b + o + w + t - 1
  BY <1>5
<1>8. b + x = b + o + w
  BY DEF x
<1> QED
  BY <1>2, <1>5, <1>6, <1>7, <1>8 DEF x, ps, t

\* The page the call is at holds the next cells of the data, and at least one of them;
\* programming any part of it changes no other cell.
LEMMA PageOfData ==
  ASSUME ChipInv, QspiFlash!Busy("program"), NEW done \in SUBSET QspiFlash!Page
  PROVE  LET at == Base + op.offset + op.written
             t == QspiFlash!take
         IN  /\ t \in Nat /\ t > 0 /\ op.written + t <= Len(op.data)
             /\ at \in Nat /\ at + t <= total
             /\ \A a \in at .. at + t - 1 : a \in QspiFlash!Page
             /\ \A a \in QspiFlash!Page : a >= Base
             /\ \A a \in 0 .. total - 1 :
                   QspiFlash!Programmed(done)[a] =
                      IF a \in done /\ a \in at .. at + t - 1
                      THEN cells[a] /\ op.data[a + 1 - (Base + op.offset)] ELSE cells[a]
<1>1. PICK o \in Nat, w \in Nat, n \in Nat, b \in Nat :
         /\ o = op.offset /\ w = op.written /\ n = Len(op.data) /\ b = Base /\ b = region.base
         /\ w < n /\ o + n <= Capacity
  <2>1. /\ op.offset \in Nat /\ op.written \in Nat /\ op.data \in Seq(BOOLEAN)
        /\ op.written < Len(op.data) /\ op.offset + Len(op.data) <= Capacity
        /\ region.base = Base
    BY DEF ChipInv, QspiFlash!Busy, QspiFlash!TypeOK, QspiFlash!Calls
  <2>2. Base \in Nat /\ Len(op.data) \in Nat
    BY <2>1, RegionFits, LenProperties DEF ChipInv
  <2> QED  BY <2>1, <2>2
<1>2. /\ Capacity \in Nat /\ b + Capacity = total /\ PageSize \in Nat \ {0} /\ total \in Nat
      /\ w < n /\ o + n <= Capacity
  BY <1>1, RegionFits, Constants DEF ChipInv, Constants, QspiFlash!ConstantsOK
<1> DEFINE ps == ((o + w) \div PageSize) * PageSize
           t == QspiFlash!Min({ps + PageSize - (o + w), n - w})
           at == b + o + w
           P == b + ps .. b + ps + PageSize - 1
<1>3. QspiFlash!Page = P /\ QspiFlash!take = t
  BY <1>1 DEF QspiFlash!Page, QspiFlash!take, QspiFlash!page_start
<1>4. /\ ps \in Nat /\ t \in Nat /\ t > 0 /\ w + t <= n /\ P \subseteq {a \in Nat : a >= b}
      /\ at .. at + t - 1 \subseteq P
      /\ \A a \in Nat : a - b - o + 1 \in w + 1 .. w + t <=> a \in at .. at + t - 1
  BY <1>2, PageArithmetic
<1> HIDE DEF ps, t
<1>5. at \in Nat /\ at + t <= total
  BY <1>2, <1>4
<1> HIDE DEF P
<1>6. ASSUME NEW a \in 0 .. total - 1
      PROVE  QspiFlash!Programmed(done)[a] =
                IF a \in done /\ a \in at .. at + t - 1
                THEN cells[a] /\ op.data[a + 1 - (b + o)] ELSE cells[a]
  <2>1. cells \in [0 .. total - 1 -> BOOLEAN] /\ cells[a] \in BOOLEAN
    BY DEF ChipInv, QspiFlash!TypeOK
  <2>2. QspiFlash!Programmed(done)[a] = IF a \in done THEN cells[a] /\ QspiFlash!page_buf[a] ELSE cells[a]
    BY <2>1 DEF QspiFlash!Programmed
  <2> DEFINE i == a - b - o + 1
  <2>3. a \in done => QspiFlash!page_buf[a] = IF i \in w + 1 .. w + t THEN op.data[i] ELSE cells[a]
    BY <1>1, <1>3 DEF QspiFlash!page_buf
  <2>4. (i \in w + 1 .. w + t <=> a \in at .. at + t - 1) /\ i = a + 1 - (b + o)
    BY <1>2, <1>4
  <2> HIDE DEF i, at
  <2>5. CASE a \notin done
    BY <2>2, <2>5
  <2>6. CASE a \in done /\ a \in at .. at + t - 1
    <3>1. QspiFlash!page_buf[a] = op.data[a + 1 - (b + o)]
      BY <2>3, <2>4, <2>6
    <3> QED  BY <2>2, <2>6, <3>1
  <2>7. CASE a \in done /\ a \notin at .. at + t - 1
    <3>1. QspiFlash!page_buf[a] = cells[a]
      BY <2>3, <2>4, <2>7
    <3> QED  BY <2>1, <2>2, <2>7, <3>1
  <2> QED  BY <2>5, <2>6, <2>7
<1>7. at = Base + op.offset + op.written /\ Len(op.data) = n /\ op.written = w /\ b + o = Base + op.offset
      /\ b = Base
  BY <1>1
<1> HIDE DEF at
<1>8. /\ \A a \in at .. at + t - 1 : a \in QspiFlash!Page
      /\ \A a \in QspiFlash!Page : a >= b
  BY <1>3, <1>4
<1> QED
  BY <1>3, <1>4, <1>5, <1>6, <1>7, <1>8

\* What any part of a page programmed leaves alone.
LEMMA PageSpares ==
  ASSUME ChipInv, QspiFlash!Busy("program"), NEW done \in SUBSET QspiFlash!Page,
         cells' = QspiFlash!Programmed(done)
  PROVE  /\ cells' \in [0 .. total - 1 -> BOOLEAN]
         /\ \A a \in 0 .. total - 1 :
               a \notin Base + op.offset .. Base + op.offset + Len(op.data) - 1 => cells'[a] = before[a]
         /\ \A a \in 0 .. total - 1 : a < fw_end => cells'[a] = cells[a]
<1>1. cells \in [0 .. total - 1 -> BOOLEAN]
  BY DEF ChipInv, QspiFlash!TypeOK
<1>2. cells' \in [0 .. total - 1 -> BOOLEAN]
  BY <1>1 DEF QspiFlash!Programmed
<1>3. PICK o \in Nat, w \in Nat, n \in Nat, b \in Nat :
         o = op.offset /\ w = op.written /\ n = Len(op.data) /\ b = Base
  <2>1. op.offset \in Nat /\ op.written \in Nat /\ op.data \in Seq(BOOLEAN) /\ Base \in Nat
    BY RegionFits DEF ChipInv, QspiFlash!Busy, QspiFlash!TypeOK, QspiFlash!Calls
  <2> QED  BY <2>1, LenProperties
<1> DEFINE t == QspiFlash!take
           at == b + o + w
<1>4. /\ t \in Nat /\ w + t <= n
      /\ \A a \in 0 .. total - 1 :
            cells'[a] = IF a \in done /\ a \in at .. at + t - 1
                        THEN cells[a] /\ op.data[a + 1 - (b + o)] ELSE cells[a]
  BY <1>3, PageOfData
<1> HIDE DEF t
<1>5. ASSUME NEW a \in 0 .. total - 1, a \notin b + o .. b + o + n - 1 PROVE cells'[a] = before[a]
  <2>1. a \notin at .. at + t - 1 /\ a \notin b + o .. b + o + w - 1
    BY <1>4, <1>5
  <2>2. cells'[a] = cells[a]
    BY <1>4, <2>1
  <2>3. cells[a] = before[a]
    BY <1>3, <2>1 DEF ChipInv, QspiFlash!Busy, ProgrammedTo
  <2> QED  BY <2>2, <2>3
<1>6. ASSUME NEW a \in 0 .. total - 1, a < fw_end PROVE cells'[a] = cells[a]
  <2>1. b > fw_end /\ fw_end \in Nat
    BY <1>3 DEF ChipInv, QspiFlash!Busy
  <2>2. a \notin at .. at + t - 1
    BY <1>4, <1>6, <2>1
  <2> QED  BY <1>4, <2>2
<1> QED
  BY <1>2, <1>3, <1>5, <1>6

\* The rest of a step of a call: given what became of the cells, the invariant.
LEMMA ChipKept ==
  ASSUME ChipInv, op # None, op.status = "busy", UNCHANGED <<total, fw_end, rom, before>>,
         region' = region \/ region' = None,
         cells' \in [0 .. total - 1 -> BOOLEAN],
         \A a \in 0 .. total - 1 : a < fw_end => cells'[a] = cells[a],
         NEW wr \in Nat, wr <= Len(op.data), NEW st \in {"busy", "ok", "cut"},
         op' = [kind |-> op.kind, offset |-> op.offset, data |-> op.data, written |-> wr, status |-> st],
         \A a \in 0 .. total - 1 : a \notin QspiFlash!Reach => cells'[a] = before[a],
         st = "ok" => \A a \in QspiFlash!Reach :
              cells'[a] = IF op.kind = "erase" THEN TRUE
                          ELSE before[a] /\ op.data[a + 1 - (Base + op.offset)],
         st = "busy" => /\ op.kind = "program" /\ wr < Len(op.data) /\ region' = region
                        /\ ProgrammedTo(op.written)'
  PROVE  ChipInv'
<1>1. op \in QspiFlash!Calls /\ region # None
  BY DEF ChipInv, QspiFlash!TypeOK
<1>2. op' \in QspiFlash!Calls
  BY <1>1 DEF QspiFlash!Calls
<1>3. Base' = Base /\ Capacity' = Capacity /\ QspiFlash!Reach' = QspiFlash!Reach
  BY DEF Base, Capacity, QspiFlash!capacity_for, QspiFlash!Reach
<1>4. DOMAIN cells' = 0 .. total - 1
  OBVIOUS
<1>5. QspiFlash!TypeOK'
  BY <1>2 DEF ChipInv, QspiFlash!TypeOK
<1>6. QspiFlash!FirmwareKept'
  <2>1. \A a \in 0 .. total - 1 : a < fw_end => cells'[a] = (a % 2 = 0)
    BY DEF ChipInv, QspiFlash!FirmwareKept, QspiFlash!TypeOK
  <2>2. region' # None => region'.base >= fw_end
    BY DEF ChipInv, QspiFlash!FirmwareKept
  <2> QED  BY <1>4, <2>1, <2>2 DEF QspiFlash!FirmwareKept
<1>7. QspiFlash!WritesExact'
  <2>1. op'.status = st /\ op'.kind = op.kind /\ op'.data = op.data /\ op'.offset = op.offset
    OBVIOUS
  <2>2. (total' - QspiFlash!capacity_for(total')) = Base
    BY <1>3 DEF Base
  <2> QED  BY <1>3, <1>4, <2>1, <2>2 DEF QspiFlash!WritesExact
<1>8. op'.status = "busy" => /\ region' # None /\ op'.kind = "program"
                             /\ op'.offset + Len(op'.data) <= Capacity'
                             /\ op'.written < Len(op'.data) /\ ProgrammedTo(op.written)'
  BY <1>1, <1>3 DEF ChipInv
<1>9. /\ total' \in Nat /\ fw_end' \in Nat /\ rom' \in BOOLEAN
      /\ region' # None => region' = [base |-> Base', capacity |-> Capacity'] /\ Base' > fw_end'
  BY <1>3 DEF ChipInv
<1> QED
  BY <1>5, <1>6, <1>7, <1>8, <1>9 DEF ChipInv

LEMMA ChipPrograms == ChipInv /\ QspiFlash!ProgramPage => ChipInv'
<1> SUFFICES ASSUME ChipInv, QspiFlash!ProgramPage PROVE ChipInv'
  OBVIOUS
<1>1. /\ QspiFlash!Busy("program") /\ cells' = QspiFlash!Programmed(QspiFlash!Page)
      /\ UNCHANGED <<total, fw_end, rom, region, before>>
      /\ op # None /\ op.status = "busy" /\ op.kind = "program" /\ op \in QspiFlash!Calls
  BY DEF QspiFlash!ProgramPage, QspiFlash!Busy, ChipInv, QspiFlash!TypeOK
<1>2. PICK o \in Nat, w \in Nat, n \in Nat, b \in Nat :
         o = op.offset /\ w = op.written /\ n = Len(op.data) /\ b = Base
  <2>1. op.offset \in Nat /\ op.written \in Nat /\ op.data \in Seq(BOOLEAN) /\ Base \in Nat
    BY <1>1, RegionFits DEF ChipInv, QspiFlash!Calls
  <2> QED  BY <2>1, LenProperties
<1> DEFINE t == QspiFlash!take
           at == b + o + w
<1>3. /\ t \in Nat /\ t > 0 /\ w + t <= n /\ at \in Nat /\ at + t <= total
      /\ \A a \in at .. at + t - 1 : a \in QspiFlash!Page
      /\ \A a \in 0 .. total - 1 :
            cells'[a] = IF a \in QspiFlash!Page /\ a \in at .. at + t - 1
                        THEN cells[a] /\ op.data[a + 1 - (b + o)] ELSE cells[a]
  BY <1>1, <1>2, PageOfData
<1>4. op' = [kind |-> op.kind, offset |-> op.offset, data |-> op.data, written |-> w + t,
             status |-> IF w + t = n THEN "ok" ELSE "busy"]
  BY <1>1, <1>2 DEF QspiFlash!ProgramPage, QspiFlash!Calls
<1> HIDE DEF t
<1>5. \A a \in 0 .. total - 1 :
         cells'[a] = IF a \in b + o .. b + o + (w + t) - 1
                     THEN before[a] /\ op.data[a + 1 - (b + o)] ELSE before[a]
  <2> SUFFICES ASSUME NEW a \in 0 .. total - 1
               PROVE  cells'[a] = IF a \in b + o .. b + o + (w + t) - 1
                                  THEN before[a] /\ op.data[a + 1 - (b + o)] ELSE before[a]
    OBVIOUS
  <2>1. cells[a] = IF a \in b + o .. b + o + w - 1
                   THEN before[a] /\ op.data[a + 1 - (b + o)] ELSE before[a]
    BY <1>1, <1>2 DEF ChipInv, ProgrammedTo
  <2>2. CASE a \in at .. at + t - 1
    <3>1. a \notin b + o .. b + o + w - 1 /\ a \in b + o .. b + o + (w + t) - 1
      BY <1>3, <2>2
    <3>2. cells[a] = before[a] /\ cells'[a] = (cells[a] /\ op.data[a + 1 - (b + o)])
      BY <1>3, <2>1, <2>2, <3>1
    <3> QED  BY <3>1, <3>2
  <2>3. CASE a \notin at .. at + t - 1
    <3>1. a \in b + o .. b + o + w - 1 <=> a \in b + o .. b + o + (w + t) - 1
      BY <1>3, <2>3
    <3>2. cells'[a] = cells[a]
      BY <1>3, <2>3
    <3> QED  BY <2>1, <3>1, <3>2
  <2> QED  BY <2>2, <2>3
<1>6. QspiFlash!Reach = b + o .. b + o + n - 1
  BY <1>1, <1>2 DEF QspiFlash!Reach, Base
<1>7. \A a \in 0 .. total - 1 : a \notin QspiFlash!Reach => cells'[a] = before[a]
  BY <1>1, <1>2, <1>6, PageSpares
<1>8. w + t = n => \A a \in QspiFlash!Reach : cells'[a] = (before[a] /\ op.data[a + 1 - (b + o)])
  <2> SUFFICES ASSUME w + t = n, NEW a \in b + o .. b + o + n - 1
               PROVE  a \in 0 .. total - 1 /\ a \in b + o .. b + o + (w + t) - 1
    BY <1>5, <1>6
  <2>1. t \in Nat /\ b + o + w + t <= total /\ total \in Nat
    BY <1>3 DEF ChipInv
  <2> QED  BY <2>1
<1>9. w + t # n => ProgrammedTo(op.written)'
  <2>1. Base' = b /\ op'.offset = o /\ op'.written = w + t /\ op'.data = op.data
    BY <1>1, <1>2, <1>4 DEF Base, QspiFlash!capacity_for
  <2> QED  BY <1>1, <1>5, <2>1 DEF ProgrammedTo
<1>10. /\ cells' \in [0 .. total - 1 -> BOOLEAN]
       /\ \A a \in 0 .. total - 1 : a < fw_end => cells'[a] = cells[a]
  BY <1>1, PageSpares
<1> DEFINE st == IF w + t = n THEN "ok" ELSE "busy"
           wr == w + t
<1>11. /\ st \in {"busy", "ok", "cut"} /\ wr \in Nat /\ wr <= Len(op.data)
       /\ op' = [kind |-> op.kind, offset |-> op.offset, data |-> op.data, written |-> wr, status |-> st]
       /\ st = "ok" => \A a \in QspiFlash!Reach :
              cells'[a] = IF op.kind = "erase" THEN TRUE
                          ELSE before[a] /\ op.data[a + 1 - (Base + op.offset)]
       /\ st = "busy" => /\ op.kind = "program" /\ wr < Len(op.data) /\ region' = region
                         /\ ProgrammedTo(op.written)'
  <2>1. st \in {"busy", "ok", "cut"} /\ wr \in Nat /\ wr <= n
    BY <1>3
  <2>2. st = "ok" => w + t = n
    OBVIOUS
  <2>3. st = "busy" => w + t # n /\ wr < n
    BY <1>3
  <2>4. b + o = Base + op.offset
    BY <1>2
  <2> QED
    BY <1>1, <1>2, <1>4, <1>8, <1>9, <2>1, <2>2, <2>3, <2>4
<1> HIDE DEF st, wr
<1> QED
  BY <1>1, <1>7, <1>10, <1>11, ChipKept

\* Erasing, whole or cut short, touches the sector alone.
LEMMA ChipErases ==
  ASSUME ChipInv, QspiFlash!Busy("erase"), UNCHANGED <<total, fw_end, rom, before>>,
         NEW st \in {"ok", "cut"}, op' = [op EXCEPT !.status = st], region' = region \/ region' = None,
         cells' \in [0 .. total - 1 -> BOOLEAN],
         \A a \in 0 .. total - 1 : a \notin QspiFlash!Sector => cells'[a] = cells[a],
         st = "ok" => \A a \in 0 .. total - 1 : a \in QspiFlash!Sector => cells'[a] = TRUE
  PROVE  ChipInv'
<1>1. /\ op # None /\ op.status = "busy" /\ op.kind = "erase" /\ op \in QspiFlash!Calls
      /\ op.written <= Len(op.data) /\ op.offset + SectorSize <= Capacity /\ cells = before
      /\ region.base = Base /\ Base > fw_end /\ fw_end \in Nat
  BY DEF QspiFlash!Busy, ChipInv, QspiFlash!TypeOK
<1>2. PICK o \in Nat, b \in Nat : o = op.offset /\ b = Base /\ o + SectorSize <= Capacity
                                  /\ b + Capacity = total /\ Capacity \in Nat /\ SectorSize \in Nat
  BY <1>1, RegionFits, Constants DEF ChipInv, QspiFlash!Calls, Constants, QspiFlash!ConstantsOK
<1>3. QspiFlash!Sector = b + o .. b + o + SectorSize - 1 /\ QspiFlash!Reach = QspiFlash!Sector
  BY <1>1, <1>2 DEF QspiFlash!Sector, QspiFlash!Reach, Base
<1>4. \A a \in QspiFlash!Sector : a \in 0 .. total - 1
  BY <1>2, <1>3
<1>5. \A a \in 0 .. total - 1 : a < fw_end => a \notin QspiFlash!Sector
  BY <1>1, <1>2, <1>3
<1>6. op' = [kind |-> op.kind, offset |-> op.offset, data |-> op.data, written |-> op.written, status |-> st]
  BY <1>1 DEF QspiFlash!Calls
<1>7. op.written \in Nat
  BY <1>1 DEF QspiFlash!Calls
<1>8. st = "ok" => \A a \in QspiFlash!Reach :
           cells'[a] = IF op.kind = "erase" THEN TRUE
                       ELSE before[a] /\ op.data[a + 1 - (Base + op.offset)]
  BY <1>1, <1>3, <1>4
<1>9. \A a \in 0 .. total - 1 : a \notin QspiFlash!Reach => cells'[a] = before[a]
  BY <1>1, <1>3
<1>10. \A a \in 0 .. total - 1 : a < fw_end => cells'[a] = cells[a]
  BY <1>5
<1> QED
  BY <1>1, <1>6, <1>7, <1>8, <1>9, <1>10, ChipKept

LEMMA ChipStep ==
  ASSUME ChipInv, [QspiFlash!Next]_(QspiFlash!vars)
  PROVE  ChipInv'
<1>0. cells \in [0 .. total - 1 -> BOOLEAN]
  BY DEF ChipInv, QspiFlash!TypeOK
<1>1. CASE QspiFlash!Erase
  <2>1. /\ QspiFlash!Busy("erase") /\ UNCHANGED <<total, fw_end, rom, region, before>>
        /\ op' = [op EXCEPT !.status = "ok"]
        /\ cells' = [a \in 0 .. total - 1 |-> cells[a] \/ a \in QspiFlash!Sector]
    BY <1>0, <1>1 DEF QspiFlash!Erase
  <2>2. cells' \in [0 .. total - 1 -> BOOLEAN]
    BY <2>1
  <2>3. /\ \A a \in 0 .. total - 1 : a \notin QspiFlash!Sector => cells'[a] = cells[a]
        /\ \A a \in 0 .. total - 1 : a \in QspiFlash!Sector => cells'[a] = TRUE
    BY <1>0, <2>1
  <2> QED  BY <2>1, <2>2, <2>3, ChipErases
<1>2. CASE QspiFlash!PowerLoss
  <2>1. /\ UNCHANGED <<total, fw_end, rom, before>> /\ region' = None
        /\ op' = [op EXCEPT !.status = "cut"]
    BY <1>2 DEF QspiFlash!PowerLoss
  <2>2. ASSUME QspiFlash!Busy("program"), NEW done \in SUBSET QspiFlash!Page,
               cells' = QspiFlash!Programmed(done)
        PROVE  ChipInv'
    <3>1. /\ op # None /\ op.status = "busy" /\ op.kind = "program" /\ op \in QspiFlash!Calls
          /\ op.written <= Len(op.data) /\ op.written \in Nat
      BY <2>2 DEF QspiFlash!Busy, ChipInv, QspiFlash!TypeOK, QspiFlash!Calls
    <3>2. op' = [kind |-> op.kind, offset |-> op.offset, data |-> op.data, written |-> op.written,
                 status |-> "cut"]
      BY <2>1, <3>1 DEF QspiFlash!Calls
    <3>3. QspiFlash!Reach = Base + op.offset .. Base + op.offset + Len(op.data) - 1
      BY <3>1 DEF QspiFlash!Reach, Base
    <3>4. /\ cells' \in [0 .. total - 1 -> BOOLEAN]
          /\ \A a \in 0 .. total - 1 : a \notin QspiFlash!Reach => cells'[a] = before[a]
          /\ \A a \in 0 .. total - 1 : a < fw_end => cells'[a] = cells[a]
      BY <2>2, <3>3, PageSpares
    <3> QED  BY <2>1, <3>1, <3>2, <3>4, ChipKept
  <2>3. ASSUME QspiFlash!Busy("erase"), NEW set \in SUBSET QspiFlash!Sector,
               cells' = [a \in DOMAIN cells |-> IF a \in QspiFlash!Sector THEN a \in set ELSE cells[a]]
        PROVE  ChipInv'
    <3>1. cells' \in [0 .. total - 1 -> BOOLEAN]
      <4>1. \A a \in 0 .. total - 1 :
               (IF a \in QspiFlash!Sector THEN a \in set ELSE cells[a]) \in BOOLEAN
        <5>1. \A a \in 0 .. total - 1 : cells[a] \in BOOLEAN
          BY <1>0
        <5>2. \A a : (a \in set) \in BOOLEAN
          OBVIOUS
        <5> QED  BY <5>1, <5>2, Zenon
      <4>2. DOMAIN cells = 0 .. total - 1
        BY <1>0
      <4> QED  BY <2>3, <4>1, <4>2, Zenon
    <3>2. \A a \in 0 .. total - 1 : a \notin QspiFlash!Sector => cells'[a] = cells[a]
      BY <1>0, <2>3
    <3> QED  BY <2>1, <2>3, <3>1, <3>2, ChipErases
  <2> QED  BY <1>2, <2>2, <2>3 DEF QspiFlash!PowerLoss
<1>3. CASE UNCHANGED QspiFlash!vars
  BY <1>3 DEF QspiFlash!vars, ChipInv, QspiFlash!TypeOK, QspiFlash!WritesExact, QspiFlash!Reach,
              QspiFlash!FirmwareKept, ProgrammedTo, Base, Capacity
<1> QED
  BY <1>1, <1>2, <1>3, ChipOpens, ChipCommands, ChipPrograms DEF QspiFlash!Next

\* For any chip, image, page and sector size: a call changes the cells it is about and no
\* other one, wherever it crosses a page and wherever the power goes; what it acknowledged
\* is there; and the firmware's cells stand.
THEOREM ChipWritesExact == MCSpec => []WritesExact
<1>1. MCInit => ChipPartInv
  BY ChipInit DEF MCInit, ChipPartInv
<1>2. ChipPartInv /\ [MCNext]_allvars => ChipPartInv'
  BY PartSteps, ChipStep DEF ChipPartInv
<1>3. ChipPartInv => WritesExact
  BY DEF ChipPartInv, ChipInv, WritesExact
<1> QED
  BY <1>1, <1>2, <1>3, PTL DEF MCSpec
=============================================================================
