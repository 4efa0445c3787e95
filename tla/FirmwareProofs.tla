--------------------------- MODULE FirmwareProofs ---------------------------
(***************************************************************************)
(* Proofs about the RP2350 firmware: its CTAPHID channels for any number   *)
(* of programs, channels, packets and requests, and its start for any      *)
(* applets and any width of the entropy state.                             *)
(***************************************************************************)
EXTENDS MCFirmware, FiniteSetTheorems, SequenceTheorems, WellFoundedInduction, TLAPS

----------------------------------------------------------------------------
(* CTAPHID *)

InFlight == {ep_out, out_buf} \ {None}

\* A packet is of the program that has its channel; only INIT goes to broadcast, and
\* only CBOR is longer than a packet.
HidPackets ==
    \A p \in InFlight :
        /\ p.cid = CtapHid!Broadcast <=> p.cmd = "init"
        /\ p.cmd \in {"init", "cancel"} => p.total = 1
        /\ p.cmd # "cont" => p.tag.index = 0
        /\ p.cid # CtapHid!Broadcast => client[p.tag.from].cid = p.cid
        /\ p.tag.number <= client[p.tag.from].number

\* Packets of one program in sequence and, if none was lost, of one request.
Consecutive(buffer, lost) ==
    \A i \in DOMAIN buffer :
        /\ buffer[i].index = i - 1 /\ buffer[i].from = buffer[1].from
        /\ lost \/ buffer[i].number = buffer[1].number

HidAssembly ==
    active_state # None =>
        /\ active_state.cid # CtapHid!Broadcast /\ active_state.cmd = "cbor"
        /\ active_state.buffer # <<>> /\ Consecutive(active_state.buffer, overrun)
        /\ client[active_state.buffer[1].from].cid = active_state.cid

\* A program that still has packets to send has its channel and has sent the first.
HidClients ==
    \A c \in Clients :
        /\ client[c].waiting => client[c].number > 0
        /\ client[c].left > 0 => /\ client[c].left < client[c].total
                                 /\ client[c].total <= MaxPackets
                                 /\ client[c].cid # CtapHid!Broadcast
        /\ client[c].cid # CtapHid!Broadcast => client[c].cid \in Range(active_channels)

\* A channel on its way to the program that asked for it is nobody's yet.
HidAssigned ==
    \A i \in DOMAIN tx :
        tx[i].assigned # None =>
            /\ Len(tx) = 1 /\ tx[i].cid = CtapHid!Broadcast
            /\ tx[i].assigned \in Range(active_channels)
            /\ \A c \in Clients : client[c].cid # tx[i].assigned

\* Every channel was allocated to a request of its own that is no longer on its way.
Started == {r \in Clients \X (1 .. MaxRequests) : r[2] <= client[r[1]].number}
OnTheWay == {<<p.tag.from, p.tag.number>> : p \in {q \in InFlight : q.cmd = "init"}}
HidAllocated == Len(active_channels) <= Cardinality(Started \ OnTheWay)

\* As long as no packet was lost, what arrives is what its program is sending, or the
\* first packet of another request comes before the next of this one.
NewComes == \E p \in InFlight : p.cmd # "cont"
HidOrder ==
    /\ ep_out # None => ep_out.tag.number = client[ep_out.tag.from].number
    /\ ~overrun /\ out_buf # None =>
          \/ out_buf.tag.number = client[out_buf.tag.from].number
          \/ ep_out # None /\ ep_out.cmd # "cont"
    /\ ~overrun /\ active_state # None =>
          \/ active_state.buffer[1].number = client[active_state.buffer[1].from].number
          \/ NewComes

HidInv ==
    /\ CtapHid!TypeOK /\ CtapHid!MessagesIntact /\ CtapHid!NoSharedChannel
    /\ HidPackets /\ HidAssembly /\ HidClients /\ HidAssigned /\ HidAllocated /\ HidOrder


----------------------------------------------------------------------------
(* The start *)

\* The stages of main().
BootStages ==
    /\ pc \in {"off", "seeded", "flash"} => loaded = 0 /\ changes = 0
    /\ pc = "load" => loaded < Len(Applets) /\ changes = 0
    /\ pc = "run" => loaded = Len(Applets)
    /\ pc # "off" => boots > 0
    /\ pc \in {"load", "run"} => key \in Seq(Firmware!Words)

\* Every applet made has its state and a record that opens.
BootLoaded ==
    pc \in {"load", "run"} =>
        \A i \in 1 .. loaded : /\ state[Applets[i]] # None /\ disk[Applets[i]] # None
                               /\ disk[Applets[i]].key = key

\* A record is what the host was told last or a factory state, whatever key it has.
BootTold ==
    \A a \in Firmware!Names :
        /\ disk[a] # None => disk[a].text = told[a] \/ disk[a].text.changed = 0
        /\ state[a] # None /\ changes = 0 => state[a] = told[a] \/ state[a].changed = 0

\* No applet was changed more often than the starts so far allow.
Budget == IF pc = "off" THEN boots * MaxChanges ELSE (boots - 1) * MaxChanges + changes
BootChanged ==
    \A a \in Firmware!Names :
        /\ disk[a] # None => disk[a].text.changed <= Budget
        /\ state[a] # None => state[a].changed <= Budget

\* The master key tells the seed it was made from; the nonces under the key of this start
\* were drawn at earlier points of its one sequence, of which the state is the last.
Most == CHOOSE most \in 0 .. Firmware!States :
            /\ \A a \in Firmware!Names : IdWords[a] <= most
            /\ 6 + Len(Applets) * (most + 3) + 2 * MaxChanges < Firmware!States
DrawnAtMost == 4 + loaded * (Most + 3) + 2 * changes
KeyOf(seed) == Firmware!Filled(Firmware!splitmix64(seed, 2), 4)
Drawn(r, seed, drawn) ==
    \E k \in 0 .. drawn - 2 : r.nonce = Firmware!Filled(Firmware!splitmix64(seed, 2 + k), 2)
BootKeys ==
    /\ \A r \in seals : \E seed \in seeds : r.key = KeyOf(seed)
    /\ pc \in {"seeded", "flash"} =>
          \E seed \in seeds : /\ rng = Firmware!splitmix64(seed, 2)
                              /\ repeated \/ \A r \in seals : r.key # KeyOf(seed)
    /\ pc \in {"load", "run"} =>
          \E seed \in seeds, drawn \in 0 .. DrawnAtMost :
              /\ key = KeyOf(seed) /\ rng = Firmware!splitmix64(seed, 2 + drawn)
              /\ repeated \/ \A r \in seals : r.key = key => Drawn(r, seed, drawn)

BootInv ==
    /\ Firmware!TypeOK /\ Firmware!NonceOnce
    /\ BootStages /\ BootLoaded /\ BootTold /\ BootChanged /\ BootKeys

----------------------------------------------------------------------------
(* The wait for a touch *)

\* A round with a reading up was not pressed throughout, so none was missed.
TouchInv ==
    /\ Presence!TypeOK /\ Presence!CleanReturn /\ ~missed
    /\ steady => pressed
    /\ pc = "restore" /\ steady => sample
    /\ pc = "wait" => ~steady
    /\ pc \in {"take", "sample", "restore"} => down < 2
    /\ pc \in {"take", "sample", "restore", "wait"} => round < Window
    /\ pc = "blink" => ~gpio25 /\ (ws2812 = "cyan" => blinks > 0)

FirmwareInv ==
    /\ part = "hid" => HidInv
    /\ part = "firmware" => BootInv
    /\ part = "presence" => TouchInv

\* The part that runs takes its own steps, and stays the one that runs.
LEMMA PartSteps ==
  ASSUME [Next]_vars
  PROVE  /\ part' = part
         /\ part = "firmware" => [Firmware!Next]_(Firmware!vars)
         /\ part = "hid" => [CtapHid!Next]_(CtapHid!vars)
         /\ part = "presence" => [Presence!Next]_(Presence!vars)
<1>1. CASE UNCHANGED vars
  BY <1>1 DEF vars, Firmware!vars, Firmware!boot, CtapHid!vars, CtapHid!device, CtapHid!ghosts,
     Presence!vars
<1>2. CASE Next
  BY <1>2 DEF Next
<1> QED
  BY <1>1, <1>2

----------------------------------------------------------------------------
(* CTAPHID: the channels and the packets *)

HidClientStates ==
    [cid : CtapHid!Channels \cup {CtapHid!Broadcast}, number : 0 .. MaxRequests,
     cmd : CtapHid!Commands, total : 1 .. MaxPackets + 1, left : 0 .. MaxPackets,
     waiting : BOOLEAN]

LEMMA HidConstants ==
  /\ CidCount \in Nat /\ CidCount >= 3 /\ MaxPackets \in Nat /\ MaxPackets >= 1
  /\ MaxRequests \in Nat /\ MaxPolls \in Nat \ {0} /\ MaxReply \in Nat \ {0}
  /\ FirstCid \in CtapHid!Channels /\ FirstCid \in CtapHid!Cids
  /\ CtapHid!Broadcast \in CtapHid!Cids /\ CtapHid!Channels \subseteq CtapHid!Cids
  /\ CtapHid!Broadcast \notin CtapHid!Channels
  /\ Lengths \subseteq 1 .. MaxPackets + 1 /\ None \notin CtapHid!Packets
  /\ IsFiniteSet(Clients) /\ Cardinality(Clients) * MaxRequests <= CidCount - 2
<1>1. CtapHid!ConstantsOK
  BY Constants DEF Constants
<1>2. CidCount \in Nat /\ FirstCid \in CtapHid!Channels
  BY <1>1 DEF CtapHid!ConstantsOK
<1>3. FirstCid \in Int /\ 0 < FirstCid /\ FirstCid < CidCount - 1
  BY <1>2 DEF CtapHid!Channels, CtapHid!Cids, CtapHid!Invalid, CtapHid!Broadcast
<1>4. CidCount >= 3
  BY <1>2, <1>3
<1>5. CtapHid!IsFiniteSet(Clients) = IsFiniteSet(Clients)
  BY DEF CtapHid!IsFiniteSet, IsFiniteSet
<1>6. CtapHid!Cardinality(Clients) = Cardinality(Clients)
  BY DEF CtapHid!Cardinality, Cardinality
<1>7. /\ CtapHid!Broadcast \in CtapHid!Cids /\ CtapHid!Channels \subseteq CtapHid!Cids
      /\ CtapHid!Broadcast \notin CtapHid!Channels /\ FirstCid \in CtapHid!Cids
  BY <1>2, <1>4 DEF CtapHid!Channels, CtapHid!Cids, CtapHid!Broadcast
<1>8. /\ MaxPackets \in Nat /\ MaxPackets >= 1 /\ MaxRequests \in Nat /\ MaxPolls \in Nat \ {0}
      /\ MaxReply \in Nat \ {0} /\ Lengths \subseteq 1 .. MaxPackets + 1
      /\ None \notin CtapHid!Packets
  BY <1>1 DEF CtapHid!ConstantsOK
<1> QED
  BY <1>1, <1>2, <1>4, <1>5, <1>6, <1>7, <1>8 DEF CtapHid!ConstantsOK

LEMMA HidTypes ==
  ASSUME CtapHid!TypeOK
  PROVE  /\ client \in [Clients -> HidClientStates]
         /\ ep_out \in CtapHid!Packets \cup {None} /\ out_buf \in CtapHid!Packets \cup {None}
         /\ InFlight \subseteq CtapHid!Packets
         /\ next_cid \in CtapHid!Cids /\ active_channels \in Seq(CtapHid!Channels)
         /\ tx \in Seq(CtapHid!Replies) /\ polls \in 0 .. MaxPolls - 1
         /\ assembled \in Seq(CtapHid!Tags) /\ overrun \in BOOLEAN
         /\ active_state \in CtapHid!Assemblies \cup {None}
BY DEF CtapHid!TypeOK, HidClientStates, InFlight

LEMMA StartedFinite ==
  /\ IsFiniteSet(Started) /\ Cardinality(Started) \in Nat
  /\ Cardinality(Started) <= CidCount - 2
<1>1. IsFiniteSet(Clients) /\ MaxRequests \in Nat
  BY HidConstants
<1>2. IsFiniteSet(1 .. MaxRequests) /\ Cardinality(1 .. MaxRequests) = MaxRequests
  BY <1>1, FS_Interval
<1>3. /\ IsFiniteSet(Clients \X (1 .. MaxRequests))
      /\ Cardinality(Clients \X (1 .. MaxRequests)) = Cardinality(Clients) * MaxRequests
  BY <1>1, <1>2, FS_Product
<1>4. Started \in SUBSET (Clients \X (1 .. MaxRequests))
  BY DEF Started
<1>5. IsFiniteSet(Started) /\ Cardinality(Started) <= Cardinality(Clients \X (1 .. MaxRequests))
  BY <1>3, <1>4, FS_Subset
<1>6. Cardinality(Started) \in Nat /\ Cardinality(Clients \X (1 .. MaxRequests)) \in Nat
  BY <1>3, <1>5, FS_CardinalityType
<1>7. Cardinality(Clients) * MaxRequests <= CidCount - 2 /\ CidCount \in Nat
  BY HidConstants
<1> QED
  BY <1>3, <1>5, <1>6, <1>7

LEMMA LeastNat ==
  ASSUME NEW T, T \subseteq Nat, T # {}
  PROVE  \E n \in T : \A m \in T : n <= m
<1> DEFINE Below == OpToRel(<, Nat)
<1>1. PICK n \in T : \A m \in T : ~(<<m, n>> \in Below)
  <2> HIDE DEF Below
  <2>1. IsWellFoundedOn(Below, Nat)
    BY NatLessThanWellFounded DEF Below
  <2> QED  BY <2>1, WFMin
<1>2. Below = {ss \in Nat \X Nat : ss[1] < ss[2]}
  BY DEF OpToRel
<1> HIDE DEF Below
<1>3. ASSUME NEW m \in T PROVE n <= m
  <2>1. m \in Nat /\ n \in Nat
    OBVIOUS
  <2>2. ASSUME m < n PROVE <<m, n>> \in Below
    BY <1>2, <2>1, <2>2
  <2> QED  BY <1>1, <2>1, <2>2
<1> QED
  BY <1>3

\* Counting on from any number modulo N meets every other.
LEMMA CountingOn ==
  ASSUME NEW N \in Nat, N > 0, NEW a \in 0 .. N - 1, NEW b \in 0 .. N - 1
  PROVE  \E n \in 0 .. N - 1 : (a + n) % N = b
<1>1. ASSUME NEW x \in Nat, x < N PROVE x % N = x
  BY <1>1
<1>2. ASSUME NEW x \in Nat, x < N PROVE (x + N) % N = x
  BY <1>2
<1>3. CASE a <= b
  <2>1. b - a \in 0 .. N - 1 /\ a + (b - a) = b
    BY <1>3
  <2>2. (a + (b - a)) % N = b
    BY <1>1, <2>1
  <2> QED
    BY <2>1, <2>2
<1>4. CASE b < a
  <2>1. (b + N) - a \in 0 .. N - 1 /\ a + ((b + N) - a) = b + N
    BY <1>4
  <2>2. (a + ((b + N) - a)) % N = b
    BY <1>2, <2>1
  <2> QED
    BY <2>1, <2>2
<1> QED
  BY <1>3, <1>4

LEMMA ModRange ==
  ASSUME NEW N \in Nat, N > 0, NEW a \in Nat
  PROVE  a % N \in 0 .. N - 1
OBVIOUS

\* While a channel is left, allocate_cid returns one that is not active.
LEMMA AllocatesFree ==
  ASSUME next_cid \in CtapHid!Cids, active_channels \in Seq(CtapHid!Channels),
         Len(active_channels) < CidCount - 2
  PROVE  /\ CtapHid!allocate_cid \in CtapHid!Channels
         /\ CtapHid!allocate_cid \notin Range(active_channels)
<1>0. CidCount \in Nat /\ CidCount > 0 /\ CidCount >= 3 /\ CtapHid!Cids = 0 .. CidCount - 1
  BY HidConstants DEF CtapHid!Cids
\* More channels than active ones.
<1>1. \E ch \in CtapHid!Channels : ch \notin Range(active_channels)
  <2>1. CtapHid!Channels = 1 .. CidCount - 2
    BY <1>0 DEF CtapHid!Channels, CtapHid!Cids, CtapHid!Invalid, CtapHid!Broadcast
  <2>2. IsFiniteSet(CtapHid!Channels) /\ Cardinality(CtapHid!Channels) = CidCount - 2
    <3>1. CidCount - 2 \in Int /\ ~(1 > CidCount - 2) /\ (CidCount - 2) - 1 + 1 = CidCount - 2
      BY <1>0
    <3> QED
      BY <2>1, <3>1, FS_Interval
  <2>3. Len(active_channels) \in Nat /\ DOMAIN active_channels = 1 .. Len(active_channels)
    OBVIOUS
  <2> DEFINE n == Len(active_channels)
  <2>4. active_channels \in Surjection(1 .. n, Range(active_channels))
    BY <2>3 DEF Surjection, Range
  <2>5. Cardinality(Range(active_channels)) <= n
    BY <2>3, <2>4, FS_SurjCardinalityBound DEF ExistsSurjection
  <2>6. IsFiniteSet(1 .. n)
    BY <2>3, FS_Interval
  <2>7. IsFiniteSet(Range(active_channels))
    BY <2>4, <2>6, FS_Surjection
  <2>8. Cardinality(Range(active_channels)) \in Nat
    BY <2>7, FS_CardinalityType
  <2>9. SUFFICES ASSUME CtapHid!Channels \subseteq Range(active_channels) PROVE FALSE
    OBVIOUS
  <2>10. Cardinality(CtapHid!Channels) <= Cardinality(Range(active_channels))
    BY <2>7, <2>9, FS_Subset
  <2> QED
    BY <1>0, <2>2, <2>3, <2>5, <2>8, <2>10
<1>2. PICK ch \in CtapHid!Channels : ch \notin Range(active_channels)
  BY <1>1
<1>3. \A x : CtapHid!IsFree(x) <=> x \in CtapHid!Channels /\ x \notin Range(active_channels)
  BY DEF CtapHid!IsFree, Range
<1> DEFINE T == {n \in 0 .. CidCount - 1 : CtapHid!IsFree(CtapHid!Nth(n))}
<1>4. T \subseteq Nat /\ T # {}
  <2>1. ch \in 0 .. CidCount - 1 /\ next_cid \in 0 .. CidCount - 1
    BY <1>0, HidConstants
  <2>2. PICK n \in 0 .. CidCount - 1 : (next_cid + n) % CidCount = ch
    BY <1>0, <2>1, CountingOn
  <2>3. n \in T
    BY <1>2, <1>3, <2>2 DEF CtapHid!Nth
  <2> QED
    BY <1>0, <2>3
<1>5. PICK n \in T : \A m \in T : n <= m
  BY <1>4, LeastNat
<1>6. \A m \in 0 .. n - 1 : ~CtapHid!IsFree(CtapHid!Nth(m))
  <2> SUFFICES ASSUME NEW m \in 0 .. n - 1, CtapHid!IsFree(CtapHid!Nth(m)) PROVE FALSE
    OBVIOUS
  <2>1. n \in 0 .. CidCount - 1
    OBVIOUS
  <2>2. m \in 0 .. CidCount - 1 /\ m < n
    BY <1>0, <2>1
  <2>3. n <= m
    BY <1>5, <2>2
  <2> QED
    BY <2>1, <2>2, <2>3
<1>7. n \in 0 .. CidCount - 1 /\ CtapHid!IsFree(CtapHid!Nth(n))
  OBVIOUS
<1> DEFINE k == CHOOSE i \in 0 .. CidCount - 1 :
                  CtapHid!IsFree(CtapHid!Nth(i)) /\ \A m \in 0 .. i - 1 : ~CtapHid!IsFree(CtapHid!Nth(m))
<1>8. CtapHid!IsFree(CtapHid!Nth(k))
  <2> HIDE DEF T
  <2> QED
    BY <1>6, <1>7
<1>9. CtapHid!allocate_cid = CtapHid!Nth(k)
  BY DEF CtapHid!allocate_cid
<1> QED
  BY <1>3, <1>8, <1>9

----------------------------------------------------------------------------
(* CTAPHID: the steps of the programs *)

LEMMA AllocatedKept ==
  ASSUME HidAllocated, active_channels' = active_channels,
         active_channels \in Seq(CtapHid!Channels),
         Started \ OnTheWay \subseteq Started' \ OnTheWay'
  PROVE  HidAllocated'
<1> DEFINE S == Started \ OnTheWay
<1> DEFINE T == Started' \ OnTheWay'
<1>0. IsFiniteSet(Started)'
  BY StartedFinite, PTL
<1>1. IsFiniteSet(Started')
  BY <1>0
<1>2. IsFiniteSet(T)
  BY <1>1, FS_Subset
<1>3. IsFiniteSet(S) /\ Cardinality(S) <= Cardinality(T)
  BY <1>2, FS_Subset
<1>4. Cardinality(S) \in Nat /\ Cardinality(T) \in Nat
  BY <1>2, <1>3, FS_CardinalityType
<1>5. Len(active_channels) \in Nat /\ Len(active_channels) <= Cardinality(S)
  BY DEF HidAllocated
<1>6. Len(active_channels) <= Cardinality(T)
  BY <1>3, <1>4, <1>5
<1> QED
  BY <1>6 DEF HidAllocated

LEMMA AssemblyFrom ==
  ASSUME CtapHid!TypeOK, HidAssembly, active_state # None
  PROVE  /\ active_state \in CtapHid!Assemblies /\ active_state.buffer \in Seq(CtapHid!Tags)
         /\ active_state.buffer[1] \in CtapHid!Tags /\ active_state.buffer[1].from \in Clients
         /\ Len(active_state.buffer) \in Nat /\ Len(active_state.buffer) >= 1
<1>1. /\ active_state \in CtapHid!Assemblies /\ active_state.buffer \in Seq(CtapHid!Tags)
      /\ active_state.buffer # <<>>
  BY HidTypes DEF CtapHid!Assemblies, HidAssembly
<1>2. active_state.buffer[1] \in CtapHid!Tags /\ Len(active_state.buffer) \in Nat
      /\ Len(active_state.buffer) >= 1
  BY <1>1
<1> QED
  BY <1>1, <1>2 DEF CtapHid!Tags

\* A step of a program that keeps every channel, and puts a packet into the endpoint
\* when that is empty.
LEMMA HidSends ==
  ASSUME HidInv,
         UNCHANGED <<out_buf, active_state, next_cid, active_channels, tx, polls, assembled, overrun>>,
         client' \in [Clients -> HidClientStates], HidClients',
         \A c \in Clients : client'[c].cid = client[c].cid /\ client[c].number <= client'[c].number,
         \/ /\ UNCHANGED ep_out
            /\ \A c \in Clients : client'[c].number = client[c].number
         \/ /\ ep_out = None /\ ep_out' \in CtapHid!Packets
            /\ ep_out'.cid = CtapHid!Broadcast <=> ep_out'.cmd = "init"
            /\ ep_out'.cmd \in {"init", "cancel"} => ep_out'.total = 1
            /\ ep_out'.cmd # "cont" => ep_out'.tag.index = 0
            /\ client'[ep_out'.tag.from].cid = ep_out'.cid
            /\ ep_out'.tag.number = client'[ep_out'.tag.from].number
            /\ ep_out'.cmd = "cont" =>
                  \A c \in Clients : client'[c].number = client[c].number
            /\ ep_out'.cmd = "init" => ep_out'.tag.number > client[ep_out'.tag.from].number
  PROVE  HidInv'
<1> USE DEF HidInv
<1>1. /\ client \in [Clients -> HidClientStates] /\ InFlight \subseteq CtapHid!Packets
      /\ active_channels \in Seq(CtapHid!Channels)
      /\ active_state \in CtapHid!Assemblies \cup {None}
      /\ ep_out \in CtapHid!Packets \cup {None} /\ out_buf \in CtapHid!Packets \cup {None}
      /\ overrun \in BOOLEAN
  BY HidTypes
<1>2. None \notin CtapHid!Packets
  BY HidConstants
<1>3. CtapHid!TypeOK'
  BY DEF CtapHid!TypeOK, HidClientStates
<1>4. /\ \A p \in InFlight' : p \in InFlight \/ p = ep_out'
      /\ \A p \in InFlight : p \in InFlight'
      /\ \A p \in CtapHid!Packets : p.tag.from \in Clients /\ p.tag.number \in Nat
      /\ \A c \in Clients : client[c].number \in Nat /\ client'[c].number \in Nat
  BY <1>1, <1>2, HidConstants DEF InFlight, CtapHid!Packets, CtapHid!Tags, HidClientStates
<1>10. active_state # None => active_state.buffer[1].from \in Clients
  BY AssemblyFrom
<1>5. HidPackets'
  <2> SUFFICES ASSUME NEW p \in InFlight'
               PROVE  /\ p.cid = CtapHid!Broadcast <=> p.cmd = "init"
                      /\ p.cmd \in {"init", "cancel"} => p.total = 1
                      /\ p.cmd # "cont" => p.tag.index = 0
                      /\ p.cid # CtapHid!Broadcast => client'[p.tag.from].cid = p.cid
                      /\ p.tag.number <= client'[p.tag.from].number
    BY DEF HidPackets
  <2>1. CASE p \in InFlight
    <3>1. /\ p.tag.from \in Clients /\ p.tag.number \in Nat
          /\ p.tag.number <= client[p.tag.from].number
          /\ client[p.tag.from].number \in Nat /\ client'[p.tag.from].number \in Nat
      BY <1>1, <1>4, <2>1 DEF HidPackets
    <3>2. p.tag.number <= client'[p.tag.from].number
      BY <3>1
    <3> QED
      BY <2>1, <3>1, <3>2 DEF HidPackets
  <2>2. CASE p \notin InFlight
    <3>1. p = ep_out' /\ ep_out' # ep_out
      BY <1>4, <2>2 DEF InFlight
    <3>2. p \in CtapHid!Packets
      BY <3>1
    <3>3. client'[p.tag.from].number \in Nat
      BY <1>4, <3>2
    <3> QED
      BY <3>1, <3>3
  <2> QED
    BY <2>1, <2>2
<1>6. HidAssembly'
  BY <1>10 DEF HidAssembly
<1>7. HidAssigned' /\ CtapHid!NoSharedChannel' /\ CtapHid!MessagesIntact'
  BY DEF HidAssigned, CtapHid!NoSharedChannel, CtapHid!MessagesIntact
<1>8. HidAllocated'
  <2> SUFFICES ASSUME NEW r \in Started, r \notin OnTheWay
               PROVE  r \in Started' /\ r \notin OnTheWay'
    BY <1>1, AllocatedKept
  <2>1. r \in Clients \X (1 .. MaxRequests) /\ r[2] <= client[r[1]].number
    BY DEF Started
  <2>2. /\ r[1] \in Clients /\ r[2] \in Nat /\ client[r[1]].number \in Nat
        /\ client'[r[1]].number \in Nat
    BY <1>4, <2>1
  <2>3. r[2] <= client'[r[1]].number
    BY <2>1, <2>2
  <2>4. ASSUME r \in OnTheWay' PROVE FALSE
    <3>1. PICK p \in InFlight' : p.cmd = "init" /\ r = <<p.tag.from, p.tag.number>>
      BY <2>4 DEF OnTheWay
    <3>2. p \notin InFlight
      BY <3>1 DEF OnTheWay
    <3>3. p = ep_out' /\ ep_out' # ep_out
      BY <1>4, <3>2 DEF InFlight
    <3>4. p.tag.number > client[p.tag.from].number /\ r[1] = p.tag.from /\ r[2] = p.tag.number
      BY <3>1, <3>3
    <3> QED
      BY <2>1, <2>2, <3>4
  <2> QED
    BY <2>1, <2>3, <2>4 DEF Started
<1>9. HidOrder'
  <2>1. CASE UNCHANGED ep_out
    <3>1. InFlight' = InFlight
      BY <2>1 DEF InFlight
    <3>2. \A c \in Clients : client'[c].number = client[c].number
      BY <1>2, <2>1
    <3>4. /\ ep_out # None => ep_out.tag.from \in Clients
          /\ out_buf # None => out_buf.tag.from \in Clients
      BY <1>1, <1>4
    <3> QED
      BY <1>10, <2>1, <3>1, <3>2, <3>4 DEF HidOrder, NewComes
  <2>2. CASE ~UNCHANGED ep_out
    <3>1. ep_out = None /\ ep_out' # None /\ ep_out' \in InFlight'
      BY <1>2, <2>2 DEF InFlight
    <3>2. CASE ep_out'.cmd # "cont"
      <4>1. NewComes'
        BY <3>1, <3>2 DEF NewComes
      <4> QED
        BY <2>2, <3>1, <3>2, <4>1 DEF HidOrder
    <3>3. CASE ep_out'.cmd = "cont"
      <4>1. \A c \in Clients : client'[c].number = client[c].number
        BY <2>2, <3>3
      <4>2. NewComes => NewComes'
        BY <1>4 DEF NewComes
      <4>4. out_buf # None => out_buf.tag.from \in Clients
        BY <1>1, <1>4
      <4> QED
        BY <1>10, <2>2, <3>1, <4>1, <4>2, <4>4 DEF HidOrder
    <3> QED
      BY <3>2, <3>3
  <2> QED
    BY <2>1, <2>2
<1> QED
  BY <1>3, <1>5, <1>6, <1>7, <1>8, <1>9

\* A record of a program with some of its fields changed.
LEMMA ClientRecord ==
  ASSUME NEW C, NEW N, NEW K, NEW T, NEW L,
         NEW me \in [cid : C, number : N, cmd : K, total : T, left : L, waiting : BOOLEAN],
         NEW n \in N, NEW k \in K, NEW t \in T, NEW l \in L, NEW b \in BOOLEAN, NEW ch \in C
  PROVE  /\ [me EXCEPT !.number = n, !.cmd = k, !.total = t, !.left = l, !.waiting = b]
               \in [cid : C, number : N, cmd : K, total : T, left : L, waiting : BOOLEAN]
         /\ [me EXCEPT !.waiting = b, !.left = l, !.cid = ch]
               \in [cid : C, number : N, cmd : K, total : T, left : L, waiting : BOOLEAN]
OBVIOUS

LEMMA HidStart ==
  ASSUME HidInv, NEW c \in Clients, NEW cmd \in CtapHid!Commands, NEW total \in Lengths,
         CtapHid!StartRequest(c, cmd, total)
  PROVE  HidInv'
<1>0. client \in [Clients -> HidClientStates]
  BY HidTypes DEF HidInv
<1> DEFINE me == client[c]
<1> DEFINE left == IF total > MaxPackets THEN 0 ELSE total - 1
<1> DEFINE now == [me EXCEPT !.number = @ + 1, !.cmd = cmd, !.total = total, !.left = left,
                             !.waiting = TRUE]
<1> DEFINE p == [cid |-> me.cid, cmd |-> cmd, total |-> total,
                 tag |-> [from |-> c, number |-> me.number + 1, index |-> 0]]
<1>1. /\ ep_out = None /\ me.number < MaxRequests
      /\ cmd = "init" <=> me.cid = CtapHid!Broadcast
      /\ cmd \in {"init", "cancel"} => total = 1
      /\ ep_out' = p
      /\ UNCHANGED <<out_buf, active_state, next_cid, active_channels, tx, polls, assembled, overrun>>
  BY DEF CtapHid!StartRequest, CtapHid!ghosts
<1>2. client' = [client EXCEPT ![c] = now]
  BY <1>0 DEF CtapHid!StartRequest
<1>3. /\ me.cid \in CtapHid!Cids /\ me.cid \in CtapHid!Channels \cup {CtapHid!Broadcast}
      /\ me.number \in Nat /\ MaxRequests \in Nat /\ me.number + 1 \in 1 .. MaxRequests
      /\ total \in 1 .. MaxPackets + 1 /\ left \in 0 .. MaxPackets
      /\ left > 0 => left < total /\ total <= MaxPackets /\ total # 1
      /\ 0 \in 0 .. MaxPackets
  <2>1. me \in HidClientStates
    BY <1>0
  <2>2. /\ me.cid \in CtapHid!Cids /\ me.cid \in CtapHid!Channels \cup {CtapHid!Broadcast}
        /\ me.number \in 0 .. MaxRequests /\ MaxRequests \in Nat /\ MaxPackets \in Nat
        /\ total \in 1 .. MaxPackets + 1
    BY <2>1, HidConstants DEF HidClientStates
  <2> HIDE DEF me
  <2> QED
    BY <1>1, <2>2
<1> HIDE DEF left
<1>4. /\ now \in HidClientStates /\ now.cid = me.cid /\ now.number = me.number + 1
      /\ now.total = total /\ now.left = left
  <2>1. me \in HidClientStates
    BY <1>0
  <2> HIDE DEF me
  <2>2. me.number + 1 \in 0 .. MaxRequests
    BY <1>3
  <2>3. now \in HidClientStates
    BY <1>3, <2>1, <2>2, ClientRecord DEF HidClientStates
  <2> QED
    BY <2>1, <2>3 DEF HidClientStates
<1> HIDE DEF now
<1>5. client' \in [Clients -> HidClientStates]
  BY <1>0, <1>2, <1>4
<1>6. /\ \A d \in Clients : d # c => client'[d] = client[d]
      /\ client'[c] = now
  BY <1>0, <1>2
<1>7. p \in CtapHid!Packets
  BY <1>3 DEF CtapHid!Packets, CtapHid!Tags
<1>8. HidClients'
  <2> SUFFICES ASSUME NEW d \in Clients
               PROVE  /\ client'[d].waiting => client'[d].number > 0
                      /\ client'[d].left > 0 => /\ client'[d].left < client'[d].total
                                                /\ client'[d].total <= MaxPackets
                                                /\ client'[d].cid # CtapHid!Broadcast
                      /\ client'[d].cid # CtapHid!Broadcast => client'[d].cid \in Range(active_channels')
    BY DEF HidClients
  <2>1. CASE d = c
    <3>1. left > 0 => me.cid # CtapHid!Broadcast
      BY <1>1, <1>3
    <3>2. /\ client'[d].number = me.number + 1 /\ client'[d].left = left /\ client'[d].total = total
          /\ client'[d].cid = me.cid
      BY <1>4, <1>6, <2>1
    <3>3. me.number + 1 > 0
      BY <1>3
    <3> QED
      BY <1>1, <1>3, <3>1, <3>2, <3>3 DEF HidInv, HidClients
  <2>2. CASE d # c
    BY <1>1, <1>6, <2>2 DEF HidInv, HidClients
  <2> QED
    BY <2>1, <2>2
<1>9. \A d \in Clients : client'[d].cid = client[d].cid /\ client[d].number <= client'[d].number
  <2> SUFFICES ASSUME NEW d \in Clients
               PROVE  client'[d].cid = client[d].cid /\ client[d].number <= client'[d].number
    OBVIOUS
  <2>1. client[d].number \in Nat
    BY <1>0 DEF HidClientStates
  <2>2. CASE d = c
    BY <1>3, <1>4, <1>6, <2>2
  <2> QED
    BY <1>6, <2>1, <2>2
<1>10. /\ ep_out'.cid = me.cid /\ ep_out'.cmd = cmd /\ ep_out'.total = total
       /\ ep_out'.tag.index = 0 /\ ep_out'.tag.from = c /\ ep_out'.tag.number = me.number + 1
       /\ cmd # "cont" /\ client'[c].number = me.number + 1 /\ client'[c].cid = me.cid
       /\ me.number + 1 > me.number
  BY <1>1, <1>3, <1>4, <1>6 DEF CtapHid!Commands
<1> HIDE DEF me, now, p
<1> QED
  BY <1>1, <1>5, <1>7, <1>8, <1>9, <1>10, HidSends DEF me

LEMMA HidCont ==
  ASSUME HidInv, NEW c \in Clients, CtapHid!SendCont(c)
  PROVE  HidInv'
<1>0. client \in [Clients -> HidClientStates]
  BY HidTypes DEF HidInv
<1> DEFINE me == client[c]
<1> DEFINE now == [cid |-> me.cid, number |-> me.number, cmd |-> me.cmd, total |-> me.total,
                   left |-> me.left - 1, waiting |-> me.waiting]
<1> DEFINE p == [cid |-> me.cid, cmd |-> "cont", total |-> me.total,
                 tag |-> [from |-> c, number |-> me.number, index |-> me.total - me.left]]
<1>1. /\ ep_out = None /\ me.waiting /\ me.left > 0 /\ ep_out' = p
      /\ UNCHANGED <<out_buf, active_state, next_cid, active_channels, tx, polls, assembled, overrun>>
  BY DEF CtapHid!SendCont, CtapHid!ghosts
<1>2. client' = [client EXCEPT ![c] = now]
  <2>1. me \in HidClientStates
    BY <1>0
  <2>2. client' = [client EXCEPT ![c] = [me EXCEPT !.left = @ - 1]]
    BY <1>0 DEF CtapHid!SendCont
  <2>3. [me EXCEPT !.left = @ - 1] = now
    BY <2>1 DEF HidClientStates
  <2> QED
    BY <2>2, <2>3
<1>3. /\ me.cid \in CtapHid!Cids /\ me.cid \in CtapHid!Channels \cup {CtapHid!Broadcast}
      /\ me.cid # CtapHid!Broadcast /\ me.cmd \in CtapHid!Commands
      /\ me.number \in 0 .. MaxRequests /\ me.number \in 1 .. MaxRequests
      /\ me.total \in 1 .. MaxPackets + 1 /\ me.left - 1 \in 0 .. MaxPackets
      /\ me.left - 1 > 0 => me.left - 1 < me.total
      /\ me.total <= MaxPackets /\ me.total - me.left \in 0 .. MaxPackets
      /\ me.waiting \in BOOLEAN
  <2>1. me \in HidClientStates
    BY <1>0
  <2>2. /\ me.cid \in CtapHid!Cids /\ me.cid \in CtapHid!Channels \cup {CtapHid!Broadcast}
        /\ me.cmd \in CtapHid!Commands /\ me.number \in 0 .. MaxRequests
        /\ MaxRequests \in Nat /\ MaxPackets \in Nat
        /\ me.total \in 1 .. MaxPackets + 1 /\ me.left \in 0 .. MaxPackets
        /\ me.waiting \in BOOLEAN
    BY <2>1, HidConstants DEF HidClientStates
  <2>3. /\ me.number > 0 /\ me.left < me.total /\ me.total <= MaxPackets
        /\ me.cid # CtapHid!Broadcast
    BY <1>1 DEF HidInv, HidClients
  <2> HIDE DEF me
  <2> QED
    BY <1>1, <2>2, <2>3
<1>4. now \in HidClientStates
  BY <1>3 DEF HidClientStates
<1>5. client' \in [Clients -> HidClientStates]
  BY <1>0, <1>2, <1>4
<1>6. /\ \A d \in Clients : d # c => client'[d] = client[d]
      /\ client'[c] = now
  BY <1>0, <1>2
<1>7. p \in CtapHid!Packets
  BY <1>3 DEF CtapHid!Packets, CtapHid!Tags
<1>8. HidClients'
  <2> SUFFICES ASSUME NEW d \in Clients
               PROVE  /\ client'[d].waiting => client'[d].number > 0
                      /\ client'[d].left > 0 => /\ client'[d].left < client'[d].total
                                                /\ client'[d].total <= MaxPackets
                                                /\ client'[d].cid # CtapHid!Broadcast
                      /\ client'[d].cid # CtapHid!Broadcast => client'[d].cid \in Range(active_channels')
    BY DEF HidClients
  <2>1. CASE d = c
    <3>1. /\ client'[d].number = me.number /\ client'[d].left = me.left - 1
          /\ client'[d].total = me.total /\ client'[d].cid = me.cid
      BY <1>6, <2>1
    <3>2. me.number > 0
      BY <1>3
    <3> QED
      BY <1>1, <1>3, <3>1, <3>2 DEF HidInv, HidClients
  <2>2. CASE d # c
    BY <1>1, <1>6, <2>2 DEF HidInv, HidClients
  <2> QED
    BY <2>1, <2>2
<1>9. \A d \in Clients : client'[d].cid = client[d].cid /\ client'[d].number = client[d].number
                         /\ client[d].number <= client'[d].number
  <2> SUFFICES ASSUME NEW d \in Clients
               PROVE  /\ client'[d].cid = client[d].cid /\ client'[d].number = client[d].number
                      /\ client[d].number <= client'[d].number
    OBVIOUS
  <2>1. client[d].number \in Nat
    BY <1>0 DEF HidClientStates
  <2> QED
    BY <1>6, <2>1
<1>10. /\ ep_out'.cid = me.cid /\ ep_out'.cmd = "cont" /\ ep_out'.tag.from = c
       /\ ep_out'.tag.number = me.number /\ client'[c].number = me.number /\ client'[c].cid = me.cid
  BY <1>1, <1>6
<1> HIDE DEF me, now, p
<1> QED
  BY <1>1, <1>3, <1>5, <1>7, <1>8, <1>9, <1>10, HidSends

LEMMA HidGiveUp ==
  ASSUME HidInv, NEW c \in Clients, CtapHid!GiveUp(c)
  PROVE  HidInv'
<1>0. client \in [Clients -> HidClientStates]
  BY HidTypes DEF HidInv
<1> DEFINE me == client[c]
<1> DEFINE now == [me EXCEPT !.waiting = FALSE, !.left = 0]
<1>1. UNCHANGED <<ep_out, out_buf, active_state, next_cid, active_channels, tx, polls, assembled,
                  overrun>>
  BY DEF CtapHid!GiveUp, CtapHid!device, CtapHid!ghosts
<1>2. client' = [client EXCEPT ![c] = now]
  BY <1>0 DEF CtapHid!GiveUp
<1>3. /\ now \in HidClientStates /\ now.cid = me.cid /\ now.number = me.number
      /\ ~now.waiting /\ now.left = 0
  <2>1. me \in HidClientStates /\ 0 \in 0 .. MaxPackets
    BY <1>0, HidConstants
  <2> HIDE DEF me
  <2>2. now \in HidClientStates
    BY <2>1 DEF HidClientStates
  <2> QED
    BY <2>1, <2>2 DEF HidClientStates
<1> HIDE DEF now
<1>4. client' \in [Clients -> HidClientStates]
  BY <1>0, <1>2, <1>3
<1>5. /\ \A d \in Clients : d # c => client'[d] = client[d]
      /\ client'[c] = now
  BY <1>0, <1>2
<1>6. HidClients'
  BY <1>1, <1>3, <1>5 DEF HidInv, HidClients
<1>7. \A d \in Clients : client'[d].cid = client[d].cid /\ client'[d].number = client[d].number
                         /\ client[d].number <= client'[d].number
  <2> SUFFICES ASSUME NEW d \in Clients
               PROVE  /\ client'[d].cid = client[d].cid /\ client'[d].number = client[d].number
                      /\ client[d].number <= client'[d].number
    OBVIOUS
  <2>1. client[d].number \in Nat
    BY <1>0 DEF HidClientStates
  <2> QED
    BY <1>3, <1>5, <2>1
<1> HIDE DEF me, now
<1> QED
  BY <1>1, <1>4, <1>6, <1>7, HidSends

----------------------------------------------------------------------------
(* CTAPHID: the steps of the device *)

\* The packet that is looked at is on its way and, if none was lost, of the request its
\* program is at; a transaction that it continues is of that request, too.
LEMMA HidPolled ==
  ASSUME HidInv, CtapHid!Polled # None, overrun' = (overrun \/ CtapHid!Overwriting)
  PROVE  /\ CtapHid!Polled \in InFlight /\ CtapHid!Polled \in CtapHid!Packets
         /\ CtapHid!Polled.tag \in CtapHid!Tags /\ CtapHid!Polled.tag.from \in Clients
         /\ overrun' \in BOOLEAN /\ (overrun => overrun')
         /\ ~overrun' => /\ InFlight = {CtapHid!Polled}
                         /\ CtapHid!Polled.tag.number = client[CtapHid!Polled.tag.from].number
         /\ ~overrun' /\ CtapHid!Polled.cmd = "cont" /\ active_state # None =>
              active_state.buffer[1].number = client[active_state.buffer[1].from].number
<1> DEFINE p == CtapHid!Polled
<1>1. /\ InFlight \subseteq CtapHid!Packets /\ overrun \in BOOLEAN
  BY HidTypes DEF HidInv
<1>2. p \in InFlight
  BY DEF CtapHid!Polled, InFlight
<1>3. p \in CtapHid!Packets
  BY <1>1, <1>2
<1>4. p.tag \in CtapHid!Tags
  BY <1>3 DEF CtapHid!Packets
<1>5. p.tag.from \in Clients
  BY <1>4 DEF CtapHid!Tags
<1>6. overrun' \in BOOLEAN /\ (overrun => overrun')
  BY <1>1 DEF CtapHid!Overwriting
<1>7. ASSUME ~overrun' PROVE /\ ~overrun /\ InFlight = {p} /\ (ep_out = None \/ out_buf = None)
                             /\ p.tag.number = client[p.tag.from].number
  <2>1. ~overrun /\ (ep_out = None \/ out_buf = None)
    BY <1>7 DEF CtapHid!Overwriting
  <2>2. InFlight = {p}
    BY <2>1 DEF InFlight, CtapHid!Polled
  <2>3. p.tag.number = client[p.tag.from].number
    BY <2>1 DEF HidInv, HidOrder, CtapHid!Polled
  <2> QED
    BY <2>1, <2>2, <2>3
<1>8. ASSUME ~overrun', p.cmd = "cont", active_state # None
      PROVE  active_state.buffer[1].number = client[active_state.buffer[1].from].number
  <2>1. ~NewComes
    BY <1>7, <1>8 DEF NewComes
  <2> QED
    BY <1>7, <1>8, <2>1 DEF HidInv, HidOrder
<1> HIDE DEF p
<1>9. p = CtapHid!Polled
  BY DEF p
<1> QED
  BY <1>2, <1>3, <1>4, <1>5, <1>6, <1>7, <1>8, <1>9

\* What the main loop leaves of a packet: nothing, or a transaction that waits for the
\* next packet; a message, a refusal or a new channel.
SoundAssembly(a, lost) ==
    /\ a \in CtapHid!Assemblies /\ Len(a.buffer) < a.total
    /\ a.cid # CtapHid!Broadcast /\ a.cmd = "cbor" /\ a.buffer # <<>>
    /\ Consecutive(a.buffer, lost) /\ client[a.buffer[1].from].cid = a.cid
    /\ lost \/ a.buffer[1].number = client[a.buffer[1].from].number

LEMMA ReplyPackets ==
  ASSUME NEW cid \in CtapHid!Cids, NEW cmd \in CtapHid!Commands \cup {"error"},
         NEW assigned \in CtapHid!Channels \cup {None}, NEW tag \in CtapHid!Tags, NEW n \in Nat
  PROVE  \A reply : reply = CtapHid!Reply(cid, cmd, assigned, tag, n) =>
          /\ reply \in Seq(CtapHid!Replies) /\ Len(reply) = n /\ DOMAIN reply = 1 .. n
         /\ \A i \in 1 .. n : reply[i].assigned = assigned /\ reply[i].cid = cid
<1> TAKE reply
<1> HAVE reply = CtapHid!Reply(cid, cmd, assigned, tag, n)
<1> DEFINE packet(i) == [cid |-> cid, cmd |-> cmd, last |-> i = n, assigned |-> assigned,
                         tag |-> tag]
<1>1. reply = [i \in 1 .. n |-> packet(i)]
  BY DEF CtapHid!Reply
<1>2. ASSUME NEW i \in 1 .. n
      PROVE  packet(i) \in CtapHid!Replies /\ packet(i).assigned = assigned /\ packet(i).cid = cid
  <2>1. (i = n) \in BOOLEAN
    OBVIOUS
  <2> QED
    BY <2>1 DEF CtapHid!Replies
<1> HIDE DEF packet
<1> QED
  BY <1>1, <1>2

LEMMA HidTakes ==
  ASSUME HidInv, NEW p \in InFlight, ep_out' = None, out_buf' = None, UNCHANGED <<client, polls>>,
         overrun' \in BOOLEAN,
         active_state' = None \/ SoundAssembly(active_state', overrun'),
         assembled' \in Seq(CtapHid!Tags), Consecutive(assembled', overrun'),
         \/ /\ UNCHANGED <<next_cid, active_channels>> /\ tx' \in Seq(CtapHid!Replies)
            /\ \A i \in DOMAIN tx' : tx'[i].assigned = None
         \/ /\ p.cmd = "init"
            /\ tx' = CtapHid!Reply(CtapHid!Broadcast, "init", CtapHid!allocate_cid, p.tag, 1)
            /\ active_channels' = Append(active_channels, CtapHid!allocate_cid)
            /\ next_cid' = (CtapHid!allocate_cid + 1) % CidCount
  PROVE  HidInv'
<1> USE DEF HidInv
<1>1. /\ client \in [Clients -> HidClientStates] /\ InFlight \subseteq CtapHid!Packets
      /\ active_channels \in Seq(CtapHid!Channels) /\ next_cid \in CtapHid!Cids
      /\ polls \in 0 .. MaxPolls - 1
  BY HidTypes
<1>2. InFlight' = {} /\ OnTheWay' = {} /\ Started' = Started
  BY DEF InFlight, OnTheWay, Started
<1>3. HidPackets' /\ HidOrder'
  BY <1>2 DEF HidPackets, HidOrder, SoundAssembly
<1>4. HidAssembly'
  BY DEF HidAssembly, SoundAssembly
<1>5. CtapHid!MessagesIntact' /\ CtapHid!NoSharedChannel'
  BY DEF CtapHid!MessagesIntact, CtapHid!NoSharedChannel, Consecutive
<1>6. ASSUME next_cid' \in CtapHid!Cids, active_channels' \in Seq(CtapHid!Channels),
             tx' \in Seq(CtapHid!Replies)
      PROVE  CtapHid!TypeOK'
  BY <1>1, <1>6 DEF CtapHid!TypeOK, HidClientStates, SoundAssembly
<1>7. CASE /\ UNCHANGED <<next_cid, active_channels>> /\ tx' \in Seq(CtapHid!Replies)
           /\ \A i \in DOMAIN tx' : tx'[i].assigned = None
  <2>1. HidClients' /\ HidAssigned'
    BY <1>7 DEF HidClients, HidAssigned
  <2>2. HidAllocated'
    BY <1>1, <1>2, <1>7, AllocatedKept
  <2> QED
    BY <1>1, <1>3, <1>4, <1>5, <1>6, <1>7, <2>1, <2>2
<1>8. CASE /\ p.cmd = "init"
           /\ tx' = CtapHid!Reply(CtapHid!Broadcast, "init", CtapHid!allocate_cid, p.tag, 1)
           /\ active_channels' = Append(active_channels, CtapHid!allocate_cid)
           /\ next_cid' = (CtapHid!allocate_cid + 1) % CidCount
  <2> DEFINE new == CtapHid!allocate_cid
  <2> DEFINE request == <<p.tag.from, p.tag.number>>
  <2> DEFINE answered == Started \ OnTheWay
  \* The request is one of those that were not counted yet.
  <2>1. p \in CtapHid!Packets /\ p.tag \in CtapHid!Tags
    BY <1>1 DEF CtapHid!Packets
  <2>2. request \in Started /\ request \in OnTheWay
    <3>1. p.tag.from \in Clients /\ p.tag.number \in 1 .. MaxRequests
      BY <2>1 DEF CtapHid!Tags
    <3>2. p.tag.number <= client[p.tag.from].number
      BY DEF HidPackets
    <3> QED
      BY <1>8, <3>1, <3>2 DEF Started, OnTheWay
  <2>3. /\ IsFiniteSet(Started) /\ Cardinality(Started) \in Nat
        /\ Cardinality(Started) <= CidCount - 2
    BY StartedFinite
  <2>4. IsFiniteSet(answered) /\ Cardinality(answered) < Cardinality(Started)
    <3>1. answered \in SUBSET Started /\ answered # Started
      BY <2>2
    <3> HIDE DEF answered
    <3>2. IsFiniteSet(answered) /\ Cardinality(answered) <= Cardinality(Started)
          /\ Cardinality(answered) # Cardinality(Started)
      BY <2>3, <3>1, FS_Subset
    <3>3. Cardinality(answered) \in Nat
      BY <3>2, FS_CardinalityType
    <3> QED
      BY <2>3, <3>2, <3>3
  <2>5. Cardinality(answered) \in Nat
    BY <2>4, FS_CardinalityType
  <2>6. Len(active_channels) <= Cardinality(answered) /\ Len(active_channels) \in Nat
    BY <1>1 DEF HidAllocated
  <2>7. Len(active_channels) < CidCount - 2 /\ Len(active_channels) + 1 <= Cardinality(Started)
    <3> HIDE DEF answered
    <3>1. CidCount \in Nat
      BY HidConstants
    <3> QED
      BY <2>3, <2>4, <2>5, <2>6, <3>1
  <2>8. new \in CtapHid!Channels /\ new \notin Range(active_channels)
    BY <1>1, <2>7, AllocatesFree
  <2> HIDE DEF new, answered
  <2>9. /\ active_channels' \in Seq(CtapHid!Channels)
        /\ Len(active_channels') = Len(active_channels) + 1
        /\ Range(active_channels') = Range(active_channels) \cup {new}
    <3>1. active_channels' = Append(active_channels, new)
      BY <1>8 DEF new
    <3>2. /\ DOMAIN active_channels = 1 .. Len(active_channels)
          /\ DOMAIN active_channels' = 1 .. Len(active_channels) + 1
          /\ \A i \in 1 .. Len(active_channels) : active_channels'[i] = active_channels[i]
          /\ active_channels'[Len(active_channels) + 1] = new
      BY <1>1, <2>8, <3>1
    <3>3. \A i \in 1 .. Len(active_channels) + 1 :
             i \in 1 .. Len(active_channels) \/ i = Len(active_channels) + 1
      BY <2>6
    <3>4. Range(active_channels') = Range(active_channels) \cup {new}
      BY <2>6, <3>2, <3>3 DEF Range
    <3> QED
      BY <1>1, <2>8, <3>1, <3>4
  <2>10. next_cid' \in CtapHid!Cids
    <3>1. new \in Nat /\ CidCount \in Nat /\ CidCount > 0
      BY <2>8, HidConstants DEF CtapHid!Channels, CtapHid!Cids
    <3>2. new + 1 \in Nat
      BY <3>1
    <3>3. (new + 1) % CidCount \in 0 .. CidCount - 1
      BY <3>1, <3>2, ModRange
    <3> QED
      BY <1>8, <3>3 DEF new, CtapHid!Cids
  <2>11. /\ tx' \in Seq(CtapHid!Replies) /\ Len(tx') = 1 /\ DOMAIN tx' = {1}
         /\ tx'[1].assigned = new /\ tx'[1].cid = CtapHid!Broadcast
    <3>1. /\ CtapHid!Broadcast \in CtapHid!Cids /\ "init" \in CtapHid!Commands \cup {"error"}
          /\ new \in CtapHid!Channels \cup {None} /\ 1 \in Nat /\ 1 .. 1 = {1}
      BY <2>8, HidConstants DEF CtapHid!Commands
    <3>2. tx' = CtapHid!Reply(CtapHid!Broadcast, "init", new, p.tag, 1)
      BY <1>8 DEF new
    <3>3. PICK cid \in CtapHid!Cids, cmd \in CtapHid!Commands \cup {"error"},
               assigned \in CtapHid!Channels \cup {None}, tag \in CtapHid!Tags, n \in Nat :
             /\ tx' = CtapHid!Reply(cid, cmd, assigned, tag, n)
             /\ n = 1 /\ assigned = new /\ cid = CtapHid!Broadcast
      BY <2>1, <3>1, <3>2, Zenon
    <3>4. /\ tx' \in Seq(CtapHid!Replies) /\ Len(tx') = n /\ DOMAIN tx' = 1 .. n
          /\ \A i \in 1 .. n : tx'[i].assigned = assigned /\ tx'[i].cid = cid
      <4>1. \A reply : reply = CtapHid!Reply(cid, cmd, assigned, tag, n) =>
              /\ reply \in Seq(CtapHid!Replies) /\ Len(reply) = n /\ DOMAIN reply = 1 .. n
              /\ \A i \in 1 .. n : reply[i].assigned = assigned /\ reply[i].cid = cid
        BY ONLY ReplyPackets
      <4> QED
        BY ONLY <3>3, <4>1
    <3> QED
      BY <3>1, <3>3, <3>4
  <2>12. \A c \in Clients : client[c].cid # new
    BY <2>8, HidConstants DEF HidClients
  <2>13. HidClients' /\ HidAssigned'
    BY <2>9, <2>11, <2>12 DEF HidClients, HidAssigned
  <2>14. HidAllocated'
    <3>1. Started' \ OnTheWay' = Started
      BY <1>2
    <3> QED
      BY <2>7, <2>9, <3>1 DEF HidAllocated
  <2> QED
    BY <1>3, <1>4, <1>5, <1>6, <2>9, <2>10, <2>11, <2>13, <2>14
<1> QED
  BY <1>7, <1>8

\* A reply that assigns no channel.
PlainReply(reply) ==
    \E cid \in CtapHid!Cids, cmd \in CtapHid!Commands \cup {"error"}, tag \in CtapHid!Tags,
       n \in Nat : reply = CtapHid!Reply(cid, cmd, None, tag, n)

LEMMA PlainReplies ==
  ASSUME PlainReply(tx')
  PROVE  tx' \in Seq(CtapHid!Replies) /\ \A i \in DOMAIN tx' : tx'[i].assigned = None
<1>1. PICK cid \in CtapHid!Cids, cmd \in CtapHid!Commands \cup {"error"},
           assigned \in CtapHid!Channels \cup {None}, tag \in CtapHid!Tags, n \in Nat :
         tx' = CtapHid!Reply(cid, cmd, assigned, tag, n) /\ assigned = None
  BY Zenon DEF PlainReply
<1>2. \A reply : reply = CtapHid!Reply(cid, cmd, assigned, tag, n) =>
         /\ reply \in Seq(CtapHid!Replies) /\ Len(reply) = n /\ DOMAIN reply = 1 .. n
         /\ \A i \in 1 .. n : reply[i].assigned = assigned /\ reply[i].cid = cid
  BY ONLY ReplyPackets
<1>3. /\ tx' \in Seq(CtapHid!Replies) /\ DOMAIN tx' = 1 .. n
      /\ \A i \in 1 .. n : tx'[i].assigned = assigned
  BY ONLY <1>1, <1>2
<1> QED
  BY <1>1, <1>3

LEMMA HidMainLoop ==
  ASSUME HidInv, CtapHid!MainLoop
  PROVE  HidInv'
<1> DEFINE p == CtapHid!Polled
<1>1. /\ p # None /\ ep_out' = None /\ out_buf' = None /\ UNCHANGED <<client, polls>>
      /\ overrun' = (overrun \/ CtapHid!Overwriting) /\ CtapHid!process_packet(p)
  BY DEF CtapHid!MainLoop
<1>2. /\ p \in InFlight /\ p \in CtapHid!Packets /\ p.tag \in CtapHid!Tags
      /\ p.tag.from \in Clients /\ overrun' \in BOOLEAN /\ (overrun => overrun')
      /\ ~overrun' => p.tag.number = client[p.tag.from].number
      /\ ~overrun' /\ p.cmd = "cont" /\ active_state # None =>
            active_state.buffer[1].number = client[active_state.buffer[1].from].number
  BY <1>1, HidPolled
<1> HIDE DEF p
<1>3. /\ p.cid \in CtapHid!Cids /\ p.cmd \in CtapHid!Commands \cup {"cont"}
      /\ p.total \in 1 .. MaxPackets + 1
  BY <1>2 DEF CtapHid!Packets
<1>4. /\ p.cid = CtapHid!Broadcast <=> p.cmd = "init"
      /\ p.cmd \in {"init", "cancel"} => p.total = 1
      /\ p.cmd # "cont" => p.tag.index = 0
      /\ p.cid # CtapHid!Broadcast => client[p.tag.from].cid = p.cid
  BY <1>2 DEF HidInv, HidPackets
<1>5. assembled \in Seq(CtapHid!Tags) /\ Consecutive(assembled, overrun')
  BY <1>2, HidTypes DEF HidInv, CtapHid!MessagesIntact, Consecutive
<1>6. /\ <<p.tag>> \in Seq(CtapHid!Tags) /\ Len(<<p.tag>>) = 1 /\ <<p.tag>>[1] = p.tag
      /\ p.cmd # "cont" => Consecutive(<<p.tag>>, overrun')
  <2>1. <<p.tag>> \in Seq(CtapHid!Tags) /\ Len(<<p.tag>>) = 1 /\ <<p.tag>>[1] = p.tag
        /\ DOMAIN <<p.tag>> = {1}
    BY <1>2
  <2> QED
    BY <1>4, <2>1 DEF Consecutive
\* What dispatch leaves behind, given the message.
<1>7. ASSUME NEW cid \in CtapHid!Cids, NEW cmd \in CtapHid!Commands, NEW buffer \in Seq(CtapHid!Tags),
             buffer # <<>>, cmd # "init", CtapHid!dispatch(cid, cmd, buffer)
      PROVE  assembled' = buffer /\ UNCHANGED <<next_cid, active_channels>> /\ PlainReply(tx')
  <2>1. assembled' = buffer /\ UNCHANGED <<next_cid, active_channels>>
    BY <1>7 DEF CtapHid!dispatch
  <2>2. PICK n \in 1 .. (IF cmd = "cbor" THEN MaxReply ELSE 1) :
           tx' = CtapHid!Reply(cid, cmd, None, buffer[1], n)
    BY <1>7 DEF CtapHid!dispatch
  <2>3. n \in Nat /\ buffer[1] \in CtapHid!Tags
    <3>1. MaxReply \in Nat
      BY HidConstants
    <3> QED
      BY <1>7, <3>1
  <2> QED
    BY <2>1, <2>2, <2>3, Zenon DEF PlainReply
<1>8. ASSUME CtapHid!Refuse(p)
      PROVE  UNCHANGED <<assembled, next_cid, active_channels>> /\ PlainReply(tx')
  <2>1. tx' = CtapHid!Reply(p.cid, "error", None, p.tag, 1) /\ 1 \in Nat
    BY <1>8 DEF CtapHid!Refuse
  <2>2. PlainReply(tx')
    BY <1>2, <1>3, <2>1, Zenon DEF PlainReply
  <2> QED
    BY <1>8, <2>2 DEF CtapHid!Refuse
<1> DEFINE Assembles == active_state' = None \/ SoundAssembly(active_state', overrun')
<1> DEFINE Answers == \/ /\ UNCHANGED <<next_cid, active_channels>> /\ tx' \in Seq(CtapHid!Replies)
                         /\ \A i \in DOMAIN tx' : tx'[i].assigned = None
                      \/ /\ p.cmd = "init"
                         /\ tx' = CtapHid!Reply(CtapHid!Broadcast, "init", CtapHid!allocate_cid, p.tag, 1)
                         /\ active_channels' = Append(active_channels, CtapHid!allocate_cid)
                         /\ next_cid' = (CtapHid!allocate_cid + 1) % CidCount
<1>9. ASSUME Assembles, assembled' \in Seq(CtapHid!Tags), Consecutive(assembled', overrun'), Answers
      PROVE  HidInv'
  BY <1>1, <1>2, <1>9, HidTakes
<1> DEFINE Silent == tx' = <<>> /\ UNCHANGED <<next_cid, active_channels, assembled>>
<1>10. Silent => Answers
  BY DEF CtapHid!Replies
<1>11. PlainReply(tx') /\ UNCHANGED <<next_cid, active_channels>> => Answers
  BY PlainReplies
<1> HIDE DEF Assembles, Answers
<1>12. CASE p.cmd # "cont"
  <2>1. CtapHid!InitPacket(p)
    BY <1>1, <1>12 DEF CtapHid!process_packet
  <2>2. CASE active_state' = None /\ CtapHid!Refuse(p)
    BY <1>5, <1>8, <1>9, <1>11, <2>2 DEF Assembles
  <2>3. CASE p.total = 1 /\ active_state' = None /\ CtapHid!dispatch(p.cid, p.cmd, <<p.tag>>)
    <3>1. Assembles /\ assembled' = <<p.tag>>
      BY <2>3 DEF Assembles, CtapHid!dispatch
    <3>2. Answers
      <4>1. CASE p.cmd = "init"
        BY <1>4, <1>6, <2>3, <4>1 DEF Answers, CtapHid!dispatch
      <4>2. CASE p.cmd # "init"
        BY <1>3, <1>6, <1>7, <1>11, <1>12, <2>3, <4>2
      <4> QED
        BY <4>1, <4>2
    <3> QED
      BY <1>6, <1>9, <1>12, <3>1, <3>2
  <2>4. CASE /\ p.total > 1 /\ ~CtapHid!TooLong(p) /\ Silent
             /\ active_state' = [cid |-> p.cid, cmd |-> p.cmd, total |-> p.total,
                                 buffer |-> <<p.tag>>]
    <3> DEFINE a == [cid |-> p.cid, cmd |-> p.cmd, total |-> p.total, buffer |-> <<p.tag>>]
    <3>1. p.cmd = "cbor" /\ p.cid # CtapHid!Broadcast
      BY <1>3, <1>4, <1>12, <2>4 DEF CtapHid!Commands
    <3>2. p.total \in 1 .. MaxPackets
      BY <1>3, <2>4, HidConstants DEF CtapHid!TooLong
    <3>3. a \in CtapHid!Assemblies
      BY <1>3, <1>6, <3>1, <3>2 DEF CtapHid!Assemblies, CtapHid!Commands
    <3>4. /\ a.cid = p.cid /\ a.cmd = "cbor" /\ a.total = p.total /\ a.buffer = <<p.tag>>
          /\ a.buffer[1] = p.tag /\ Len(a.buffer) = 1 /\ a.buffer # <<>>
      BY <1>6, <3>1
    <3>5. active_state' = a
      BY <2>4
    <3> HIDE DEF a
    <3>6. SoundAssembly(a, overrun')
      BY <1>2, <1>4, <1>6, <1>12, <2>4, <3>1, <3>3, <3>4 DEF SoundAssembly
    <3>7. Assembles
      BY <3>5, <3>6 DEF Assembles
    <3> QED
      BY <1>5, <1>9, <1>10, <2>4, <3>7
  <2> QED
    BY <2>1, <2>2, <2>3, <2>4 DEF CtapHid!InitPacket
<1>13. CASE p.cmd = "cont"
  <2>1. CtapHid!ContPacket(p)
    BY <1>1, <1>13 DEF CtapHid!process_packet
  <2>2. CASE active_state' = None /\ CtapHid!Refuse(p)
    BY <1>5, <1>8, <1>9, <1>11, <2>2 DEF Assembles
  <2>3. CASE active_state' = active_state /\ CtapHid!Refuse(p)
    <3>1. Assembles
      <4> SUFFICES ASSUME active_state # None PROVE SoundAssembly(active_state, overrun')
        BY <2>3 DEF Assembles
      <4>1. /\ active_state \in CtapHid!Assemblies /\ Len(active_state.buffer) < active_state.total
        BY HidTypes DEF HidInv, CtapHid!TypeOK
      <4>2. Consecutive(active_state.buffer, overrun')
        BY <1>2 DEF HidInv, HidAssembly, Consecutive
      <4> QED
        BY <1>2, <1>13, <4>1, <4>2 DEF HidInv, HidAssembly, SoundAssembly
    <3> QED
      BY <1>5, <1>8, <1>9, <1>11, <2>3, <3>1
  <2>4. CASE CtapHid!Ongoing(p.cid) /\ CtapHid!Expected(p)
    <3> DEFINE old == active_state.buffer
    <3> DEFINE buffer == Append(old, p.tag)
    <3>0. active_state # None /\ active_state.cid = p.cid /\ p.tag.index = Len(old)
      BY <2>4 DEF CtapHid!Ongoing, CtapHid!Expected
    <3>1. /\ active_state \in CtapHid!Assemblies /\ old \in Seq(CtapHid!Tags)
          /\ old[1] \in CtapHid!Tags /\ old[1].from \in Clients
          /\ Len(old) \in Nat /\ Len(old) >= 1
      BY <3>0, AssemblyFrom DEF HidInv
    <3>2. /\ active_state.cid # CtapHid!Broadcast /\ active_state.cmd = "cbor"
          /\ Consecutive(old, overrun') /\ client[old[1].from].cid = p.cid
      BY <1>2, <3>0 DEF HidInv, HidAssembly, Consecutive
    \* Only one program works on the channel.
    <3>3. p.tag.from = old[1].from
      BY <1>2, <1>4, <3>0, <3>1, <3>2 DEF HidInv, CtapHid!NoSharedChannel
    <3>4. overrun' \/ p.tag.number = old[1].number
      BY <1>2, <1>13, <3>0, <3>3
    <3>5. /\ buffer \in Seq(CtapHid!Tags) /\ Len(buffer) = Len(old) + 1
          /\ buffer[1] = old[1] /\ buffer[Len(old) + 1] = p.tag
          /\ \A i \in 1 .. Len(old) : buffer[i] = old[i]
          /\ DOMAIN buffer = 1 .. Len(old) + 1 /\ DOMAIN old = 1 .. Len(old) /\ buffer # <<>>
      <4> HIDE DEF old
      <4> QED
        BY <1>2, <3>1
    <3> HIDE DEF buffer
    <3>6. Consecutive(buffer, overrun')
      <4> SUFFICES ASSUME NEW i \in 1 .. Len(old) + 1
                   PROVE  /\ buffer[i].index = i - 1 /\ buffer[i].from = buffer[1].from
                          /\ overrun' \/ buffer[i].number = buffer[1].number
        BY <3>5 DEF Consecutive
      <4>1. CASE i \in 1 .. Len(old)
        BY <3>2, <3>5, <4>1 DEF Consecutive
      <4>2. CASE i = Len(old) + 1
        <5>1. Len(old) = i - 1
          BY <3>1, <4>2
        <5> QED
          BY <3>0, <3>3, <3>4, <3>5, <4>2, <5>1
      <4> QED
        BY <3>1, <4>1, <4>2
    <3>7. CASE Len(buffer) = active_state.total
      <4>1. /\ active_state' = None
            /\ CtapHid!dispatch(active_state.cid, active_state.cmd, buffer)
        BY <2>1, <2>4, <3>7 DEF CtapHid!ContPacket, buffer
      <4>2. "cbor" \in CtapHid!Commands /\ "cbor" # "init"
        BY DEF CtapHid!Commands
      <4>3. assembled' = buffer /\ UNCHANGED <<next_cid, active_channels>> /\ PlainReply(tx')
        BY <1>3, <1>7, <3>0, <3>2, <3>5, <4>1, <4>2
      <4> QED
        BY <1>9, <1>11, <3>5, <3>6, <4>1, <4>3 DEF Assembles
    <3>8. CASE Len(buffer) # active_state.total
      <4> DEFINE a == [active_state EXCEPT !.buffer = buffer]
      <4>1. active_state' = a /\ Silent
        BY <2>1, <2>4, <3>8 DEF CtapHid!ContPacket, buffer
      <4>2. /\ a \in CtapHid!Assemblies /\ a.cid = p.cid /\ a.cmd = "cbor" /\ a.buffer = buffer
            /\ a.total = active_state.total
        BY <3>0, <3>1, <3>2, <3>5 DEF CtapHid!Assemblies
      <4>3. Len(old) < active_state.total
        BY <3>0 DEF HidInv, CtapHid!TypeOK
      <4>4. active_state.total \in Nat
        BY <3>1, HidConstants DEF CtapHid!Assemblies
      <4>5. Len(buffer) < active_state.total
        BY <3>1, <3>5, <3>8, <4>3, <4>4
      <4> HIDE DEF a
      <4>6. SoundAssembly(a, overrun')
        BY <1>2, <1>13, <3>0, <3>2, <3>5, <3>6, <4>2, <4>5 DEF SoundAssembly
      <4>7. Assembles
        BY <4>1, <4>6 DEF Assembles
      <4> QED
        BY <1>5, <1>9, <1>10, <4>1, <4>7
    <3> QED
      BY <3>7, <3>8
  <2> QED
    BY <2>1, <2>2, <2>3, <2>4 DEF CtapHid!ContPacket
<1> QED
  BY <1>12, <1>13

\* A packet is sent or tried again: the next one moves into the buffer, and at most a
\* program without a channel gets one.
LEMMA HidDelivers ==
  ASSUME HidInv, ep_out' = None, out_buf' = CtapHid!Polled,
         overrun' = (overrun \/ CtapHid!Overwriting),
         UNCHANGED <<active_state, next_cid, active_channels, assembled>>,
         polls' \in 0 .. MaxPolls - 1, tx' \in Seq(CtapHid!Replies),
         client' \in [Clients -> HidClientStates],
         \A c \in Clients :
            /\ client'[c].number = client[c].number
            /\ client'[c].waiting => client[c].waiting
            /\ client'[c].left > 0 => client'[c] = client[c]
            /\ client[c].cid # CtapHid!Broadcast => client'[c].cid = client[c].cid
            /\ client'[c].cid # client[c].cid => client'[c].cid \in Range(active_channels),
         HidAssigned', CtapHid!NoSharedChannel'
  PROVE  HidInv'
<1> USE DEF HidInv
<1> DEFINE p == CtapHid!Polled
<1>1. /\ client \in [Clients -> HidClientStates] /\ InFlight \subseteq CtapHid!Packets
      /\ active_channels \in Seq(CtapHid!Channels) /\ overrun \in BOOLEAN
      /\ p \in CtapHid!Packets \cup {None} /\ (p = None => InFlight = {})
  BY HidTypes DEF CtapHid!Polled, InFlight
<1>2. overrun' \in BOOLEAN /\ (overrun => overrun')
  BY <1>1 DEF CtapHid!Overwriting
<1>3. InFlight' = {p} \ {None} /\ InFlight' \subseteq InFlight
  BY DEF InFlight, CtapHid!Polled
<1>4. ~overrun' => InFlight' = InFlight
  BY <1>1, <1>3, HidPolled
<1>5. \A q \in InFlight : q.tag.from \in Clients
  BY <1>1 DEF CtapHid!Packets, CtapHid!Tags
<1>6. active_state # None => active_state.buffer[1].from \in Clients
  BY AssemblyFrom
<1>7. CtapHid!TypeOK'
  BY <1>1, <1>2 DEF CtapHid!TypeOK, HidClientStates
<1>8. CtapHid!MessagesIntact'
  BY <1>2 DEF CtapHid!MessagesIntact
<1>9. HidPackets'
  BY <1>3, <1>5 DEF HidPackets
<1>10. HidAssembly'
  BY <1>2, <1>6 DEF HidAssembly, Consecutive
<1>11. HidClients'
  BY DEF HidClients
<1>12. HidAllocated'
  <2>1. Started' = Started
    BY DEF Started
  <2>2. OnTheWay' \subseteq OnTheWay
    BY <1>3 DEF OnTheWay
  <2> QED
    BY <1>1, <2>1, <2>2, AllocatedKept
<1>13. HidOrder'
  <2>1. ~overrun' /\ p # None => p.tag.number = client[p.tag.from].number /\ p.tag.from \in Clients
    BY HidPolled
  <2>2. ~overrun' => NewComes' = NewComes
    BY <1>4 DEF NewComes
  <2> QED
    BY <1>2, <1>6, <2>1, <2>2 DEF HidOrder
<1> QED
  BY <1>7, <1>8, <1>9, <1>10, <1>11, <1>12, <1>13

LEMMA HidSendReport ==
  ASSUME HidInv, CtapHid!SendReport
  PROVE  HidInv'
<1> DEFINE reply == Head(tx)
<1>1. /\ tx # <<>> /\ ep_out' = None /\ out_buf' = CtapHid!Polled
      /\ overrun' = (overrun \/ CtapHid!Overwriting) /\ tx' = Tail(tx) /\ polls' = 0
      /\ client' = CtapHid!Received(reply)
      /\ UNCHANGED <<active_state, next_cid, active_channels, assembled>>
  BY DEF CtapHid!SendReport
<1>2. client \in [Clients -> HidClientStates] /\ tx \in Seq(CtapHid!Replies)
  BY HidTypes DEF HidInv
<1>3. /\ tx' \in Seq(CtapHid!Replies) /\ reply = tx[1] /\ 1 \in DOMAIN tx
      /\ reply \in CtapHid!Replies /\ Len(tx) \in Nat /\ Len(tx) >= 1
      /\ Len(tx') = Len(tx) - 1 /\ DOMAIN tx' = 1 .. Len(tx) - 1
      /\ \A i \in 1 .. Len(tx) - 1 : tx'[i] = tx[i + 1] /\ i + 1 \in DOMAIN tx
  BY <1>1, <1>2
\* A channel comes alone, and is nobody's yet.
<1>4. reply.assigned # None =>
         /\ Len(tx) = 1 /\ reply.cid = CtapHid!Broadcast
         /\ reply.assigned \in Range(active_channels)
         /\ \A c \in Clients : client[c].cid # reply.assigned
  BY <1>3 DEF HidInv, HidAssigned
<1>5. reply.assigned \in CtapHid!Channels \cup {None}
  BY <1>3 DEF CtapHid!Replies
<1> DEFINE Takes(c) == CtapHid!Addressed(c, reply) /\ reply.last
<1> DEFINE cid(c) == IF reply.assigned # None THEN reply.assigned ELSE client[c].cid
<1> DEFINE now(c) == [client[c] EXCEPT !.waiting = FALSE, !.left = 0, !.cid = cid(c)]
<1>6. \A c \in Clients : client'[c] = IF Takes(c) THEN now(c) ELSE client[c]
  BY <1>1 DEF CtapHid!Received
<1>7. ASSUME NEW c \in Clients
      PROVE  /\ now(c) \in HidClientStates /\ now(c).number = client[c].number
             /\ now(c).waiting = FALSE /\ now(c).left = 0 /\ now(c).cid = cid(c)
  <2>1. /\ client[c] \in HidClientStates /\ FALSE \in BOOLEAN /\ 0 \in 0 .. MaxPackets
        /\ cid(c) \in CtapHid!Channels \cup {CtapHid!Broadcast}
    BY <1>2, <1>5, HidConstants DEF HidClientStates
  <2>2. /\ client[c].number \in 0 .. MaxRequests /\ client[c].cmd \in CtapHid!Commands
        /\ client[c].total \in 1 .. MaxPackets + 1
    BY <2>1 DEF HidClientStates
  <2> HIDE DEF cid
  <2>3. now(c) \in HidClientStates
    BY <2>1, <2>2, ClientRecord DEF HidClientStates
  <2> QED
    BY <2>1, <2>3 DEF HidClientStates
<1> HIDE DEF now, reply
<1>8. client' \in [Clients -> HidClientStates]
  <2>1. client' = [c \in Clients |-> client'[c]]
    BY <1>1 DEF CtapHid!Received
  <2> QED
    BY <1>2, <1>6, <1>7, <2>1
\* The only program that gets the channel is the one whose nonce comes with it.
<1>9. ASSUME NEW c \in Clients, client'[c].cid # client[c].cid
      PROVE  /\ c = reply.tag.from /\ client[c].cid = CtapHid!Broadcast
             /\ reply.assigned # None /\ client'[c].cid = reply.assigned
  <2>1. Takes(c) /\ client'[c].cid = cid(c)
    BY <1>6, <1>7, <1>9
  <2>2. reply.assigned # None /\ client'[c].cid = reply.assigned
    BY <1>9, <2>1
  <2>3. client[c].cid = reply.cid /\ (reply.cid = CtapHid!Broadcast => reply.tag.from = c)
    BY <2>1 DEF CtapHid!Addressed
  <2> QED
    BY <1>4, <2>2, <2>3
<1>10. \A c \in Clients :
          /\ client'[c].number = client[c].number
          /\ client'[c].waiting => client[c].waiting
          /\ client'[c].left > 0 => client'[c] = client[c]
          /\ client[c].cid # CtapHid!Broadcast => client'[c].cid = client[c].cid
          /\ client'[c].cid # client[c].cid => client'[c].cid \in Range(active_channels)
  <2> SUFFICES ASSUME NEW c \in Clients
               PROVE  /\ client'[c].number = client[c].number
                      /\ client'[c].waiting => client[c].waiting
                      /\ client'[c].left > 0 => client'[c] = client[c]
                      /\ client[c].cid # CtapHid!Broadcast => client'[c].cid = client[c].cid
                      /\ client'[c].cid # client[c].cid => client'[c].cid \in Range(active_channels)
    OBVIOUS
  <2>1. /\ client[c].cid # CtapHid!Broadcast => client'[c].cid = client[c].cid
        /\ client'[c].cid # client[c].cid => client'[c].cid \in Range(active_channels)
    BY <1>4, <1>9
  <2>2. CASE Takes(c)
    <3>1. client'[c] = now(c)
      BY <1>6, <2>2
    <3>2. /\ client'[c].number = client[c].number /\ client'[c].waiting = FALSE
          /\ client'[c].left = 0
      BY <1>7, <3>1
    <3>3. ~(client'[c].left > 0)
      BY <3>2
    <3> QED
      BY <2>1, <3>2, <3>3
  <2>3. CASE ~Takes(c)
    BY <1>6, <2>1, <2>3
  <2> QED
    BY <2>2, <2>3
<1>11. CtapHid!NoSharedChannel'
  <2> SUFFICES ASSUME NEW c \in Clients, NEW d \in Clients, c # d,
                      client'[c].cid # CtapHid!Broadcast
               PROVE  client'[c].cid # client'[d].cid
    BY DEF CtapHid!NoSharedChannel
  <2>1. CASE client'[c].cid # client[c].cid
    <3>1. client'[d].cid = client[d].cid
      BY <1>9, <2>1
    <3> QED
      BY <1>4, <1>9, <2>1, <3>1
  <2>2. CASE client'[d].cid # client[d].cid
    <3>1. client'[c].cid = client[c].cid
      BY <1>9, <2>2
    <3> QED
      BY <1>4, <1>9, <2>2, <3>1
  <2>3. CASE client'[c].cid = client[c].cid /\ client'[d].cid = client[d].cid
    BY <2>3 DEF HidInv, CtapHid!NoSharedChannel
  <2> QED
    BY <2>1, <2>2, <2>3
<1>12. HidAssigned'
  <2> SUFFICES ASSUME NEW i \in DOMAIN tx', tx'[i].assigned # None PROVE FALSE
    BY DEF HidAssigned
  <2>1. i \in 1 .. Len(tx) - 1
    BY <1>3
  <2>2. tx[i + 1].assigned # None /\ i + 1 \in DOMAIN tx
    BY <1>3, <2>1
  <2>3. Len(tx) = 1
    BY <2>2 DEF HidInv, HidAssigned
  <2> QED
    BY <2>1, <2>3
<1>13. polls' \in 0 .. MaxPolls - 1
  BY <1>1, HidConstants
<1> QED
  BY <1>1, <1>3, <1>8, <1>10, <1>11, <1>12, <1>13, HidDelivers

LEMMA HidBusy ==
  ASSUME HidInv, CtapHid!EndpointBusy
  PROVE  HidInv'
<1>1. /\ ep_out' = None /\ out_buf' = CtapHid!Polled
      /\ overrun' = (overrun \/ CtapHid!Overwriting) /\ polls' = (polls + 1) % MaxPolls
      /\ tx' = <<>> \/ tx' = tx
      /\ UNCHANGED <<active_state, next_cid, active_channels, client, assembled>>
  BY DEF CtapHid!EndpointBusy
<1>2. client \in [Clients -> HidClientStates] /\ tx \in Seq(CtapHid!Replies)
      /\ polls \in 0 .. MaxPolls - 1
  BY HidTypes DEF HidInv
<1>3. polls' \in 0 .. MaxPolls - 1
  <2>1. MaxPolls \in Nat /\ MaxPolls > 0 /\ polls + 1 \in Nat
    BY <1>2, HidConstants
  <2> QED
    BY <1>1, <2>1, ModRange
<1>4. tx' \in Seq(CtapHid!Replies) /\ HidAssigned'
  <2>1. CASE tx' = tx
    BY <1>1, <1>2, <2>1 DEF HidInv, HidAssigned
  <2>2. CASE tx' = <<>>
    BY <2>2 DEF HidAssigned
  <2> QED
    BY <1>1, <2>1, <2>2
<1>5. CtapHid!NoSharedChannel'
  BY <1>1 DEF HidInv, CtapHid!NoSharedChannel
<1> QED
  BY <1>1, <1>2, <1>3, <1>4, <1>5, HidDelivers

LEMMA HidInit ==
  ASSUME CtapHid!Init
  PROVE  HidInv
<1> DEFINE first == [cid |-> CtapHid!Broadcast, number |-> 0, cmd |-> "init", total |-> 1,
                     left |-> 0, waiting |-> FALSE]
<1>1. /\ ep_out = None /\ out_buf = None /\ active_state = None /\ next_cid = FirstCid
      /\ active_channels = <<>> /\ tx = <<>> /\ polls = 0 /\ assembled = <<>> /\ overrun = FALSE
      /\ client = [c \in Clients |-> first]
  BY DEF CtapHid!Init
<1>2. first \in HidClientStates
  BY HidConstants DEF HidClientStates, CtapHid!Commands
<1>3. CtapHid!TypeOK
  <2>1. client \in [Clients -> HidClientStates]
    BY <1>1, <1>2
  <2>2. polls \in 0 .. MaxPolls - 1 /\ next_cid \in CtapHid!Cids
    BY <1>1, HidConstants
  <2>3. /\ active_channels \in Seq(CtapHid!Channels) /\ tx \in Seq(CtapHid!Replies)
        /\ assembled \in Seq(CtapHid!Tags)
    BY <1>1, EmptySeq
  <2>4. overrun \in BOOLEAN
    BY <1>1
  <2> QED
    BY <1>1, <2>1, <2>2, <2>3, <2>4, Zenon DEF CtapHid!TypeOK, HidClientStates
<1>4. InFlight = {} /\ OnTheWay = {}
  BY <1>1 DEF InFlight, OnTheWay
<1>5. \A c \in Clients : /\ client[c].cid = CtapHid!Broadcast /\ client[c].waiting = FALSE
                         /\ client[c].left = 0
  BY <1>1
<1>6. HidClients
  <2>1. ~(0 > 0)
    OBVIOUS
  <2> QED
    BY <1>5, <2>1 DEF HidClients
<1>7. HidAllocated
  <2>1. Cardinality(Started) \in Nat /\ Started \ OnTheWay = Started
    BY <1>4, StartedFinite
  <2> QED
    BY <1>1, <2>1 DEF HidAllocated
<1>8. CtapHid!MessagesIntact /\ HidAssigned
  BY <1>1 DEF CtapHid!MessagesIntact, HidAssigned
<1>9. CtapHid!NoSharedChannel
  BY <1>5 DEF CtapHid!NoSharedChannel
<1>10. HidPackets /\ HidAssembly /\ HidOrder
  BY <1>1, <1>4 DEF HidPackets, HidAssembly, HidOrder
<1> QED
  BY <1>3, <1>6, <1>7, <1>8, <1>9, <1>10 DEF HidInv

LEMMA HidStep ==
  ASSUME HidInv, [CtapHid!Next]_(CtapHid!vars)
  PROVE  HidInv'
<1>1. ASSUME NEW c \in Clients, NEW cmd \in CtapHid!Commands, NEW total \in Lengths,
             CtapHid!StartRequest(c, cmd, total)
      PROVE  HidInv'
  BY <1>1, HidStart
<1>2. ASSUME NEW c \in Clients, CtapHid!SendCont(c) PROVE HidInv'
  BY <1>2, HidCont
<1>3. ASSUME NEW c \in Clients, CtapHid!GiveUp(c) PROVE HidInv'
  BY <1>3, HidGiveUp
<1>4. CASE CtapHid!MainLoop
  BY <1>4, HidMainLoop
<1>5. CASE CtapHid!SendReport
  BY <1>5, HidSendReport
<1>6. CASE CtapHid!EndpointBusy
  BY <1>6, HidBusy
<1>7. CASE UNCHANGED CtapHid!vars
  <2>1. UNCHANGED <<ep_out, out_buf, active_state, next_cid, active_channels, tx, polls, client,
                    assembled, overrun>>
    BY <1>7 DEF CtapHid!vars, CtapHid!device, CtapHid!ghosts
  <2>2. client \in [Clients -> HidClientStates] /\ HidClients'
    BY <2>1, HidTypes DEF HidInv, HidClients
  <2>3. \A c \in Clients : client[c].number \in Nat
    BY <2>2 DEF HidClientStates
  <2>4. \A c \in Clients : client[c].number <= client'[c].number
    BY <2>1, <2>3
  <2> QED
    BY <2>1, <2>2, <2>4, HidSends
<1> QED
  BY <1>1, <1>2, <1>3, <1>4, <1>5, <1>6, <1>7
  DEF CtapHid!Next, CtapHid!Device, CtapHid!send_hid_packets

----------------------------------------------------------------------------
(* The wait for a touch *)

LEMMA TouchInit ==
  ASSUME Presence!Init
  PROVE  TouchInv
<1>1. Window \in Nat \ {0}
  BY Constants DEF Constants, Presence!ConstantsOK
<1>2. 0 \in 0 .. Window /\ 0 \in 0 .. 2 /\ ~(0 > 0)
  BY <1>1
<1>3. Presence!TypeOK
  BY <1>2, Zenon DEF Presence!Init, Presence!TypeOK
<1>4. /\ pc = "idle" /\ gpio25 = FALSE /\ ws2812 = "off" /\ cs = "flash" /\ missed = FALSE
      /\ steady = FALSE
  BY DEF Presence!Init
<1> QED
  BY <1>3, <1>4 DEF TouchInv, Presence!CleanReturn

LEMMA TouchStep ==
  ASSUME TouchInv, [Presence!Next]_(Presence!vars)
  PROVE  TouchInv'
<1>0. Window \in Nat /\ Window > 0
  BY Constants DEF Constants, Presence!ConstantsOK
<1>1. /\ round \in 0 .. Window /\ down \in 0 .. 2 /\ blinks \in 0 .. 2
      /\ gpio25 \in BOOLEAN /\ pressed \in BOOLEAN /\ sample \in BOOLEAN /\ confirmed \in BOOLEAN
      /\ steady \in BOOLEAN /\ missed \in BOOLEAN
  BY DEF TouchInv, Presence!TypeOK
<1> USE DEF TouchInv, Presence!TypeOK, Presence!CleanReturn
<1>2. CASE Presence!Call
  <2>1. /\ pc = "idle" /\ pc' = "round" /\ round' = 0 /\ blinks' = 0 /\ down' = 0
        /\ confirmed' = FALSE /\ steady' = FALSE /\ missed' = FALSE
        /\ UNCHANGED <<gpio25, ws2812, cs, pressed, sample>>
    BY <1>2 DEF Presence!Call, Presence!leds
  <2>2. round' \in 0 .. Window /\ down' \in 0 .. 2 /\ blinks' \in 0 .. 2
    BY <1>0, <2>1
  <2>3. Presence!TypeOK'
    BY <1>1, <2>1, <2>2, Zenon
  <2> QED
    BY <2>1, <2>3
<1>3. CASE Presence!Round
  <2>1. /\ pc = "round" /\ UNCHANGED <<round, cs, pressed, sample, confirmed, blinks, missed>>
        /\ ws2812' \in {"off", "green", "cyan"}
        /\ gpio25' = gpio25 \/ gpio25' = (round % 2 = 0)
        /\ \/ round < Window /\ steady' = pressed /\ down' = 0 /\ pc' = "take"
           \/ UNCHANGED <<steady, down>> /\ pc' = "end"
    BY <1>3 DEF Presence!Round, Presence!leds, Presence!set_presence_led
  <2>2. gpio25' \in BOOLEAN
    BY <1>1, <2>1
  <2>3. CASE round < Window /\ steady' = pressed /\ down' = 0 /\ pc' = "take"
    <3>1. Presence!TypeOK'
      BY <1>1, <2>1, <2>2, <2>3
    <3> QED
      BY <2>1, <2>3, <3>1
  <2>4. CASE UNCHANGED <<steady, down>> /\ pc' = "end"
    <3>1. Presence!TypeOK'
      BY <1>1, <2>1, <2>2, <2>4
    <3> QED
      BY <2>1, <2>4, <3>1
  <2> QED
    BY <2>1, <2>3, <2>4
<1>4. CASE Presence!Take
  BY <1>0, <1>1, <1>4 DEF Presence!Take, Presence!leds, Presence!user
<1>5. CASE Presence!Sample
  BY <1>0, <1>1, <1>5 DEF Presence!Sample, Presence!leds, Presence!user
<1>6. CASE Presence!Decide
  <2>1. /\ pc = "restore" /\ cs' = "flash"
        /\ UNCHANGED <<round, gpio25, ws2812, pressed, steady, missed, sample, blinks>>
        /\ \/ ~sample /\ down' = down /\ pc' = "wait" /\ UNCHANGED confirmed
           \/ sample /\ down = 0 /\ down' = down + 1 /\ pc' = "take" /\ UNCHANGED confirmed
           \/ sample /\ down = 1 /\ down' = down + 1 /\ pc' = "end" /\ confirmed' = TRUE
    <3>1. pc = "restore"
      BY <1>6 DEF Presence!Decide
    <3>2. down = 0 \/ down = 1
      BY <1>1, <3>1
    <3> QED
      BY <1>6, <3>2 DEF Presence!Decide, Presence!restore_cs, Presence!leds, Presence!user
  <2>2. down' \in 0 .. 2 /\ (pc' = "take" => down' < 2)
    BY <1>1, <2>1
  <2>3. confirmed' \in BOOLEAN
    BY <1>1, <2>1
  <2>4. Presence!TypeOK'
    BY <1>1, <2>1, <2>2, <2>3
  <2> QED
    BY <2>1, <2>2, <2>4
<1>7. CASE Presence!Wait
  BY <1>0, <1>1, <1>7 DEF Presence!Wait, Presence!leds
<1>8. CASE Presence!End
  <2>1. /\ pc = "end" /\ gpio25' = FALSE /\ ws2812' = "off" /\ blinks' \in {0, 2}
        /\ pc' \in {"blink", "idle"}
        /\ UNCHANGED <<round, cs, pressed, steady, missed, sample, confirmed, down>>
    BY <1>8 DEF Presence!End, Presence!set_presence_led, Presence!user
  <2>2. blinks' \in 0 .. 2
    BY <2>1
  <2>3. Presence!TypeOK'
    BY <1>1, <2>1, <2>2, Zenon
  <2> QED
    BY <2>1, <2>3
<1>9. CASE Presence!Blink
  BY <1>0, <1>1, <1>9 DEF Presence!Blink, Presence!user
<1>10. CASE Presence!User
  BY <1>0, <1>1, <1>10 DEF Presence!User, Presence!leds
<1>11. CASE UNCHANGED Presence!vars
  BY <1>0, <1>1, <1>11 DEF Presence!vars
<1> QED
  BY <1>2, <1>3, <1>4, <1>5, <1>6, <1>7, <1>8, <1>9, <1>10, <1>11
  DEF Presence!Next, Presence!is_present

----------------------------------------------------------------------------
(* Remainders *)

\* q and r are a quotient and a remainder of x by N.
Divided(x, N, q, r) == q \in Int /\ r \in 0 .. N - 1 /\ x = q * N + r

\* Division with remainder is unique.
LEMMA RemainderUnique ==
  ASSUME NEW N \in Nat, N > 0, NEW x \in Nat, NEW a, NEW b, NEW r, NEW s,
         Divided(x, N, a, r), Divided(x, N, b, s)
  PROVE  r = s
<1>1. a \in Int /\ b \in Int /\ r \in 0 .. N - 1 /\ s \in 0 .. N - 1 /\ a * N + r = b * N + s
  BY DEF Divided
<1>2. CASE a < b
  <2>1. PICK k \in Nat : b = a + 1 + k
    <3>1. b - a - 1 \in Nat /\ b = a + 1 + (b - a - 1)
      BY <1>1, <1>2
    <3> QED
      BY <3>1
  <2>2. b * N = a * N + N + k * N
    BY <1>1, <2>1
  <2>3. k * N >= 0 /\ k * N \in Int /\ a * N \in Int /\ b * N \in Int
    BY <1>1
  <2> QED
    BY <1>1, <2>2, <2>3
<1>3. CASE b < a
  <2>1. PICK k \in Nat : a = b + 1 + k
    <3>1. a - b - 1 \in Nat /\ a = b + 1 + (a - b - 1)
      BY <1>1, <1>3
    <3> QED
      BY <3>1
  <2>2. a * N = b * N + N + k * N
    BY <1>1, <2>1
  <2>3. k * N >= 0 /\ k * N \in Int /\ a * N \in Int /\ b * N \in Int
    BY <1>1
  <2> QED
    BY <1>1, <2>2, <2>3
<1>4. CASE a = b
  <2>1. a * N \in Int /\ a * N = b * N
    BY <1>1, <1>4
  <2> QED
    BY <1>1, <1>4, <2>1
<1> QED
  BY <1>1, <1>2, <1>3, <1>4

LEMMA Division ==
  ASSUME NEW N \in Nat, N > 0, NEW x \in Nat
  PROVE  \E q \in Int : Divided(x, N, q, x % N) 
<1>1. x % N \in 0 .. N - 1 /\ x \div N \in Int
  OBVIOUS
<1>2. x = N * (x \div N) + (x % N)
  BY Z3T(30)
<1>3. PICK q \in Int : q = x \div N
  BY <1>1
<1>4. PICK r \in 0 .. N - 1 : r = x % N
  BY <1>1
<1>5. x = q * N + r
  BY <1>2, <1>3, <1>4
<1> QED
  BY <1>4, <1>5 DEF Divided

LEMMA RemainderOf ==
  ASSUME NEW N \in Nat, N > 0, NEW x \in Nat, NEW q, NEW r, Divided(x, N, q, r)
  PROVE  x % N = r
<1>1. PICK p \in Int : Divided(x, N, p, x % N)
  BY Division
<1> QED
  BY <1>1, RemainderUnique

LEMMA RemainderSum ==
  ASSUME NEW N \in Nat, N > 0, NEW x \in Nat, NEW y \in Nat
  PROVE  ((x % N) + y) % N = (x + y) % N
<1>1. PICK q \in Int : Divided(x, N, q, x % N)
  BY Division
<1>2. PICK r \in 0 .. N - 1 : r = x % N
  BY <1>1 DEF Divided
<1>3. PICK z \in Nat : z = r + y
  BY <1>2
<1>4. PICK p \in Int : Divided(z, N, p, z % N)
  BY Division
<1>5. PICK s \in 0 .. N - 1 : s = z % N
  BY <1>4 DEF Divided
<1>6. x = q * N + r /\ z = p * N + s
  BY <1>1, <1>2, <1>4, <1>5 DEF Divided
<1>7. PICK e \in Int : e = q + p 
  OBVIOUS
<1>8. e * N = q * N + p * N
  BY <1>7
<1>9. x + y = e * N + s
  BY <1>3, <1>6, <1>8
<1>10. Divided(x + y, N, e, s) /\ x + y \in Nat
  BY <1>9 DEF Divided
<1>11. (x + y) % N = s
  BY <1>10, RemainderOf
<1> QED
  BY <1>2, <1>3, <1>5, <1>11

LEMMA SameRemainder ==
  ASSUME NEW N \in Nat, N > 0, NEW x \in Nat, NEW y \in Nat, x <= y, x % N = y % N
  PROVE  (y - x) % N = 0
<1>1. PICK q \in Int : Divided(x, N, q, x % N)
  BY Division
<1>2. PICK p \in Int : Divided(y, N, p, y % N)
  BY Division
<1>3. PICK r \in 0 .. N - 1 : r = x % N
  BY <1>1 DEF Divided
<1>4. x = q * N + r /\ y = p * N + r
  BY <1>1, <1>2, <1>3 DEF Divided
<1>5. PICK e \in Int : e = p - q OBVIOUS
<1>6. e * N = p * N - q * N 
  BY <1>5
<1>7. Divided(y - x, N, e, 0) /\ y - x \in Nat
  BY <1>4, <1>6 DEF Divided
<1> QED
  BY <1>7, RemainderOf

----------------------------------------------------------------------------
(* The start: entropy *)

LEMMA BootConstants ==
  /\ Firmware!States \in Nat /\ Firmware!States > 0 /\ Firmware!States % 2 = 0
  /\ Gamma \in 0 .. Firmware!States - 1 /\ Gamma \in Nat /\ Gamma < Firmware!States
  /\ \A n \in 1 .. Firmware!States - 1 : (n * Gamma) % Firmware!States # 0
  /\ Applets \in Seq(Firmware!Names) /\ Len(Applets) \in Nat /\ Len(Applets) > 0
  /\ \A i \in 1 .. Len(Applets) : Applets[i] \in Firmware!Names
  /\ \A a \in Firmware!Names : \E i \in 1 .. Len(Applets) : a = Applets[i]
  /\ IdWords \in [Firmware!Names -> Nat] /\ MaxBoots \in Nat /\ MaxChanges \in Nat
  /\ None \notin Firmware!AppletStates /\ None \notin Firmware!Records
  /\ Most \in Nat /\ \A a \in Firmware!Names : IdWords[a] <= Most
  /\ 6 + Len(Applets) * (Most + 3) + 2 * MaxChanges < Firmware!States
<1>1. Firmware!ConstantsOK
  BY Constants DEF Constants
<1>2. /\ Firmware!States \in Nat /\ Firmware!States > 0 /\ Firmware!States % 2 = 0
      /\ Gamma \in 0 .. Firmware!States - 1
      /\ \A n \in 1 .. Firmware!States - 1 : (n * Gamma) % Firmware!States # 0
      /\ IdWords \in [Firmware!Names -> Nat] /\ MaxBoots \in Nat /\ MaxChanges \in Nat
      /\ None \notin Firmware!AppletStates /\ None \notin Firmware!Records
      /\ Applets \in Seq(Firmware!Names) /\ Applets # <<>>
  BY <1>1 DEF Firmware!ConstantsOK
<1>3. Gamma \in Nat /\ Gamma < Firmware!States
  BY <1>2
<1>4. /\ Len(Applets) \in Nat /\ Len(Applets) > 0 /\ DOMAIN Applets = 1 .. Len(Applets)
      /\ \A i \in 1 .. Len(Applets) : Applets[i] \in Firmware!Names
  BY <1>2
<1>5. \A a \in Firmware!Names : \E i \in 1 .. Len(Applets) : a = Applets[i]
  BY <1>4 DEF Firmware!Names
<1>6. /\ Most \in 0 .. Firmware!States /\ \A a \in Firmware!Names : IdWords[a] <= Most
      /\ 6 + Len(Applets) * (Most + 3) + 2 * MaxChanges < Firmware!States
  <2>1. \E most \in 0 .. Firmware!States :
           /\ \A a \in Firmware!Names : IdWords[a] <= most
           /\ 6 + Len(Applets) * (most + 3) + 2 * MaxChanges < Firmware!States
    BY <1>1 DEF Firmware!ConstantsOK
  <2> QED
    BY <2>1, Zenon DEF Most
<1>7. Most \in Nat
  BY <1>2, <1>6
<1> QED
  BY <1>2, <1>3, <1>4, <1>5, <1>6, <1>7

LEMMA SplitmixWord ==
  ASSUME NEW s \in Nat, NEW n \in Nat
  PROVE  Firmware!splitmix64(s, n) \in Firmware!Words /\ Firmware!splitmix64(s, n) \in Nat
<1>0. Gamma \in Nat /\ Firmware!States \in Nat /\ Firmware!States > 0
  BY BootConstants
<1>1. s + n * Gamma \in Nat
  BY <1>0
<1>2. (s + n * Gamma) % Firmware!States \in 0 .. Firmware!States - 1
  BY <1>0, <1>1, ModRange
<1> QED
  BY <1>0, <1>2 DEF Firmware!splitmix64, Firmware!Words

\* Drawing m words and then n is drawing m + n.
LEMMA SplitmixSum ==
  ASSUME NEW s \in Nat, NEW m \in Nat, NEW n \in Nat
  PROVE  Firmware!splitmix64(Firmware!splitmix64(s, m), n) = Firmware!splitmix64(s, m + n)
<1>1. Gamma \in Nat /\ Firmware!States \in Nat /\ Firmware!States > 0
  BY BootConstants
<1>2. PICK x \in Nat : x = s + m * Gamma
  BY <1>1
<1>3. PICK y \in Nat : y = n * Gamma
  BY <1>1
<1>4. x + y = s + (m + n) * Gamma
  <2>1. (m + n) * Gamma = m * Gamma + n * Gamma
    BY <1>1
  <2> QED
    BY <1>1, <1>2, <1>3, <2>1
<1>5. ((x % Firmware!States) + y) % Firmware!States = (x + y) % Firmware!States
  BY <1>1, RemainderSum
<1> QED
  BY <1>2, <1>3, <1>4, <1>5 DEF Firmware!splitmix64

LEMMA FilledWords ==
  ASSUME NEW s \in Nat, NEW n \in Nat
  PROVE  /\ Firmware!Filled(s, n) \in Seq(Firmware!Words)
         /\ n > 0 => Firmware!Filled(s, n)[1] = Firmware!splitmix64(s, 1)
<1>1. \A i \in 1 .. n : Firmware!splitmix64(s, i) \in Firmware!Words
  BY SplitmixWord
<1> QED
  BY <1>1 DEF Firmware!Filled

\* The first word drawn tells the state.
LEMMA FilledTells ==
  ASSUME NEW s \in Firmware!Words, NEW t \in Firmware!Words, NEW n \in Nat, n > 0,
         Firmware!Filled(s, n) = Firmware!Filled(t, n)
  PROVE  s = t
<1>1. Gamma \in Nat /\ Gamma < Firmware!States /\ Firmware!States \in Nat /\ Firmware!States > 0
  BY BootConstants
<1>2. s \in Nat /\ t \in Nat /\ s < Firmware!States /\ t < Firmware!States
  BY <1>1 DEF Firmware!Words
<1>3. Firmware!splitmix64(s, 1) = Firmware!splitmix64(t, 1)
  BY <1>2, FilledWords
<1>4. (s + Gamma) % Firmware!States = (t + Gamma) % Firmware!States
  BY <1>1, <1>2, <1>3 DEF Firmware!splitmix64
<1> QED
  BY <1>1, <1>2, <1>4

\* No state returns before every other was met.
LEMMA SplitmixMoves ==
  ASSUME NEW s \in Nat, NEW m \in Nat, NEW n \in Nat, m < n, n - m < Firmware!States
  PROVE  Firmware!splitmix64(s, m) # Firmware!splitmix64(s, n)
<1>1. /\ Gamma \in Nat /\ Firmware!States \in Nat /\ Firmware!States > 0
      /\ \A d \in 1 .. Firmware!States - 1 : (d * Gamma) % Firmware!States # 0
  BY BootConstants
<1>2. SUFFICES ASSUME Firmware!splitmix64(s, m) = Firmware!splitmix64(s, n) PROVE FALSE
  OBVIOUS
<1>3. PICK x \in Nat : x = s + m * Gamma
  BY <1>1
<1>4. PICK y \in Nat : y = s + n * Gamma
  BY <1>1
<1>5. PICK d \in 1 .. Firmware!States - 1 : n = m + d
  <2>1. n - m \in 1 .. Firmware!States - 1 /\ n = m + (n - m)
    BY <1>1
  <2> QED
    BY <2>1
<1>6. n * Gamma = m * Gamma + d * Gamma /\ d * Gamma \in Nat /\ m * Gamma \in Nat
  BY <1>1, <1>5
<1>7. y - x = d * Gamma /\ x <= y
  BY <1>3, <1>4, <1>6
<1>8. (y - x) % Firmware!States = 0
  BY <1>1, <1>2, <1>3, <1>4, <1>7, SameRemainder DEF Firmware!splitmix64
<1> QED
  BY <1>1, <1>5, <1>7, <1>8

\* Two seeds make two keys.
LEMMA KeyTells ==
  ASSUME NEW s \in Firmware!Words, NEW t \in Firmware!Words, KeyOf(s) = KeyOf(t)
  PROVE  s = t
<1>1. Gamma \in Nat /\ Gamma < Firmware!States /\ Firmware!States \in Nat /\ Firmware!States > 0
  BY BootConstants
<1>2. s \in Nat /\ t \in Nat /\ s < Firmware!States /\ t < Firmware!States
  BY <1>1 DEF Firmware!Words
<1>3. /\ Firmware!splitmix64(s, 2) \in Firmware!Words /\ Firmware!splitmix64(t, 2) \in Firmware!Words
      /\ Firmware!splitmix64(s, 1) \in Firmware!Words /\ Firmware!splitmix64(t, 1) \in Firmware!Words
  BY <1>2, SplitmixWord
<1>4. Firmware!splitmix64(s, 2) = Firmware!splitmix64(t, 2)
  BY <1>3, FilledTells DEF KeyOf
<1>5. /\ Firmware!splitmix64(s, 2) = Firmware!splitmix64(Firmware!splitmix64(s, 1), 1)
      /\ Firmware!splitmix64(t, 2) = Firmware!splitmix64(Firmware!splitmix64(t, 1), 1)
  <2>1. PICK one \in Nat : one = 1
    OBVIOUS
  <2>2. /\ Firmware!splitmix64(Firmware!splitmix64(s, one), one) = Firmware!splitmix64(s, one + one)
        /\ Firmware!splitmix64(Firmware!splitmix64(t, one), one) = Firmware!splitmix64(t, one + one)
    BY <1>2, SplitmixSum
  <2>3. one + one = 2
    BY <2>1
  <2> QED
    BY <2>1, <2>2, <2>3
<1>6. ASSUME NEW x \in Firmware!Words, NEW y \in Firmware!Words,
             Firmware!splitmix64(x, 1) = Firmware!splitmix64(y, 1)
      PROVE  x = y
  <2>1. x \in Nat /\ y \in Nat /\ x < Firmware!States /\ y < Firmware!States
    BY <1>1 DEF Firmware!Words
  <2>2. (x + Gamma) % Firmware!States = (y + Gamma) % Firmware!States
    BY <1>1, <1>6, <2>1 DEF Firmware!splitmix64
  <2> QED
    BY <1>1, <2>1, <2>2
<1>7. Firmware!splitmix64(s, 1) = Firmware!splitmix64(t, 1)
  BY <1>3, <1>4, <1>5, <1>6
<1> QED
  BY <1>6, <1>7

LEMMA SplitmixZero ==
  ASSUME NEW s \in Firmware!Words
  PROVE  Firmware!splitmix64(s, 0) = s
<1>1. Gamma \in Nat /\ Firmware!States \in Nat /\ Firmware!States > 0
  BY BootConstants
<1>2. s \in Nat /\ s < Firmware!States
  BY <1>1 DEF Firmware!Words
<1>3. s + 0 * Gamma = s
  BY <1>1, <1>2
<1>4. s % Firmware!States = s
  BY <1>1, <1>2
<1> QED
  BY <1>3, <1>4 DEF Firmware!splitmix64

LEMMA TimesMonotonic ==
  ASSUME NEW a \in Nat, NEW b \in Nat, NEW c \in Nat, a <= b
  PROVE  a * c <= b * c /\ a * c \in Nat /\ b * c \in Nat
<1>1. PICK d \in Nat : b = a + d
  <2>1. b - a \in Nat /\ b = a + (b - a)
    OBVIOUS
  <2> QED
    BY <2>1
<1>2. b * c = a * c + d * c /\ d * c \in Nat /\ a * c \in Nat
  BY <1>1
<1> QED
  BY <1>2

----------------------------------------------------------------------------
(* The start: its steps *)

LEMMA BootTypes ==
  ASSUME Firmware!TypeOK
  PROVE  /\ disk \in [Firmware!Names -> Firmware!Records \cup {None}]
         /\ pc \in {"off", "seeded", "flash", "load", "run", "halt"}
         /\ loaded \in 0 .. Len(Applets) /\ loaded \in Nat /\ boots \in 0 .. MaxBoots /\ boots \in Nat
         /\ rng \in Firmware!Words /\ rng \in Nat /\ key \in Seq(Firmware!Words) \cup {None}
         /\ state \in [Firmware!Names -> Firmware!AppletStates \cup {None}]
         /\ changes \in 0 .. MaxChanges /\ changes \in Nat /\ credentials \in BOOLEAN
         /\ told \in [Firmware!Names -> Firmware!AppletStates \cup {None}]
         /\ seals \subseteq Firmware!Records /\ seeds \subseteq Firmware!Words
         /\ repeated \in BOOLEAN /\ Firmware!Words \subseteq Nat
<1>1. Firmware!Words \subseteq Nat /\ Len(Applets) \in Nat /\ MaxBoots \in Nat /\ MaxChanges \in Nat
  BY BootConstants DEF Firmware!Words
<1> QED
  BY <1>1 DEF Firmware!TypeOK

LEMMA BudgetBound ==
  ASSUME boots \in 0 .. MaxBoots, changes \in 0 .. MaxChanges, pc # "off" => boots > 0
  PROVE  /\ Budget \in Nat /\ Budget <= boots * MaxChanges
         /\ boots * MaxChanges <= MaxBoots * MaxChanges
         /\ boots * MaxChanges \in Nat /\ MaxBoots * MaxChanges \in Nat
         /\ pc # "off" /\ changes < MaxChanges => Budget + 1 <= boots * MaxChanges
<1>1. MaxBoots \in Nat /\ MaxChanges \in Nat /\ boots \in Nat /\ changes \in Nat
  BY BootConstants
<1>2. /\ boots * MaxChanges <= MaxBoots * MaxChanges
      /\ boots * MaxChanges \in Nat /\ MaxBoots * MaxChanges \in Nat
  BY <1>1, TimesMonotonic
<1>3. CASE pc = "off"
  BY <1>1, <1>2, <1>3 DEF Budget
<1>4. CASE pc # "off"
  <2>1. PICK before \in Nat : boots = before + 1
    <3>1. boots - 1 \in Nat /\ boots = (boots - 1) + 1
      BY <1>1, <1>4
    <3> QED
      BY <3>1
  <2>2. boots * MaxChanges = before * MaxChanges + MaxChanges /\ before * MaxChanges \in Nat
    BY <1>1, <2>1
  <2>3. Budget = before * MaxChanges + changes
    <3>1. boots - 1 = before
      BY <2>1
    <3> QED
      BY <1>4, <3>1 DEF Budget
  <2> QED
    BY <1>1, <1>2, <2>2, <2>3
<1> QED
  BY <1>3, <1>4

\* A record sealed after `skip' more words has a nonce of its own.
LEMMA BootSeals ==
  ASSUME BootInv, pc \in {"load", "run"}, NEW skip \in Nat, NEW text, NEW bound \in Nat,
         bound < Firmware!States, DrawnAtMost + skip + 2 <= bound, DrawnAtMost \in Nat,
         pc' \in {"load", "run", "halt"},
         pc' # "halt" => DrawnAtMost' \in Nat /\ bound <= DrawnAtMost',
         rng' = Firmware!splitmix64(rng, skip + 2),
         seals' = seals \cup {Firmware!Sealed(Firmware!splitmix64(rng, skip), text)},
         UNCHANGED <<key, seeds, repeated>>
  PROVE  Firmware!NonceOnce' /\ BootKeys'
<1> DEFINE new == Firmware!Sealed(Firmware!splitmix64(rng, skip), text)
<1>1. /\ seeds \subseteq Firmware!Words /\ Firmware!Words \subseteq Nat
      /\ Firmware!States \in Nat
  BY BootTypes, BootConstants DEF BootInv
<1>2. PICK seed \in seeds, drawn \in 0 .. DrawnAtMost :
         /\ key = KeyOf(seed) /\ rng = Firmware!splitmix64(seed, 2 + drawn)
         /\ repeated \/ \A r \in seals : r.key = key => Drawn(r, seed, drawn)
  BY DEF BootInv, BootKeys
<1>3. seed \in Nat /\ drawn \in Nat /\ drawn <= DrawnAtMost
  BY <1>1
<1>4. PICK at \in Nat : at = drawn + skip
  BY <1>3
<1>5. PICK after \in Nat : after = at + 2
  OBVIOUS
<1>6. /\ Firmware!splitmix64(rng, skip) = Firmware!splitmix64(seed, 2 + at)
      /\ rng' = Firmware!splitmix64(seed, 2 + after)
  <2>1. PICK m \in Nat : m = 2 + drawn
    BY <1>3
  <2>2. PICK n \in Nat : n = skip + 2
    OBVIOUS
  <2>3. \A j \in Nat : Firmware!splitmix64(Firmware!splitmix64(seed, m), j)
                         = Firmware!splitmix64(seed, m + j)
    BY <1>3, SplitmixSum, Zenon
  <2>4. m + skip = 2 + at /\ m + n = 2 + after
    BY <1>3, <1>4, <1>5, <2>1, <2>2
  <2> QED
    BY <1>2, <2>1, <2>2, <2>3, <2>4
<1>7. /\ new.key = key /\ new.nonce = Firmware!Filled(Firmware!splitmix64(seed, 2 + at), 2)
  BY <1>6 DEF Firmware!Sealed
<1>8. seals' = seals \cup {new}
  OBVIOUS
<1> HIDE DEF new
\* The nonces before it were drawn at earlier states.
<1>9. ASSUME ~repeated, NEW r \in seals, r.key = key, r.nonce = new.nonce PROVE FALSE
  <2>1. PICK k \in 0 .. drawn - 2 :
           r.nonce = Firmware!Filled(Firmware!splitmix64(seed, 2 + k), 2)
    BY <1>2, <1>9 DEF Drawn
  <2>2. PICK m \in Nat : m = 2 + k
    BY <1>3, <2>1
  <2>3. PICK n \in Nat : n = 2 + at
    OBVIOUS
  <2>4. m < n /\ n - m < Firmware!States
    BY <1>1, <1>3, <1>4, <2>1, <2>2, <2>3
  <2>5. Firmware!splitmix64(seed, m) \in Firmware!Words /\ Firmware!splitmix64(seed, n) \in Firmware!Words
    BY <1>3, SplitmixWord
  <2>6. Firmware!Filled(Firmware!splitmix64(seed, m), 2) = Firmware!Filled(Firmware!splitmix64(seed, n), 2)
    BY <1>7, <1>9, <2>1, <2>2, <2>3
  <2>7. Firmware!splitmix64(seed, m) = Firmware!splitmix64(seed, n)
    BY <2>5, <2>6, FilledTells
  <2> QED
    BY <1>3, <2>4, <2>7, SplitmixMoves
<1>10. Firmware!NonceOnce'
  <2> SUFFICES ASSUME ~repeated, NEW r1 \in seals', NEW r2 \in seals',
                      r1.key = r2.key, r1.nonce = r2.nonce
               PROVE  r1 = r2
    BY DEF Firmware!NonceOnce
  <2>1. CASE r1 \in seals /\ r2 \in seals
    BY <2>1 DEF BootInv, Firmware!NonceOnce
  <2>2. CASE r1 \in seals /\ r2 = new
    BY <1>7, <1>9, <2>2
  <2>3. CASE r1 = new /\ r2 \in seals
    BY <1>7, <1>9, <2>3
  <2> QED
    BY <1>8, <2>1, <2>2, <2>3
<1>11. \A r \in seals' : \E sd \in seeds : r.key = KeyOf(sd)
  BY <1>2, <1>7, <1>8 DEF BootInv, BootKeys
<1>12. ASSUME pc' # "halt"
       PROVE  \E sd \in seeds, dr \in 0 .. DrawnAtMost' :
                 /\ key = KeyOf(sd) /\ rng' = Firmware!splitmix64(sd, 2 + dr)
                 /\ repeated \/ \A r \in seals' : r.key = key => Drawn(r, sd, dr)
  <2>1. after \in 0 .. DrawnAtMost'
    BY <1>3, <1>4, <1>5, <1>12
  <2>2. ASSUME ~repeated, NEW r \in seals', r.key = key PROVE Drawn(r, seed, after)
    <3>1. CASE r \in seals
      <4>1. PICK k \in 0 .. drawn - 2 :
               r.nonce = Firmware!Filled(Firmware!splitmix64(seed, 2 + k), 2)
        BY <1>2, <2>2, <3>1 DEF Drawn
      <4>2. k \in 0 .. after - 2
        BY <1>3, <1>4, <1>5
      <4> QED
        BY <4>1, <4>2 DEF Drawn
    <3>2. CASE r = new
      <4>1. at \in 0 .. after - 2
        BY <1>5
      <4> QED
        BY <1>7, <3>2, <4>1 DEF Drawn
    <3> QED
      BY <1>8, <3>1, <3>2
  <2> QED
    BY <1>2, <1>6, <2>1, <2>2
<1>13. BootKeys'
  <2>1. pc' \notin {"seeded", "flash"}
    OBVIOUS
  <2>2. pc' \in {"load", "run"} => pc' # "halt"
    OBVIOUS
  <2>3. \A r, sd, dr : Drawn(r, sd, dr)' <=> Drawn(r, sd, dr)
    BY DEF Drawn
  <2> QED
    BY <1>11, <1>12, <2>1, <2>2 DEF BootKeys, Drawn
<1> QED
  BY <1>10, <1>13

LEMMA BootInit ==
  ASSUME Firmware!Init
  PROVE  BootInv
<1>1. /\ disk = [a \in Firmware!Names |-> None] /\ pc = "off" /\ loaded = 0 /\ rng = 0
      /\ boots = 0 /\ key = None /\ state = [a \in Firmware!Names |-> None] /\ changes = 0
      /\ credentials = FALSE /\ told = [a \in Firmware!Names |-> None] /\ seals = {}
      /\ seeds = {} /\ repeated = FALSE
  BY DEF Firmware!Init
<1>2. /\ loaded \in 0 .. Len(Applets) /\ boots \in 0 .. MaxBoots /\ rng \in Firmware!Words
      /\ changes \in 0 .. MaxChanges
  BY <1>1, BootConstants DEF Firmware!Words
<1>3. Firmware!TypeOK
  BY <1>1, <1>2, Zenon DEF Firmware!TypeOK
<1>4. BootStages /\ BootLoaded /\ BootKeys /\ Firmware!NonceOnce
  BY <1>1 DEF BootStages, BootLoaded, BootKeys, Firmware!NonceOnce
<1>5. BootTold /\ BootChanged
  BY <1>1 DEF BootTold, BootChanged
<1> QED
  BY <1>3, <1>4, <1>5 DEF BootInv

\* The records, the applets and what was told stay; the keys are taken care of.
LEMMA BootGoesOn ==
  ASSUME BootInv, UNCHANGED <<disk, state, told, seals, changes, loaded>>,
         pc' \in {"off", "seeded", "flash", "load", "run", "halt"}, boots' \in 0 .. MaxBoots,
         rng' \in Firmware!Words, key' \in Seq(Firmware!Words) \cup {None},
         credentials' \in BOOLEAN, seeds' \subseteq Firmware!Words, repeated' \in BOOLEAN,
         repeated => repeated', BootStages', BootLoaded', Budget' = Budget, BootKeys'
  PROVE  BootInv'
<1>1. Firmware!TypeOK'
  BY DEF BootInv, Firmware!TypeOK
<1>2. Firmware!NonceOnce'
  BY DEF BootInv, Firmware!NonceOnce
<1>3. BootTold' /\ BootChanged'
  BY DEF BootInv, BootTold, BootChanged
<1> QED
  BY <1>1, <1>2, <1>3 DEF BootInv

LEMMA BootPowerOn ==
  ASSUME BootInv, Firmware!PowerOn
  PROVE  BootInv'
<1>1. /\ boots \in Nat /\ changes \in Nat /\ loaded \in Nat /\ repeated \in BOOLEAN
      /\ seeds \subseteq Firmware!Words /\ Firmware!Words \subseteq Nat
      /\ key \in Seq(Firmware!Words) \cup {None} /\ credentials \in BOOLEAN /\ boots \in 0 .. MaxBoots
  BY BootTypes DEF BootInv
<1>2. PICK word \in Firmware!Words :
         /\ rng' = Firmware!After(Firmware!entropy_seed(word), 2)
         /\ repeated' = (repeated \/ Firmware!entropy_seed(word) \in seeds)
         /\ seeds' = seeds \cup {Firmware!entropy_seed(word)}
  BY DEF Firmware!PowerOn
<1>3. /\ pc = "off" /\ boots < MaxBoots /\ boots' = boots + 1 /\ pc' = "seeded"
      /\ UNCHANGED <<disk, loaded, key, state, changes, credentials, told, seals>>
  BY DEF Firmware!PowerOn
<1> DEFINE seed == Firmware!entropy_seed(word)
<1>4. seed \in Firmware!Words /\ seed \in Nat
  <2>1. Firmware!States \in Nat /\ Firmware!States > 0 /\ Firmware!States % 2 = 0
    BY BootConstants
  <2>2. word \in Nat /\ word < Firmware!States
    BY <2>1 DEF Firmware!Words
  <2>3. CASE word % 2 = 1
    BY <1>1, <2>3 DEF Firmware!entropy_seed
  <2>4. CASE word % 2 # 1
    <3>1. word + 1 < Firmware!States
      BY <2>1, <2>2, <2>4
    <3> QED
      BY <2>1, <2>2, <2>4, <3>1 DEF Firmware!entropy_seed, Firmware!Words
  <2> QED
    BY <2>3, <2>4
<1>5. rng' = Firmware!splitmix64(seed, 2) /\ rng' \in Firmware!Words
  BY <1>2, <1>4, SplitmixWord DEF Firmware!After
<1>6. repeated' = (repeated \/ seed \in seeds) /\ seeds' = seeds \cup {seed}
  BY <1>2
<1> HIDE DEF seed
<1>7. BootKeys'
  <2>1. \A r \in seals : \E sd \in seeds : r.key = KeyOf(sd)
    BY DEF BootInv, BootKeys
  <2>2. ASSUME ~repeated', NEW r \in seals PROVE r.key # KeyOf(seed)
    <3>1. PICK sd \in seeds : r.key = KeyOf(sd)
      BY <2>1
    <3>2. sd # seed /\ sd \in Firmware!Words
      BY <1>1, <1>6, <2>2
    <3> QED
      BY <1>4, <3>1, <3>2, KeyTells
  <2>3. repeated' \/ \A r \in seals' : r.key # KeyOf(seed)
    BY <1>3, <2>2
  <2>4. seed \in seeds'
    BY <1>6
  <2>5. \A r \in seals' : \E sd \in seeds' : r.key = KeyOf(sd)
    BY <1>3, <1>6, <2>1
  <2> QED
    BY <1>3, <1>5, <2>3, <2>4, <2>5 DEF BootKeys
<1>8. Budget' = Budget
  <2>1. (boots + 1) - 1 = boots /\ MaxChanges \in Nat /\ changes = 0
    BY <1>1, <1>3, BootConstants DEF BootInv, BootStages
  <2>2. boots * MaxChanges + 0 = boots * MaxChanges
    BY <1>1, <2>1
  <2> QED
    BY <1>3, <2>1, <2>2 DEF Budget
<1>9. boots' \in 0 .. MaxBoots /\ boots' > 0
  BY <1>1, <1>3, BootConstants
<1>10. BootStages' /\ BootLoaded'
  BY <1>3, <1>9 DEF BootInv, BootStages, BootLoaded
<1>11. /\ repeated' \in BOOLEAN /\ (repeated => repeated') /\ seeds' \subseteq Firmware!Words
  BY <1>1, <1>4, <1>6
<1>12. /\ key' \in Seq(Firmware!Words) \cup {None} /\ credentials' \in BOOLEAN
       /\ pc' \in {"off", "seeded", "flash", "load", "run", "halt"}
       /\ UNCHANGED <<disk, state, told, seals, changes, loaded>>
  BY <1>1, <1>3
<1> QED
  BY <1>5, <1>7, <1>8, <1>9, <1>10, <1>11, <1>12, BootGoesOn

LEMMA BootOpens ==
  ASSUME BootInv, Firmware!OpenFlash
  PROVE  BootInv'
<1>1. /\ pc = "seeded" /\ pc' \in {"flash", "halt"}
      /\ UNCHANGED <<disk, loaded, rng, key, state, changes, credentials, told, seals,
                     seeds, repeated, boots>>
  BY DEF Firmware!OpenFlash, Firmware!Halt, Firmware!boot
<1>2. /\ boots \in 0 .. MaxBoots /\ rng \in Firmware!Words /\ repeated \in BOOLEAN
      /\ key \in Seq(Firmware!Words) \cup {None} /\ credentials \in BOOLEAN
      /\ seeds \subseteq Firmware!Words
  BY BootTypes DEF BootInv
<1>3. BootStages' /\ BootLoaded'
  BY <1>1 DEF BootInv, BootStages, BootLoaded
<1>4. BootKeys'
  BY <1>1 DEF BootInv, BootKeys
<1>5. Budget' = Budget
  BY <1>1 DEF Budget
<1>6. /\ boots' \in 0 .. MaxBoots /\ rng' \in Firmware!Words /\ repeated' \in BOOLEAN
      /\ key' \in Seq(Firmware!Words) \cup {None} /\ credentials' \in BOOLEAN
      /\ seeds' \subseteq Firmware!Words /\ (repeated => repeated')
      /\ pc' \in {"off", "seeded", "flash", "load", "run", "halt"}
  BY <1>1, <1>2
<1> QED
  BY <1>1, <1>3, <1>4, <1>5, <1>6, BootGoesOn

LEMMA BootNewEngine ==
  ASSUME BootInv, Firmware!NewEngine
  PROVE  BootInv'
<1>0. /\ pc = "flash" /\ UNCHANGED <<disk, state, told, seals, changes, loaded, credentials,
                                     seeds, repeated, boots>>
  BY DEF Firmware!NewEngine, Firmware!Halt, Firmware!boot
<1>1. /\ boots \in 0 .. MaxBoots /\ rng \in Firmware!Words /\ repeated \in BOOLEAN
      /\ key \in Seq(Firmware!Words) \cup {None} /\ credentials \in BOOLEAN
      /\ seeds \subseteq Firmware!Words /\ rng \in Nat /\ Firmware!Words \subseteq Nat
  BY BootTypes DEF BootInv
<1>2. loaded = 0 /\ changes = 0 /\ boots > 0
  BY <1>0 DEF BootInv, BootStages
<1>3. /\ boots' \in 0 .. MaxBoots /\ repeated' \in BOOLEAN /\ credentials' \in BOOLEAN
      /\ seeds' \subseteq Firmware!Words /\ (repeated => repeated')
  BY <1>0, <1>1
<1>4. CASE Firmware!Halt
  <2>1. pc' = "halt" /\ UNCHANGED <<rng, key>>
    BY <1>4 DEF Firmware!Halt
  <2>2. BootStages' /\ BootLoaded'
    BY <1>0, <1>2, <2>1 DEF BootStages, BootLoaded
  <2>3. BootKeys'
    BY <1>0, <2>1 DEF BootInv, BootKeys
  <2>4. Budget' = Budget
    BY <1>0, <2>1 DEF Budget
  <2>5. /\ rng' \in Firmware!Words /\ key' \in Seq(Firmware!Words) \cup {None}
        /\ pc' \in {"off", "seeded", "flash", "load", "run", "halt"}
    BY <1>1, <2>1
  <2> QED
    BY <1>0, <1>3, <2>2, <2>3, <2>4, <2>5, BootGoesOn
<1>5. CASE key' = Firmware!Filled(rng, 4) /\ rng' = Firmware!After(rng, 4) /\ pc' = "load"
  <2>1. rng' \in Firmware!Words /\ key' \in Seq(Firmware!Words)
    BY <1>1, <1>5, SplitmixWord, FilledWords DEF Firmware!After
  <2>2. loaded < Len(Applets)
    BY <1>2, BootConstants
  <2>3. BootStages'
    BY <1>0, <1>2, <1>5, <2>1, <2>2 DEF BootStages
  <2>4. BootLoaded'
    BY <1>0, <1>2 DEF BootLoaded
  <2>5. PICK seed \in seeds : /\ rng = Firmware!splitmix64(seed, 2)
                              /\ repeated \/ \A r \in seals : r.key # KeyOf(seed)
    BY <1>0 DEF BootInv, BootKeys
  <2>6. key' = KeyOf(seed) /\ seed \in Nat
    BY <1>1, <1>5, <2>5 DEF KeyOf
  <2>7. rng' = Firmware!splitmix64(seed, 2 + 4)
    <3>1. PICK m \in Nat : m = 2
      OBVIOUS
    <3>2. PICK n \in Nat : n = 4
      OBVIOUS
    <3>3. Firmware!splitmix64(Firmware!splitmix64(seed, m), n) = Firmware!splitmix64(seed, m + n)
      BY <2>6, SplitmixSum
    <3> QED
      BY <1>5, <2>5, <3>1, <3>2, <3>3 DEF Firmware!After
  <2>8. 4 \in 0 .. DrawnAtMost'
    <3>1. Most \in Nat
      BY BootConstants
    <3>2. 0 * (Most + 3) = 0
      BY <3>1
    <3>3. DrawnAtMost' = 4 + 0 * (Most + 3) + 2 * 0
      BY <1>0, <1>2 DEF DrawnAtMost
    <3>4. DrawnAtMost' = 4
      BY <3>2, <3>3
    <3> QED
      BY <3>4
  <2>9. BootKeys'
    <3>1. repeated' \/ \A r \in seals' : r.key = key' => Drawn(r, seed, 4)
      BY <1>0, <2>5, <2>6
    <3>2. \A r \in seals' : \E sd \in seeds' : r.key = KeyOf(sd)
      BY <1>0 DEF BootInv, BootKeys
    <3>3. \E sd \in seeds', drawn \in 0 .. DrawnAtMost' :
              /\ key' = KeyOf(sd) /\ rng' = Firmware!splitmix64(sd, 2 + drawn)
              /\ repeated' \/ \A r \in seals' : r.key = key' => Drawn(r, sd, drawn)
      BY <1>0, <2>6, <2>7, <2>8, <3>1
    <3> QED
      BY <1>5, <3>2, <3>3 DEF BootKeys, Drawn
  <2>10. Budget' = Budget
    BY <1>0, <1>5 DEF Budget
  <2>11. /\ key' \in Seq(Firmware!Words) \cup {None}
         /\ pc' \in {"off", "seeded", "flash", "load", "run", "halt"}
    BY <1>5, <2>1
  <2> QED
    BY <1>0, <1>3, <2>1, <2>3, <2>4, <2>9, <2>10, <2>11, BootGoesOn
<1> QED
  BY <1>4, <1>5 DEF Firmware!NewEngine

\* What may have been drawn stays below the number of states.
LEMMA DrawnBound ==
  ASSUME loaded \in 0 .. Len(Applets), changes \in 0 .. MaxChanges
  PROVE  /\ DrawnAtMost \in Nat /\ DrawnAtMost < Firmware!States
         /\ loaded < Len(Applets) =>
               /\ 4 + (loaded + 1) * (Most + 3) + 2 * changes = DrawnAtMost + (Most + 3)
               /\ DrawnAtMost + (Most + 3) < Firmware!States
         /\ changes < MaxChanges =>
               /\ 4 + loaded * (Most + 3) + 2 * (changes + 1) = DrawnAtMost + 2
               /\ DrawnAtMost + 2 < Firmware!States
<1>1. /\ Len(Applets) \in Nat /\ Most \in Nat /\ MaxChanges \in Nat /\ Firmware!States \in Nat
      /\ 6 + Len(Applets) * (Most + 3) + 2 * MaxChanges < Firmware!States
  BY BootConstants
<1>2. PICK w \in Nat : w = Most + 3
  BY <1>1
<1>3. loaded \in Nat /\ loaded <= Len(Applets) /\ changes \in Nat /\ changes <= MaxChanges
  BY <1>1
<1>4. loaded * w <= Len(Applets) * w /\ loaded * w \in Nat /\ Len(Applets) * w \in Nat
  BY <1>1, <1>3, TimesMonotonic
<1>5. DrawnAtMost = 4 + loaded * w + 2 * changes
  BY <1>2 DEF DrawnAtMost
<1>6. DrawnAtMost \in Nat /\ DrawnAtMost < Firmware!States
  BY <1>1, <1>2, <1>3, <1>4, <1>5
<1>7. ASSUME loaded < Len(Applets)
      PROVE  /\ 4 + (loaded + 1) * w + 2 * changes = DrawnAtMost + w
             /\ DrawnAtMost + w < Firmware!States
  <2>1. PICK next \in Nat : next = loaded + 1
    BY <1>3
  <2>2. next * w = loaded * w + w
    BY <1>3, <2>1
  <2>3. next * w <= Len(Applets) * w
    BY <1>1, <1>3, <1>7, <2>1, TimesMonotonic
  <2>4. 4 + next * w + 2 * changes = DrawnAtMost + w
    BY <1>3, <1>4, <1>5, <2>2
  <2>5. DrawnAtMost + w < Firmware!States
    BY <1>1, <1>2, <1>3, <1>4, <1>5, <2>2, <2>3
  <2> QED
    BY <2>1, <2>4, <2>5
<1>8. ASSUME changes < MaxChanges
      PROVE  /\ 4 + loaded * w + 2 * (changes + 1) = DrawnAtMost + 2
             /\ DrawnAtMost + 2 < Firmware!States
  BY <1>1, <1>2, <1>3, <1>4, <1>5, <1>8
<1> QED
  BY <1>2, <1>6, <1>7, <1>8

LEMMA BootLoad ==
  ASSUME BootInv, NEW again \in {0, 1}, Firmware!Load(again)
  PROVE  BootInv'
<1> DEFINE a == Applets[loaded + 1]
<1> DEFINE record == Firmware!decrypt(disk[a])
<1> DEFINE s == Firmware!After(rng, again)
<1> DEFINE t == Firmware!After(s, IdWords[a])
<1> DEFINE text == [id |-> Firmware!Filled(s, IdWords[a]), changed |-> 0]
<1>1. /\ pc = "load" /\ UNCHANGED <<key, changes, credentials, told, seeds, repeated, boots>>
  BY DEF Firmware!Load, Firmware!boot
<1>2. /\ disk \in [Firmware!Names -> Firmware!Records \cup {None}]
      /\ state \in [Firmware!Names -> Firmware!AppletStates \cup {None}]
      /\ told \in [Firmware!Names -> Firmware!AppletStates \cup {None}]
      /\ loaded \in 0 .. Len(Applets) /\ loaded \in Nat /\ rng \in Firmware!Words /\ rng \in Nat
      /\ changes \in 0 .. MaxChanges /\ changes \in Nat /\ boots \in 0 .. MaxBoots /\ boots \in Nat
      /\ credentials \in BOOLEAN /\ repeated \in BOOLEAN /\ seals \subseteq Firmware!Records
      /\ seeds \subseteq Firmware!Words /\ Firmware!Words \subseteq Nat
  BY BootTypes DEF BootInv
<1>3. /\ loaded < Len(Applets) /\ changes = 0 /\ boots > 0 /\ key \in Seq(Firmware!Words)
  BY <1>1 DEF BootInv, BootStages
<1>4. /\ loaded + 1 \in 1 .. Len(Applets) /\ Len(Applets) \in Nat /\ a \in Firmware!Names
      /\ IdWords[a] \in Nat /\ IdWords[a] <= Most /\ Most \in Nat
      /\ \A i \in 1 .. Len(Applets) : Applets[i] \in Firmware!Names
      /\ None \notin Firmware!AppletStates /\ None \notin Firmware!Records
  <2>1. loaded + 1 \in 1 .. Len(Applets)
    BY <1>2, <1>3, BootConstants
  <2> QED
    BY <2>1, BootConstants
<1>5. DrawnAtMost \in Nat /\ DrawnAtMost + (Most + 3) < Firmware!States
      /\ 4 + (loaded + 1) * (Most + 3) + 2 * changes = DrawnAtMost + (Most + 3)
  BY <1>2, <1>3, DrawnBound
<1>6. Budget \in Nat
  BY <1>2, <1>3, BudgetBound
\* What the steps share: an applet made, or the halt.
<1> DEFINE Halts == pc' = "halt" /\ UNCHANGED loaded
<1>7. ASSUME Firmware!Made
      PROVE  /\ pc' \in {"load", "run"} /\ loaded' = loaded + 1 /\ loaded' \in 0 .. Len(Applets)
             /\ BootStages' /\ Budget' = Budget
             /\ DrawnAtMost' = DrawnAtMost + (Most + 3)
  <2>1. /\ loaded' = loaded + 1
        /\ \/ loaded + 1 = Len(Applets) /\ pc' = "run"
           \/ loaded + 1 # Len(Applets) /\ pc' = "load"
    BY <1>7 DEF Firmware!Made
  <2>2. loaded' \in 0 .. Len(Applets) /\ (loaded + 1 # Len(Applets) => loaded + 1 < Len(Applets))
    BY <1>2, <1>3, <1>4, <2>1
  <2>3. pc' \in {"load", "run"}
    BY <2>1
  <2>4. BootStages'
    BY <1>1, <1>3, <2>1, <2>2 DEF BootStages
  <2>5. Budget' = Budget
    BY <1>1, <2>3 DEF Budget
  <2>6. DrawnAtMost' = DrawnAtMost + (Most + 3)
    BY <1>1, <1>5, <2>1 DEF DrawnAtMost
  <2> QED
    BY <2>1, <2>2, <2>3, <2>4, <2>5, <2>6
<1>8. ASSUME Halts
      PROVE  /\ pc' \in {"load", "run", "halt"} /\ loaded' \in 0 .. Len(Applets) /\ BootStages'
             /\ BootLoaded' /\ Budget' = Budget
  BY <1>1, <1>2, <1>3, <1>8 DEF BootStages, BootLoaded, Budget
<1>9. CASE /\ record # None /\ state' = [state EXCEPT ![a] = record] /\ Firmware!Made
           /\ UNCHANGED <<disk, rng, seals>>
  <2>1. /\ disk[a] # None /\ disk[a].key = key /\ record = disk[a].text
    BY <1>9 DEF Firmware!decrypt
  <2>2. record \in Firmware!AppletStates
    <3>1. disk[a] \in Firmware!Records
      BY <1>2, <1>4, <2>1
    <3> QED
      BY <2>1, <3>1 DEF Firmware!Records
  <2> HIDE DEF record, a
  <2>3. /\ state' \in [Firmware!Names -> Firmware!AppletStates \cup {None}]
        /\ state'[a] = record /\ \A b \in Firmware!Names : b # a => state'[b] = state[b]
    BY <1>2, <1>4, <1>9, <2>2
  <2>4. Firmware!TypeOK'
    BY <1>1, <1>2, <1>3, <1>7, <1>9, <2>3 DEF Firmware!TypeOK
  <2>5. BootLoaded'
    <3> SUFFICES ASSUME NEW i \in 1 .. loaded + 1
                 PROVE  /\ state'[Applets[i]] # None /\ disk[Applets[i]] # None
                        /\ disk[Applets[i]].key = key
      BY <1>1, <1>7, <1>9 DEF BootLoaded
    <3>1. CASE Applets[i] = a
      BY <1>9, <2>1, <2>3, <3>1
    <3>2. CASE Applets[i] # a
      <4>1. i \in 1 .. loaded
        BY <1>2, <3>2 DEF a
      <4>2. Applets[i] \in Firmware!Names
        BY <1>2, <1>4, <4>1
      <4> QED
        BY <1>1, <2>3, <3>2, <4>1, <4>2 DEF BootInv, BootLoaded
    <3> QED
      BY <3>1, <3>2
  <2>6. BootTold'
    BY <1>1, <1>3, <1>9, <2>1, <2>3 DEF BootInv, BootTold
  <2>7. BootChanged'
    BY <1>1, <1>7, <1>9, <2>1, <2>3 DEF BootInv, BootChanged
  <2>8. Firmware!NonceOnce'
    BY <1>1, <1>9 DEF BootInv, Firmware!NonceOnce
  <2>9. BootKeys'
    <3>1. PICK seed \in seeds, drawn \in 0 .. DrawnAtMost :
             /\ key = KeyOf(seed) /\ rng = Firmware!splitmix64(seed, 2 + drawn)
             /\ repeated \/ \A r \in seals : r.key = key => Drawn(r, seed, drawn)
      BY <1>1 DEF BootInv, BootKeys
    <3>2. drawn \in 0 .. DrawnAtMost'
      BY <1>4, <1>5, <1>7, <1>9
    <3>3. \A r \in seals' : \E sd \in seeds' : r.key = KeyOf(sd)
      BY <1>1, <1>9 DEF BootInv, BootKeys
    <3>4. \E sd \in seeds', dr \in 0 .. DrawnAtMost' :
              /\ key' = KeyOf(sd) /\ rng' = Firmware!splitmix64(sd, 2 + dr)
              /\ repeated' \/ \A r \in seals' : r.key = key' => Drawn(r, sd, dr)
      BY <1>1, <1>9, <3>1, <3>2
    <3> QED
      BY <1>7, <1>9, <3>3, <3>4 DEF BootKeys, Drawn
  <2> QED
    BY <1>7, <1>9, <2>4, <2>5, <2>6, <2>7, <2>8, <2>9 DEF BootInv
<1>10. CASE /\ record = None /\ state' = [state EXCEPT ![a] = text] /\ rng' = Firmware!After(t, 2)
            /\ seals' = seals \cup {Firmware!Sealed(t, text)}
            /\ \/ disk' = [disk EXCEPT ![a] = Firmware!Sealed(t, text)] /\ Firmware!Made
               \/ Halts /\ UNCHANGED disk
  <2> DEFINE new == Firmware!Sealed(t, text)
  <2>1. PICK skip \in Nat : skip = again + IdWords[a]
    BY <1>4
  <2>2. /\ s \in Nat /\ t \in Nat /\ t = Firmware!splitmix64(rng, skip)
        /\ rng' = Firmware!splitmix64(rng, skip + 2) /\ rng' \in Firmware!Words
    <3>1. again \in Nat
      OBVIOUS
    <3>2. s = Firmware!splitmix64(rng, again) /\ s \in Nat
      BY <1>2, <3>1, SplitmixWord DEF Firmware!After
    <3>3. t = Firmware!splitmix64(rng, skip)
      <4>1. PICK n \in Nat : n = IdWords[a]
        BY <1>4
      <4>2. PICK m \in Nat : m = again
        BY <3>1
      <4> HIDE DEF s
      <4>3. PICK from \in Nat : from = rng
        BY <1>2
      <4>4. Firmware!splitmix64(Firmware!splitmix64(from, m), n) = Firmware!splitmix64(from, m + n)
        BY SplitmixSum, Zenon
      <4> QED
        BY <2>1, <3>2, <4>1, <4>2, <4>3, <4>4 DEF Firmware!After
    <3>4. t \in Nat
      BY <1>2, <3>3, SplitmixWord
    <3>5. rng' = Firmware!splitmix64(t, 2)
      BY <1>10 DEF Firmware!After
    <3>6. Firmware!splitmix64(Firmware!splitmix64(rng, skip), 2) = Firmware!splitmix64(rng, skip + 2)
      <4>1. 2 \in Nat
        OBVIOUS
      <4> QED
        BY <1>2, <4>1, SplitmixSum, Zenon
    <3>7. rng' \in Firmware!Words
      BY <3>4, <3>5, SplitmixWord
    <3> QED
      BY <3>2, <3>3, <3>4, <3>5, <3>6, <3>7
  <2>3. text \in Firmware!AppletStates /\ text.changed = 0
    <3>1. 0 \in 0 .. MaxBoots * MaxChanges
      BY <1>2, <1>3, BudgetBound
    <3>2. Firmware!Filled(s, IdWords[a]) \in Seq(Firmware!Words)
      BY <1>4, <2>2, FilledWords
    <3> QED
      BY <3>1, <3>2 DEF Firmware!AppletStates
  <2>4. new \in Firmware!Records /\ new.key = key /\ new.text = text
    <3>1. 2 \in Nat
      OBVIOUS
    <3>2. Firmware!Filled(t, 2) \in Seq(Firmware!Words)
      BY <2>2, <3>1, FilledWords
    <3> HIDE DEF text
    <3> QED
      BY <1>3, <2>3, <3>2 DEF Firmware!Sealed, Firmware!Records
  <2>5. /\ state' = [state EXCEPT ![a] = text] /\ seals' = seals \cup {new}
        /\ seals' = seals \cup {Firmware!Sealed(Firmware!splitmix64(rng, skip), text)}
        /\ \/ disk' = [disk EXCEPT ![a] = new] /\ Firmware!Made
           \/ Halts /\ UNCHANGED disk
    BY <1>10, <2>2
  <2> HIDE DEF text, new, a, s, t
  <2>6. /\ state' \in [Firmware!Names -> Firmware!AppletStates \cup {None}]
        /\ state'[a] = text /\ \A b \in Firmware!Names : b # a => state'[b] = state[b]
    BY <1>2, <1>4, <2>3, <2>5
  <2>7. /\ disk' \in [Firmware!Names -> Firmware!Records \cup {None}]
        /\ disk'[a] = new \/ disk'[a] = disk[a]
        /\ Firmware!Made => disk'[a] = new
        /\ \A b \in Firmware!Names : b # a => disk'[b] = disk[b]
    <3>1. CASE disk' = [disk EXCEPT ![a] = new]
      BY <1>2, <1>4, <2>4, <3>1
    <3>2. CASE Halts /\ UNCHANGED disk
      <4>1. ~Firmware!Made
        BY <1>2, <3>2 DEF Firmware!Made
      <4> QED
        BY <1>2, <3>2, <4>1
    <3> QED
      BY <2>5, <3>1, <3>2
  <2>8. /\ pc' \in {"load", "run", "halt"} /\ loaded' \in 0 .. Len(Applets) /\ BootStages'
        /\ Budget' = Budget
    BY <1>7, <1>8, <2>5
  <2>9. seals' \subseteq Firmware!Records
    BY <1>2, <2>4, <2>5
  <2>10. Firmware!TypeOK'
    BY <1>1, <1>2, <1>3, <2>2, <2>6, <2>7, <2>8, <2>9 DEF Firmware!TypeOK
  <2>11. BootLoaded'
    <3>1. CASE Halts
      BY <1>8, <3>1
    <3>2. CASE Firmware!Made
      <4> SUFFICES ASSUME NEW i \in 1 .. loaded + 1
                   PROVE  /\ state'[Applets[i]] # None /\ disk'[Applets[i]] # None
                          /\ disk'[Applets[i]].key = key
        BY <1>1, <1>7, <3>2 DEF BootLoaded
      <4>1. CASE Applets[i] = a
        BY <1>4, <2>3, <2>4, <2>6, <2>7, <3>2, <4>1
      <4>2. CASE Applets[i] # a
        <5>1. i \in 1 .. loaded
          BY <1>2, <4>2 DEF a
        <5>2. Applets[i] \in Firmware!Names
          BY <1>2, <1>4, <5>1
        <5> QED
          BY <1>1, <2>6, <2>7, <4>2, <5>1, <5>2 DEF BootInv, BootLoaded
      <4> QED
        BY <4>1, <4>2
    <3> QED
      BY <2>5, <3>1, <3>2
  <2>12. BootTold'
    BY <1>1, <1>3, <2>3, <2>4, <2>6, <2>7 DEF BootInv, BootTold
  <2>13. BootChanged'
    <3>1. 0 <= Budget
      BY <1>6
    <3> QED
      BY <2>3, <2>4, <2>6, <2>7, <2>8, <3>1 DEF BootInv, BootChanged
  <2>14. Firmware!NonceOnce' /\ BootKeys'
    <3>1. PICK bound \in Nat : bound = DrawnAtMost + (Most + 3)
      BY <1>4, <1>5
    <3>2. bound < Firmware!States
      BY <1>5, <3>1
    <3>3. DrawnAtMost + skip + 2 <= bound
      <4>1. PICK n \in Nat : n = IdWords[a]
        BY <1>4
      <4>2. PICK drawn \in Nat : drawn = DrawnAtMost
        BY <1>5
      <4>3. n <= Most /\ Most \in Nat /\ skip = again + n /\ bound = drawn + (Most + 3)
        BY <1>4, <2>1, <3>1, <4>1, <4>2
      <4>4. drawn + skip + 2 <= bound
        BY ONLY <4>3, n \in Nat, drawn \in Nat, again \in {0, 1}
      <4> QED
        BY <4>2, <4>4
    <3>4. pc' # "halt" => DrawnAtMost' \in Nat /\ bound <= DrawnAtMost'
      <4> SUFFICES ASSUME pc' # "halt" PROVE DrawnAtMost' = bound
        OBVIOUS
      <4> QED
        BY <1>7, <2>5, <3>1
    <3> QED
      BY <1>1, <1>5, <2>2, <2>5, <2>8, <3>2, <3>3, <3>4, BootSeals
  <2> QED
    BY <2>8, <2>10, <2>11, <2>12, <2>13, <2>14 DEF BootInv
<1>11. CASE pc' = "halt" /\ UNCHANGED <<disk, loaded, rng, state, seals>>
  <2>1. BootStages' /\ BootLoaded' /\ Budget' = Budget
    BY <1>8, <1>11
  <2>2. BootKeys'
    BY <1>1, <1>11 DEF BootInv, BootKeys
  <2>3. Firmware!TypeOK'
    BY <1>1, <1>2, <1>3, <1>11 DEF Firmware!TypeOK
  <2>4. BootTold' /\ BootChanged' /\ Firmware!NonceOnce'
    BY <1>1, <1>11, <2>1 DEF BootInv, BootTold, BootChanged, Firmware!NonceOnce
  <2> QED
    BY <2>1, <2>2, <2>3, <2>4 DEF BootInv
<1> QED
  BY <1>9, <1>10, <1>11 DEF Firmware!Load

\* While the firmware runs, every applet has its state and a record that opens.
LEMMA BootRuns ==
  ASSUME BootInv, pc = "run", NEW a \in Firmware!Names
  PROVE  state[a] # None /\ disk[a] # None /\ disk[a].key = key
<1>1. PICK i \in 1 .. Len(Applets) : a = Applets[i]
  BY BootConstants
<1>2. loaded = Len(Applets)
  BY DEF BootInv, BootStages
<1>3. state[Applets[i]] # None /\ disk[Applets[i]] # None /\ disk[Applets[i]].key = key
  BY <1>2 DEF BootInv, BootLoaded
<1> QED
  BY <1>1, <1>3

\* A change in RAM and perhaps in the flash; a failed write leaves the record, and what
\* the host was told, as they were.
LEMMA BootChange ==
  ASSUME BootInv, NEW a \in Firmware!Names, Firmware!Change(a)
  PROVE  BootInv'
<1> DEFINE text == [state[a] EXCEPT !.changed = @ + 1]
<1>1. /\ pc = "run" /\ changes < MaxChanges /\ changes' = changes + 1
      /\ UNCHANGED <<loaded, key, credentials, seeds, repeated, boots>>
  BY DEF Firmware!Change, Firmware!boot
<1>2. /\ disk \in [Firmware!Names -> Firmware!Records \cup {None}]
      /\ state \in [Firmware!Names -> Firmware!AppletStates \cup {None}]
      /\ told \in [Firmware!Names -> Firmware!AppletStates \cup {None}]
      /\ loaded \in 0 .. Len(Applets) /\ loaded \in Nat /\ rng \in Firmware!Words /\ rng \in Nat
      /\ changes \in 0 .. MaxChanges /\ changes \in Nat /\ boots \in 0 .. MaxBoots /\ boots \in Nat
      /\ credentials \in BOOLEAN /\ repeated \in BOOLEAN /\ seals \subseteq Firmware!Records
      /\ seeds \subseteq Firmware!Words /\ MaxChanges \in Nat
      /\ None \notin Firmware!AppletStates /\ None \notin Firmware!Records
  BY BootTypes, BootConstants DEF BootInv
<1>3. /\ loaded = Len(Applets) /\ boots > 0 /\ key \in Seq(Firmware!Words)
  BY <1>1 DEF BootInv, BootStages
<1>4. changes' \in 0 .. MaxChanges /\ changes' > 0
  BY <1>1, <1>2
<1>5. PICK budget \in Nat : budget = Budget
  BY <1>2, <1>3, BudgetBound
<1>6. budget + 1 <= boots * MaxChanges /\ budget + 1 <= MaxBoots * MaxChanges
      /\ MaxBoots * MaxChanges \in Nat
  <2>1. /\ Budget + 1 <= boots * MaxChanges /\ boots * MaxChanges <= MaxBoots * MaxChanges
        /\ boots * MaxChanges \in Nat /\ MaxBoots * MaxChanges \in Nat
    BY <1>1, <1>2, <1>3, BudgetBound
  <2>2. PICK m \in Nat : m = boots * MaxChanges
    BY <2>1
  <2>3. PICK n \in Nat : n = MaxBoots * MaxChanges
    BY <2>1
  <2> QED
    BY <1>5, <2>1, <2>2, <2>3
<1>7. ASSUME pc' # "off" PROVE Budget' = budget + 1
  <2>1. PICK before : before = (boots - 1) * MaxChanges /\ before \in Nat
    <3>1. boots - 1 \in Nat
      BY <1>2, <1>3
    <3> QED
      BY <1>2, <3>1
  <2>2. budget = before + changes
    BY <1>1, <1>5, <2>1 DEF Budget
  <2>3. Budget' = before + (changes + 1)
    BY <1>1, <1>7, <2>1 DEF Budget
  <2> QED
    BY <1>2, <2>1, <2>2, <2>3
<1>8. /\ state[a] \in Firmware!AppletStates /\ disk[a] # None
      /\ \A b \in Firmware!Names : state[b] # None /\ disk[b] # None /\ disk[b].key = key
  <2>1. \A b \in Firmware!Names : state[b] # None /\ disk[b] # None /\ disk[b].key = key
    BY <1>1, BootRuns
  <2> QED
    BY <1>2, <2>1
<1>9. text \in Firmware!AppletStates /\ text.changed <= budget + 1
  <2>1. state[a].changed <= budget /\ state[a].changed \in Nat
    BY <1>5, <1>6, <1>8 DEF BootInv, BootChanged, Firmware!AppletStates
  <2>2. state[a].changed + 1 \in 0 .. MaxBoots * MaxChanges
    BY <1>6, <2>1
  <2>3. text.changed = state[a].changed + 1
    BY <1>8 DEF Firmware!AppletStates
  <2>4. text \in Firmware!AppletStates
    BY <1>8, <2>2 DEF Firmware!AppletStates
  <2> QED
    BY <2>1, <2>3, <2>4
<1> HIDE DEF text
<1>10. ASSUME pc' \in {"run", "halt"} PROVE BootStages'
  BY <1>1, <1>3, <1>10 DEF BootStages
<1>11. CASE /\ rng' = Firmware!After(rng, 2) /\ seals' = seals \cup {Firmware!Sealed(rng, text)}
            /\ \/ /\ disk' = [disk EXCEPT ![a] = Firmware!Sealed(rng, text)]
                  /\ state' = [state EXCEPT ![a] = text] /\ told' = [told EXCEPT ![a] = text]
               \/ /\ state' = IF a \in RollsBack THEN state ELSE [state EXCEPT ![a] = text]
                  /\ UNCHANGED <<disk, told>>
            /\ UNCHANGED pc
  <2> DEFINE new == Firmware!Sealed(rng, text)
  <2>1. new \in Firmware!Records /\ new.key = key /\ new.text = text
    <3>1. 2 \in Nat
      OBVIOUS
    <3>2. Firmware!Filled(rng, 2) \in Seq(Firmware!Words)
      BY <1>2, <3>1, FilledWords
    <3> QED
      BY <1>3, <1>9, <3>2 DEF Firmware!Sealed, Firmware!Records
  <2>2. /\ rng' = Firmware!splitmix64(rng, 2) /\ rng' \in Firmware!Words
        /\ seals' = seals \cup {new} /\ pc' = "run"
        /\ seals' = seals \cup {Firmware!Sealed(rng, text)}
    BY <1>1, <1>2, <1>11, SplitmixWord DEF Firmware!After
  <2>3. \/ /\ disk' = [disk EXCEPT ![a] = new] /\ told' = [told EXCEPT ![a] = text]
           /\ state' = [state EXCEPT ![a] = text]
        \/ UNCHANGED <<disk, told>> /\ (UNCHANGED state \/ state' = [state EXCEPT ![a] = text])
    BY <1>11
  <2> HIDE DEF new
  <2>4. /\ state' \in [Firmware!Names -> Firmware!AppletStates \cup {None}]
        /\ disk' \in [Firmware!Names -> Firmware!Records \cup {None}]
        /\ told' \in [Firmware!Names -> Firmware!AppletStates \cup {None}]
        /\ \A b \in Firmware!Names : state'[b] = state[b] \/ state'[b] = text
        /\ \A b \in Firmware!Names : \/ disk'[b] = disk[b] /\ told'[b] = told[b]
                                     \/ disk'[b] = new /\ told'[b] = text
    <3>1. CASE /\ disk' = [disk EXCEPT ![a] = new] /\ told' = [told EXCEPT ![a] = text]
               /\ state' = [state EXCEPT ![a] = text]
      BY <1>2, <1>9, <2>1, <3>1
    <3>2. CASE UNCHANGED <<disk, told>> /\ (UNCHANGED state \/ state' = [state EXCEPT ![a] = text])
      BY <1>2, <1>9, <3>2
    <3> QED
      BY <2>3, <3>1, <3>2
  <2>5. seals' \subseteq Firmware!Records
    BY <1>2, <2>1, <2>2
  <2>6. Firmware!TypeOK'
    BY <1>1, <1>2, <1>3, <1>4, <2>2, <2>4, <2>5 DEF Firmware!TypeOK
  <2>7. BootLoaded'
    <3> SUFFICES ASSUME NEW i \in 1 .. Len(Applets)
                 PROVE  /\ state'[Applets[i]] # None /\ disk'[Applets[i]] # None
                        /\ disk'[Applets[i]].key = key
      BY <1>1, <1>3 DEF BootLoaded
    <3>1. Applets[i] \in Firmware!Names
      BY BootConstants
    <3> QED
      BY <1>2, <1>8, <1>9, <2>1, <2>4, <3>1
  <2>8. BootTold'
    <3>1. \A b \in Firmware!Names : disk[b].text = told[b] \/ disk[b].text.changed = 0
      BY <1>8 DEF BootInv, BootTold
    <3> QED
      BY <1>4, <2>1, <2>4, <3>1 DEF BootTold
  <2>9. BootChanged'
    <3>1. \A b \in Firmware!Names : disk[b].text.changed <= budget /\ state[b].changed <= budget
      BY <1>5, <1>8 DEF BootInv, BootChanged
    <3>2. \A b \in Firmware!Names : disk[b].text.changed \in Nat /\ state[b].changed \in Nat
      <4> SUFFICES ASSUME NEW b \in Firmware!Names
                   PROVE  disk[b].text.changed \in Nat /\ state[b].changed \in Nat
        OBVIOUS
      <4>1. disk[b] \in Firmware!Records /\ state[b] \in Firmware!AppletStates
        BY <1>2, <1>8
      <4>2. disk[b].text \in Firmware!AppletStates
        BY <4>1 DEF Firmware!Records
      <4> QED
        BY <1>6, <4>1, <4>2 DEF Firmware!AppletStates
    <3>3. Budget' = budget + 1
      BY <1>7, <2>2
    <3> SUFFICES ASSUME NEW b \in Firmware!Names
                 PROVE  disk'[b].text.changed <= budget + 1 /\ state'[b].changed <= budget + 1
      BY <3>3 DEF BootChanged
    <3>4. disk'[b].text.changed <= budget + 1
      BY <1>9, <2>1, <2>4, <3>1, <3>2
    <3>5. state'[b].changed <= budget + 1
      BY <1>9, <2>4, <3>1, <3>2
    <3> QED
      BY <3>4, <3>5
  <2>10. Firmware!NonceOnce' /\ BootKeys'
    <3>1. DrawnAtMost \in Nat /\ DrawnAtMost + 2 < Firmware!States /\ DrawnAtMost' = DrawnAtMost + 2
      <4>1. /\ DrawnAtMost \in Nat /\ DrawnAtMost + 2 < Firmware!States
            /\ 4 + loaded * (Most + 3) + 2 * (changes + 1) = DrawnAtMost + 2
        BY <1>1, <1>2, DrawnBound
      <4>2. DrawnAtMost' = 4 + loaded * (Most + 3) + 2 * (changes + 1)
        BY <1>1 DEF DrawnAtMost
      <4> QED
        BY <4>1, <4>2
    <3>2. PICK skip \in Nat : skip = 0
      OBVIOUS
    <3>3. PICK bound \in Nat : bound = DrawnAtMost + 2
      BY <3>1
    <3>4. Firmware!splitmix64(rng, skip) = rng /\ Firmware!splitmix64(rng, skip + 2) = rng'
      BY <1>2, <2>2, <3>2, SplitmixZero
    <3>5. DrawnAtMost + skip + 2 <= bound /\ bound < Firmware!States /\ bound <= DrawnAtMost'
          /\ DrawnAtMost' \in Nat
      BY <3>1, <3>2, <3>3
    <3>6. seals' = seals \cup {Firmware!Sealed(Firmware!splitmix64(rng, skip), text)}
      BY <2>2, <3>4
    <3> QED
      BY <1>1, <2>2, <3>1, <3>4, <3>5, <3>6, BootSeals
  <2> QED
    BY <1>10, <2>2, <2>6, <2>7, <2>8, <2>9, <2>10 DEF BootInv
<1>12. CASE pc' = "halt" /\ UNCHANGED <<disk, rng, state, told, seals>>
  <2>1. Firmware!TypeOK'
    BY <1>1, <1>2, <1>3, <1>4, <1>12 DEF Firmware!TypeOK
  <2>2. BootLoaded' /\ Firmware!NonceOnce' /\ BootKeys'
    BY <1>1, <1>12 DEF BootInv, BootLoaded, Firmware!NonceOnce, BootKeys
  <2>3. BootTold'
    BY <1>4, <1>12 DEF BootInv, BootTold
  <2>4. BootChanged'
    <3>1. \A b \in Firmware!Names : disk[b].text.changed <= budget /\ state[b].changed <= budget
      BY <1>5, <1>8 DEF BootInv, BootChanged
    <3>2. \A b \in Firmware!Names : disk[b].text.changed \in Nat /\ state[b].changed \in Nat
      <4> SUFFICES ASSUME NEW b \in Firmware!Names
                   PROVE  disk[b].text.changed \in Nat /\ state[b].changed \in Nat
        OBVIOUS
      <4>1. disk[b] \in Firmware!Records /\ state[b] \in Firmware!AppletStates
        BY <1>2, <1>8
      <4>2. disk[b].text \in Firmware!AppletStates
        BY <4>1 DEF Firmware!Records
      <4> QED
        BY <1>6, <4>1, <4>2 DEF Firmware!AppletStates
    <3>3. Budget' = budget + 1
      BY <1>7, <1>12
    <3> QED
      BY <1>12, <3>1, <3>2, <3>3 DEF BootChanged
  <2> QED
    BY <1>10, <1>12, <2>1, <2>2, <2>3, <2>4 DEF BootInv
<1> QED
  BY <1>11, <1>12 DEF Firmware!Change, text

LEMMA BootRegister ==
  ASSUME BootInv, Firmware!Register
  PROVE  BootInv'
<1>1. /\ credentials' = TRUE
      /\ UNCHANGED <<disk, pc, loaded, rng, key, state, changes, told, seals, seeds, repeated, boots>>
  BY DEF Firmware!Register, Firmware!boot
<1>2. Firmware!TypeOK'
  BY <1>1 DEF BootInv, Firmware!TypeOK
<1>3. Firmware!NonceOnce' /\ BootStages' /\ BootLoaded' /\ BootTold'
  BY <1>1 DEF BootInv, Firmware!NonceOnce, BootStages, BootLoaded, BootTold
<1>4. BootChanged' /\ BootKeys'
  BY <1>1 DEF BootInv, BootChanged, Budget, BootKeys, DrawnAtMost, Drawn
<1> QED
  BY <1>2, <1>3, <1>4 DEF BootInv

\* The changes left in a start are lost with it.
LEMMA BootPowerLoss ==
  ASSUME BootInv, Firmware!PowerLoss
  PROVE  BootInv'
<1>1. /\ pc # "off" /\ pc' = "off" /\ loaded' = 0 /\ rng' = 0 /\ key' = None
      /\ state' = [a \in Firmware!Names |-> None] /\ changes' = 0 /\ credentials' = FALSE
      /\ UNCHANGED <<disk, told, seals, seeds, repeated, boots>>
  BY DEF Firmware!PowerLoss, Firmware!boot
<1>2. /\ disk \in [Firmware!Names -> Firmware!Records \cup {None}]
      /\ boots \in 0 .. MaxBoots /\ changes \in 0 .. MaxChanges /\ boots > 0
  BY <1>1, BootTypes DEF BootInv, BootStages
<1>3. loaded' \in 0 .. Len(Applets) /\ changes' \in 0 .. MaxChanges /\ rng' \in Firmware!Words
  BY <1>1, BootConstants DEF Firmware!Words
<1>4. state' \in [Firmware!Names -> Firmware!AppletStates \cup {None}]
  BY <1>1
<1>5. Firmware!TypeOK'
  BY <1>1, <1>3, <1>4 DEF BootInv, Firmware!TypeOK
<1>6. Firmware!NonceOnce' /\ BootStages' /\ BootLoaded' /\ BootTold'
  BY <1>1 DEF BootInv, Firmware!NonceOnce, BootStages, BootLoaded, BootTold
<1>7. BootKeys'
  BY <1>1 DEF BootInv, BootKeys
<1>8. PICK budget \in Nat, after \in Nat : budget = Budget /\ after = Budget' /\ budget <= after
  <2>1. Budget \in Nat /\ Budget <= boots * MaxChanges /\ boots * MaxChanges \in Nat
    BY <1>2, BudgetBound
  <2>2. Budget' = boots * MaxChanges
    BY <1>1 DEF Budget
  <2> QED
    BY <2>1, <2>2
<1>9. BootChanged'
  <2> SUFFICES ASSUME NEW a \in Firmware!Names, disk[a] # None
               PROVE  disk[a].text.changed <= after
    BY <1>1, <1>8 DEF BootChanged
  <2>1. disk[a] \in Firmware!Records
    BY <1>2
  <2>2. disk[a].text.changed \in 0 .. MaxBoots * MaxChanges /\ MaxBoots * MaxChanges \in Nat
    BY <1>2, <2>1, BudgetBound DEF Firmware!Records, Firmware!AppletStates
  <2>3. disk[a].text.changed <= budget
    BY <1>8 DEF BootInv, BootChanged
  <2> QED
    BY <1>8, <2>2, <2>3
<1> QED
  BY <1>5, <1>6, <1>7, <1>9 DEF BootInv

LEMMA BootStep ==
  ASSUME BootInv, Firmware!Next \/ UNCHANGED Firmware!vars
  PROVE  BootInv'
<1>1. ASSUME UNCHANGED Firmware!vars PROVE BootInv'
  <2>1. UNCHANGED <<disk, pc, loaded, rng, key, state, changes, credentials, told, seals,
                    seeds, repeated, boots>>
    BY <1>1 DEF Firmware!vars, Firmware!boot
  <2>2. Firmware!TypeOK'
    BY <2>1 DEF BootInv, Firmware!TypeOK
  <2>3. Firmware!NonceOnce' /\ BootStages' /\ BootLoaded' /\ BootTold'
    BY <2>1 DEF BootInv, Firmware!NonceOnce, BootStages, BootLoaded, BootTold
  <2>4. BootChanged' /\ BootKeys'
    BY <2>1 DEF BootInv, BootChanged, Budget, BootKeys, DrawnAtMost, Drawn
  <2> QED
    BY <2>2, <2>3, <2>4 DEF BootInv
<1> QED
  BY <1>1, BootPowerOn, BootOpens, BootNewEngine, BootLoad, BootChange, BootRegister,
     BootPowerLoss DEF Firmware!Next

LEMMA BootHolds ==
  ASSUME BootInv
  PROVE  Firmware!TypeOK /\ Firmware!NonceOnce /\ Firmware!LastOrNew
<1>1. ASSUME pc = "run", NEW a \in Firmware!Names
      PROVE  /\ state[a] # None /\ Firmware!decrypt(disk[a]) # None
             /\ changes = 0 => state[a] = told[a] \/ state[a].changed = 0
  <2>1. state[a] # None /\ disk[a] # None /\ disk[a].key = key
    BY <1>1, BootRuns
  <2>2. disk[a].text \in Firmware!AppletStates
    <3>1. disk[a] \in Firmware!Records
      BY <2>1, BootTypes DEF BootInv
    <3> QED
      BY <3>1 DEF Firmware!Records
  <2> QED
    BY <2>1, <2>2, BootConstants DEF BootInv, BootTold, Firmware!decrypt
<1> QED
  BY <1>1 DEF BootInv, Firmware!LastOrNew

----------------------------------------------------------------------------
(* The theorems *)

LEMMA FirmwareInductive ==
  Spec => []FirmwareInv
<1>1. Init => FirmwareInv
  BY HidInit, BootInit, TouchInit DEF Init, FirmwareInv
<1>2. FirmwareInv /\ [Next]_vars => FirmwareInv'
  BY PartSteps, HidStep, BootStep, TouchStep DEF FirmwareInv
<1> QED
  BY <1>1, <1>2, PTL DEF Spec

\* For any number of programs, channel ids, packets of a message and attempts to send, a
\* message handed to dispatch is made of consecutive packets of one program (and, while
\* none was lost in the one-packet buffer, of one request), and no two programs work on
\* one channel, however their requests interleave, are given up, and their replies are
\* dropped (CtaphidAssembler, ChannelManager::allocate_cid, send_hid_packets).
THEOREM ChannelsAreKept ==
  Spec => []ChannelsKept
<1>1. FirmwareInv => ChannelsKept
  BY DEF FirmwareInv, HidInv, ChannelsKept
<1> QED
  BY <1>1, FirmwareInductive, PTL

\* For any applets, any width of the entropy state and any number of starts and changes,
\* whatever order records are sealed, writes fail and the power goes: no nonce is used for
\* two records under one master key as long as every start is seeded differently, and once
\* main() is done every applet has the state its host was told last or a new one, with a
\* record that opens (CryptoEngine::new, encrypt_with_random_nonce, ensure_loaded).
THEOREM BootIsSound ==
  Spec => []BootSound
<1>1. FirmwareInv => BootSound
  BY BootHolds DEF FirmwareInv, BootSound
<1> QED
  BY <1>1, FirmwareInductive, PTL

\* For a window of any length, and however the user presses and releases between the
\* steps, a touch held through a whole round is seen, and is_present returns with both
\* lamps dark and the flash selected (read_bootsel_button, set_presence_led).
THEOREM TouchIsSeen ==
  Spec => []TouchSeen
<1>1. FirmwareInv => TouchSeen
  BY DEF FirmwareInv, TouchInv, TouchSeen, Presence!HeldTouchSeen
<1> QED
  BY <1>1, FirmwareInductive, PTL

=============================================================================
