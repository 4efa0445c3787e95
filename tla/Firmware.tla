------------------------------ MODULE Firmware ------------------------------
(***************************************************************************)
(* Start-up of the RP2350 firmware, the order of main(): the entropy pool, *)
(* the flash, the master key of CryptoEngine, the applets with their       *)
(* sealed records, then FIDO in RAM; commands that change an applet; and   *)
(* the power gone between any two steps.                                   *)
(*                                                                         *)
(* splitmix64 adds an odd constant and mixes the sum by a permutation, so  *)
(* a word drawn is told apart by the state it was drawn at.  A record is   *)
(* opened by the key it was sealed with and by no other.  An applet's      *)
(* state is its random identity (OATH's salt, Management's serial) and the *)
(* number of changes made to it.  A stored record is replaced as a whole:  *)
(* see FlashStore.                                                         *)
(***************************************************************************)
EXTENDS Naturals, Sequences

CONSTANTS Applets,      \* names, in the order main() makes them
          IdWords,      \* words of an applet's random identity, 0 if it has none
          RollsBack,    \* the applets that undo a change whose write failed
          Width,        \* of the entropy state; 64 in the code
          Gamma,        \* the constant of splitmix64
          MaxBoots, MaxChanges, \* bounds: starts, and changes in each of them
          None

States == 2 ^ Width
Names == {Applets[i] : i \in DOMAIN Applets}
VARIABLES
    disk,           \* the flash: the sealed record of each applet, or None
    pc, loaded,     \* the step of main(), and the applets made
    boots,          \* bound: the starts so far
    rng,            \* RNG_STATE, 0 until seeded
    key,            \* CryptoEngine::key, or None
    state,          \* of each applet in RAM, or None
    changes,        \* since the start
    credentials,    \* whether ctap_storage holds a credential
    \* ghosts: what each applet's host was last told, every seal so far, the seeds used,
    \* and whether two starts had the same one
    told, seals, seeds, repeated

boot == <<seeds, repeated, boots>>
vars == <<disk, pc, loaded, rng, key, state, changes, credentials, told, seals, boot>>

Words == 0 .. States - 1
AppletStates == [id : Seq(Words), changed : 0 .. MaxBoots * MaxChanges]
Records == [key : Seq(Words), nonce : Seq(Words), text : AppletStates]

\* Gamma is odd, so its multiples meet every state before one returns, and the words
\* drawn from a start to the next (six before the applets) are fewer than the states.
ConstantsOK ==
    /\ Width \in Nat \ {0} /\ States \in Nat /\ States > 0 /\ States % 2 = 0
    /\ Gamma \in 0 .. States - 1 /\ Gamma % 2 = 1
    /\ \A n \in 1 .. States - 1 : (n * Gamma) % States # 0
    /\ Applets \in Seq(Names) \ {<<>>}
    /\ \A i, j \in DOMAIN Applets : Applets[i] = Applets[j] => i = j
    /\ IdWords \in [Names -> Nat] /\ RollsBack \subseteq Names
    /\ \E most \in 0 .. States : /\ \A a \in Names : IdWords[a] <= most
                                 /\ 6 + Len(Applets) * (most + 3) + 2 * MaxChanges < States
    /\ MaxBoots \in Nat /\ MaxChanges \in Nat /\ None \notin AppletStates \cup Records

TypeOK ==
    /\ disk \in [Names -> Records \cup {None}]
    /\ pc \in {"off", "seeded", "flash", "load", "run", "halt"} /\ loaded \in 0 .. Len(Applets)
    /\ boots \in 0 .. MaxBoots
    /\ rng \in Words /\ key \in Seq(Words) \cup {None}
    /\ state \in [Names -> AppletStates \cup {None}]
    /\ changes \in 0 .. MaxChanges /\ credentials \in BOOLEAN
    /\ told \in [Names -> AppletStates \cup {None}] /\ seals \subseteq Records
    /\ seeds \subseteq Words /\ repeated \in BOOLEAN

Init ==
    /\ disk = [a \in Names |-> None] /\ pc = "off" /\ loaded = 0 /\ rng = 0
    /\ boots = 0 /\ key = None
    /\ state = [a \in Names |-> None] /\ changes = 0 /\ credentials = FALSE
    /\ told = [a \in Names |-> None] /\ seals = {} /\ seeds = {} /\ repeated = FALSE

----------------------------------------------------------------------------
(* Entropy *)

splitmix64(s, n) == (s + n * Gamma) % States
\* entropy_fill: refused while the state is 0; else n words, and the state moves on.
CanFill == rng # 0
Filled(s, n) == [i \in 1 .. n |-> splitmix64(s, i)]
After_mutant(s, n) == s
After(s, n) == splitmix64(s, n)

\* expect: panic_halt.
Halt ==
    /\ pc' = "halt"
    /\ UNCHANGED <<disk, loaded, rng, key, state, changes, credentials, told, seals>>

\* entropy_seed: BootRandom and the cycle counter, with the lowest bit set, so never 0;
\* ring_smoke then draws two words and its result is ignored.
entropy_seed(seed) == IF seed % 2 = 1 THEN seed ELSE seed + 1
PowerOn ==
    /\ pc = "off" /\ boots < MaxBoots /\ boots' = boots + 1
    /\ \E seed \in Words :
          /\ rng' = After(entropy_seed(seed), 2)
          /\ repeated' = (repeated \/ entropy_seed(seed) \in seeds)
          /\ seeds' = seeds \cup {entropy_seed(seed)}
    /\ pc' = "seeded"
    /\ UNCHANGED <<disk, loaded, key, state, changes, credentials, told, seals>>

\* QspiFlashDevice::open and FlashStorageBackend::new; an error is fatal.
OpenFlash ==
    /\ pc = "seeded"
    /\ \/ /\ pc' = "flash"
          /\ UNCHANGED <<disk, loaded, rng, key, state, changes, credentials, told, seals>>
       \/ Halt
    /\ UNCHANGED boot

\* CryptoEngine::new: a master key of four words.
NewEngine ==
    /\ pc = "flash"
    /\ \/ /\ CanFill
          /\ key' = Filled(rng, 4) /\ rng' = After(rng, 4) /\ pc' = "load"
          /\ UNCHANGED <<disk, loaded, state, changes, credentials, told, seals>>
       \/ ~CanFill /\ Halt
    /\ UNCHANGED boot

----------------------------------------------------------------------------
(* Applets *)

\* encrypt_with_random_nonce: a nonce of two words.
Sealed(s, text) == [key |-> key, nonce |-> Filled(s, 2), text |-> text]
decrypt(record) == IF record # None /\ record.key = key THEN record.text ELSE None

Made == loaded' = loaded + 1 /\ pc' = IF loaded + 1 = Len(Applets) THEN "run" ELSE "load"

\* new and ensure_loaded: a record that does not open is replaced by the factory state
\* at once, and a failure of that write is fatal.  The identity is drawn first, once
\* more (at most, in the model) when Management's serial is 0, then the nonce; a draw
\* with the entropy state at 0 panics (random_bytes).
Load(again) ==
    LET a      == Applets[loaded + 1]
        record == decrypt(disk[a])
        s      == After(rng, again)
        t      == After(s, IdWords[a])
        text   == [id |-> Filled(s, IdWords[a]), changed |-> 0]
    IN  /\ pc = "load" /\ (again = 1 => IdWords[a] = 1 /\ record = None)
        /\ \/ /\ record # None
              /\ state' = [state EXCEPT ![a] = record] /\ Made
              /\ UNCHANGED <<disk, rng, seals>>
           \/ /\ record = None /\ 0 \notin {rng, s, t}
              /\ state' = [state EXCEPT ![a] = text] /\ rng' = After(t, 2)
              /\ seals' = seals \cup {Sealed(t, text)}
              /\ \/ disk' = [disk EXCEPT ![a] = Sealed(t, text)] /\ Made
                 \/ pc' = "halt" /\ UNCHANGED <<disk, loaded>>
           \/ /\ record = None /\ 0 \in {rng, s, t} /\ pc' = "halt"
              /\ UNCHANGED <<disk, loaded, rng, state, seals>>
        /\ UNCHANGED <<key, changes, credentials, told, boot>>

\* A command changes an applet and persist_state seals it anew.
Change(a) ==
    LET text == [state[a] EXCEPT !.changed = @ + 1]
    IN  /\ pc = "run" /\ changes < MaxChanges /\ changes' = changes + 1
        /\ \/ /\ CanFill
              /\ rng' = After(rng, 2) /\ seals' = seals \cup {Sealed(rng, text)}
              /\ \/ /\ disk' = [disk EXCEPT ![a] = Sealed(rng, text)]
                    /\ state' = [state EXCEPT ![a] = text] /\ told' = [told EXCEPT ![a] = text]
                 \/ /\ state' = IF a \in RollsBack THEN state ELSE [state EXCEPT ![a] = text]
                    /\ UNCHANGED <<disk, told>>
              /\ UNCHANGED pc
           \/ ~CanFill /\ pc' = "halt" /\ UNCHANGED <<disk, rng, state, told, seals>>
        /\ UNCHANGED <<loaded, key, credentials, boot>>

\* FIDO: ctap_storage is StorageEngine::new, which has no backend.
Register ==
    /\ pc = "run" /\ ~credentials /\ credentials' = TRUE
    /\ UNCHANGED <<disk, pc, loaded, rng, key, state, changes, told, seals, boot>>

\* The power goes, in any step; what is left is the flash.
PowerLoss ==
    /\ pc # "off" /\ pc' = "off" /\ loaded' = 0 /\ rng' = 0 /\ key' = None
    /\ state' = [a \in Names |-> None] /\ changes' = 0 /\ credentials' = FALSE
    /\ UNCHANGED <<disk, told, seals, boot>>

Next ==
    \/ PowerOn \/ OpenFlash \/ NewEngine \/ (\E again \in {0, 1} : Load(again))
    \/ (\E a \in Names : Change(a)) \/ Register \/ PowerLoss

Spec == Init /\ [][Next]_vars

----------------------------------------------------------------------------
\* No nonce is used for two records under one master key, in whatever order records are
\* sealed, writes fail and the power goes, as long as every start is seeded differently
\* ("O nonce deve ser persistido junto do ciphertext e nunca reutilizado",
\* encrypt_with_random_nonce).
NonceOnce ==
    ~repeated => \A r1, r2 \in seals : r1.key = r2.key /\ r1.nonce = r2.nonce => r1 = r2

\* Once the firmware runs, every applet has its state and a record that opens; and with
\* no command since, that state is the one its host was told last or a new one, never
\* an older one (ensure_loaded).
LastOrNew ==
    pc = "run" => \A a \in Names :
        /\ state[a] # None /\ decrypt(disk[a]) # None
        /\ changes = 0 => state[a] = told[a] \/ state[a].changed = 0

\* What an applet acknowledged survives a power cycle ("serial do Management e estado
\* OATH vivem no mesmo kv e sobrevivem a power cycles", main).
SurvivesPowerCycle ==
    pc = "run" /\ changes = 0 => \A a \in Names : told[a] # None => state[a] = told[a]
=============================================================================
