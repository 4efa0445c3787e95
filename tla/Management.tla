----------------------------- MODULE Management -----------------------------
(***************************************************************************)
(* ManagementApplet: the serial number and the configuration of the key,   *)
(* in RAM and as one encrypted record under "sys:ykmgmt".                  *)
(*                                                                         *)
(* A WRITE CONFIG is the set of fields it carries: a TLV that is absent, or*)
(* has a wrong length (Malformed), or a value.  Capabilities are sets,     *)
(* the timeouts, the flags and the NFC mask are one field (timing).        *)
(***************************************************************************)
EXTENDS Naturals, Sequences

CONSTANTS Caps, Supported,  \* CAPABILITY bits; SUPPORTED_CAPABILITIES
          Modes,            \* MODE_CAPS: the bits of each mode code, a sequence
          Locks, Zero,      \* lock codes, and the all-zero one
          MaxSerial,        \* u32::MAX; 0 is "no serial"
          Timings,
          Absent, Malformed, None

VARIABLES disk,         \* the record under "sys:ykmgmt"
          state,        \* ManagementApplet::state
          pc,           \* "persist": a write is due; "halted": after a panic
          factory,      \* the write that is due is the one of ensure_loaded
          shown,        \* the serial the last READ CONFIG told
          lost          \* ghost: a good record could not be read at a start, and was replaced

vars == <<disk, state, pc, factory, shown, lost>>

ManagementState == [serial : 0 .. MaxSerial, usb_enabled : SUBSET Caps,
                    timing : Timings, lock_code : Locks \cup {None}]
Records == [format : 1 .. 2, data : ManagementState]

\* What TLC evaluates, and the theorems assume, of the constants.
ConstantsOK ==
    /\ Supported \subseteq Caps /\ Modes \in Seq(SUBSET Caps)
    /\ MaxSerial \in Nat \ {0} /\ Zero \notin Locks /\ Timings # {}
    /\ {Absent, Malformed, None} \cap (Locks \cup Timings) = {}
    /\ None \notin ManagementState /\ None \notin Records

DefaultTiming == CHOOSE t \in Timings : TRUE
Factory(serial) == [serial |-> serial, usb_enabled |-> Supported,
                    timing |-> DefaultTiming, lock_code |-> None]

TypeOK ==
    /\ disk \in Records \cup {None} /\ state \in ManagementState \cup {None}
    /\ (state = None) <=> (pc = "off")
    /\ pc \in {"off", "idle", "persist", "halted"} /\ factory \in BOOLEAN
    /\ shown \in 0 .. MaxSerial \cup {None} /\ lost \in BOOLEAN

\* A new key, or one with the record of an older firmware, which has the serial only
\* and has told it to a host.
Init ==
    /\ \/ disk = None /\ shown = None
       \/ /\ shown \in 1 .. MaxSerial
          /\ disk = [format |-> 1, data |-> Factory(shown)]
    /\ state = None /\ pc = "off" /\ factory = FALSE /\ lost = FALSE

----------------------------------------------------------------------------
\* parse_state: format 1 is completed with the factory configuration; serial 0 is refused.
parse_state(r) ==
    IF r.data.serial = 0 THEN None
    ELSE IF r.format = 1 THEN Factory(r.data.serial) ELSE r.data

serialize_state(s) == [format |-> 2, data |-> s]

\* factory_state draws a serial until it is not 0.
factory_serials == 1 .. MaxSerial

\* ManagementApplet::new.  A record of format 1 is not rewritten until a command writes.
ensure_loaded_mutant ==
    /\ pc = "off"
    /\ \/ /\ disk # None /\ disk.format = 2
          /\ state' = parse_state(disk) /\ pc' = "idle" /\ UNCHANGED <<factory, lost>>
       \/ /\ \E serial \in factory_serials : state' = Factory(serial)
          /\ pc' = "persist" /\ factory' = TRUE
          /\ lost' = (lost \/ (disk # None /\ disk.format = 2))
    /\ UNCHANGED <<disk, shown>>
ensure_loaded ==
    /\ pc = "off"
    /\ \/ /\ disk # None /\ parse_state(disk) # None
          /\ state' = parse_state(disk) /\ pc' = "idle" /\ UNCHANGED <<factory, lost>>
       \/ /\ \E serial \in factory_serials : state' = Factory(serial)
          /\ pc' = "persist" /\ factory' = TRUE
          /\ lost' = (lost \/ (disk # None /\ parse_state(disk) # None))
    /\ UNCHANGED <<disk, shown>>

----------------------------------------------------------------------------
(* WRITE CONFIG, SET MODE, READ CONFIG *)

Fields == [unlock : Locks \cup {Absent, Malformed},
           usb : (SUBSET Caps) \cup {Absent, Malformed},
           timing : Timings \cup {Absent, Malformed},
           lock : Locks \cup {Zero, Absent, Malformed}]

\* The code that unlocks is compared only when the request carries one.
unlocks(fields) ==
    /\ fields.unlock # Malformed
    /\ fields.unlock \notin {Absent} /\ state.lock_code # None => fields.unlock = state.lock_code

\* Every field is checked before any is applied.
well_formed(fields) ==
    /\ fields.usb # Malformed
    /\ fields.usb # Absent => fields.usb \subseteq Supported
    /\ fields.timing # Malformed /\ fields.lock # Malformed

Applied(fields) ==
    [state EXCEPT !.usb_enabled = IF fields.usb = Absent THEN @ ELSE fields.usb,
                  !.timing = IF fields.timing = Absent THEN @ ELSE fields.timing,
                  !.lock_code = CASE fields.lock = Absent -> @
                                  [] fields.lock = Zero -> None
                                  [] OTHER -> fields.lock]

Persist == pc' = "persist" /\ factory' = FALSE

\* A request with a wrong code (6982) or a bad field (6A80) leaves everything alone.
cmd_write_config(fields) ==
    /\ pc = "idle"
    /\ unlocks(fields) /\ well_formed(fields)
    /\ state' = Applied(fields) /\ Persist
    /\ UNCHANGED <<disk, shown, lost>>

\* SET MODE looks the low three bits of its code up in MODE_CAPS, which has one entry
\* less than they can name: the index of the last is out of bounds and panics.  It asks
\* for no lock code.
ModeCaps(code) == Modes[code + 1] \cap Supported

cmd_set_mode(code, timing) ==
    /\ pc = "idle"
    /\ IF code + 1 \in DOMAIN Modes
       THEN /\ state' = [state EXCEPT !.usb_enabled = ModeCaps(code), !.timing = timing]
            /\ Persist
       ELSE pc' = "halted" /\ UNCHANGED <<state, factory>>
    /\ UNCHANGED <<disk, shown, lost>>

cmd_read_config ==
    /\ pc = "idle"
    /\ shown' = state.serial
    /\ UNCHANGED <<disk, state, pc, factory, lost>>

\* Nothing is taken back in RAM when the write fails; at start-up the firmware stops.
Persisted ==
    /\ pc = "persist" /\ pc' = "idle"
    /\ disk' = serialize_state(state)
    /\ UNCHANGED <<state, factory, shown, lost>>

PersistFailed ==
    /\ pc = "persist" /\ ~factory /\ pc' = "idle"
    /\ UNCHANGED <<disk, state, factory, shown, lost>>

PowerLoss ==
    /\ pc # "off" /\ pc' = "off" /\ state' = None
    /\ UNCHANGED <<disk, factory, shown, lost>>

Next ==
    \/ ensure_loaded
    \/ \E fields \in Fields : cmd_write_config(fields)
    \/ \E code \in 0 .. Len(Modes), timing \in Timings : cmd_set_mode(code, timing)
    \/ cmd_read_config
    \/ Persisted \/ PersistFailed \/ PowerLoss

Spec == Init /\ [][Next]_vars

----------------------------------------------------------------------------
\* Over WRITE CONFIG, SET MODE, failed writes and records of older firmware, the key
\* never reports or stores an enabled capability that it does not support.
EnabledAreSupported ==
    /\ state # None => state.usb_enabled \subseteq Supported
    /\ disk # None => disk.data.usb_enabled \subseteq Supported

\* The serial a host was told changes only when the record could not be read at a start:
\* not by the migration of an older record, nor by the loss of power at any write.
SerialChange == shown # None /\ shown' # shown => lost
SerialStable == [][SerialChange]_vars

\* The applet never writes a record that it will not read back (serial 0).
RecordReadable == disk # None => parse_state(disk) # None

\* SET MODE never stops the firmware ("3 bits baixos" of the code select the mode).
NeverPanics == pc # "halted"
=============================================================================
