------------------------------ MODULE FileStore ------------------------------
(***************************************************************************)
(* FileStorageBackend: the host's map, kept as one JSON document.  flush() *)
(* writes the whole map to a journal, writes it again to a temporary file, *)
(* removes the main file, renames the temporary one over it and removes    *)
(* the journal.  load_snapshot() prefers the journal whenever one exists.  *)
(*                                                                         *)
(* Every file system call of flush() is a step of its own; the process may *)
(* die, or the call may return an error, at every step.                    *)
(***************************************************************************)
EXTENDS Naturals, FiniteSets

CONSTANTS Keys, Values, NoValue,
          Absent,        \* the file does not exist
          Blank,         \* the file exists and is empty
          TornFile,      \* the file holds a prefix of a document
          Nothing

Snapshots == [Keys -> Values \cup {NoValue}]
Empty == [k \in Keys |-> NoValue]
Files == Snapshots \cup {Absent, Blank, TornFile}

\* What TLC evaluates, and the theorems assume, of the constants.
ConstantsOK ==
    /\ Absent # Blank /\ Absent # TornFile /\ Blank # TornFile
    /\ {Absent, Blank, TornFile, Nothing} \cap Snapshots = {}

JournalWrite == {"create_journal", "write_journal"}
Replacement == {"create_tmp", "write_tmp", "remove_main", "rename", "remove_journal"}
Steps == JournalWrite \cup Replacement

VARIABLES main, journal, tmp,   \* the three files
          pending,              \* the cache flush() is writing, or Nothing
          pc,                   \* the file system call flush() makes next
          registered            \* ghost: keys whose write was acknowledged

vars == <<main, journal, tmp, pending, pc, registered>>
files == <<main, journal, tmp>>

TypeOK ==
    /\ main \in Files /\ journal \in Files /\ tmp \in Files
    /\ pending \in Snapshots \cup {Nothing}
    /\ pc \in Steps \cup {"idle", "off"}
    /\ pc \in Steps <=> pending # Nothing
    /\ registered \subseteq Keys

----------------------------------------------------------------------------
\* load_snapshot: the journal if it exists, else the main file; an absent or
\* blank document is the empty map, a torn one is a parse error (Nothing).
parse(f) == CASE f \in {Absent, Blank} -> Empty [] f = TornFile -> Nothing [] OTHER -> f
load_snapshot_mutant(m, j) == parse(IF m # Absent THEN m ELSE j)
load_snapshot(m, j) == parse(IF j # Absent THEN j ELSE m)

Stored == load_snapshot(main, journal)

Init ==
    /\ main = Absent /\ journal = Absent /\ tmp = Absent
    /\ pending = Nothing /\ pc = "idle" /\ registered = {}

----------------------------------------------------------------------------
\* write and delete re-read the disk, change one key and flush.
write(k, v) ==
    /\ pc = "idle" /\ Stored # Nothing
    /\ pending' = [Stored EXCEPT ![k] = v]
    /\ pc' = "create_journal"
    /\ UNCHANGED <<files, registered>>

delete(k) ==
    /\ pc = "idle" /\ Stored # Nothing
    /\ pending' = [Stored EXCEPT ![k] = NoValue]
    /\ pc' = "create_journal"
    /\ registered' = registered \ {k}
    /\ UNCHANGED files

CreateJournal ==
    /\ pc = "create_journal"
    /\ journal' = Blank /\ pc' = "write_journal"
    /\ UNCHANGED <<main, tmp, pending, registered>>

WriteJournal ==
    /\ pc = "write_journal"
    /\ journal' = pending /\ pc' = "create_tmp"
    /\ UNCHANGED <<main, tmp, pending, registered>>

CreateTmp ==
    /\ pc = "create_tmp"
    /\ tmp' = Blank /\ pc' = "write_tmp"
    /\ UNCHANGED <<main, journal, pending, registered>>

WriteTmp ==
    /\ pc = "write_tmp"
    /\ tmp' = pending
    /\ pc' = "remove_main"
    /\ UNCHANGED <<main, journal, pending, registered>>

\* replace_file, first half (a no-op when there is no main file yet).
RemoveMain ==
    /\ pc = "remove_main"
    /\ main' = Absent /\ pc' = "rename"
    /\ UNCHANGED <<journal, tmp, pending, registered>>

\* replace_file, second half.
Rename ==
    /\ pc = "rename"
    /\ main' = tmp /\ tmp' = Absent /\ pc' = "remove_journal"
    /\ UNCHANGED <<journal, pending, registered>>

RemoveJournal ==
    /\ pc = "remove_journal"
    /\ journal' = Absent
    /\ registered' = {k \in Keys : pending[k] # NoValue}
    /\ pending' = Nothing /\ pc' = "idle"
    /\ UNCHANGED <<main, tmp>>

\* A call that stops half way: only a write in progress leaves a trace.
CutShort ==
    /\ journal' \in IF pc = "write_journal" THEN {Blank, TornFile} ELSE {journal}
    /\ tmp' \in IF pc = "write_tmp" THEN {Blank, TornFile} ELSE {tmp}
    /\ pending' = Nothing
    /\ UNCHANGED <<main, registered>>

\* `?` in flush(): the error goes to the caller, the files stay as they are.
IoError == pc \in Steps /\ CutShort /\ pc' = "idle"

\* The process dies.
Crash == pc # "off" /\ CutShort /\ pc' = "off"

\* FileStorageBackend::new refuses to open a document it cannot parse.
Reopen ==
    /\ pc = "off" /\ Stored # Nothing
    /\ pc' = "idle"
    /\ UNCHANGED <<files, pending, registered>>

Next ==
    \/ \E k \in Keys, v \in Values : write(k, v)
    \/ \E k \in Keys : delete(k)
    \/ CreateJournal \/ WriteJournal \/ CreateTmp \/ WriteTmp
    \/ RemoveMain \/ Rename \/ RemoveJournal
    \/ IoError \/ Crash \/ Reopen

Spec == Init /\ [][Next]_vars

----------------------------------------------------------------------------
\* From the moment the journal is durable until it is removed, a restart finds
\* the new map, whatever state the main file is in ("The journal is durable
\* before the main file is replaced").
JournalCoversReplacement == pc \in Replacement => Stored = pending

\* Whatever fails and whenever, the map on disk changes only to the map being
\* written, unless the step left the journal itself empty or torn: the start of
\* write_durable on the journal is the only window in which data is at risk.
DamageOnlyThroughJournal ==
    Stored' \in {Stored, pending} \/ journal' \in {Blank, TornFile}

\* A crash of the process does not lose what was registered: the doc comment of
\* FileStorageBackend ("uma queda do processo nao perca credenciais ja
\* registradas").
RegisteredSurvives ==
    pc = "off" => \A k \in registered : Stored # Nothing /\ Stored[k] # NoValue
=============================================================================
