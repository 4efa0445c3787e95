------------------------------ MODULE MCStorage ------------------------------
(***************************************************************************)
(* What is stored, and under what: the flash backend (the state of this    *)
(* module's own) and the chip below it, the file backend, the engine over  *)
(* each of them, large blobs, and the simulator whose two engines share    *)
(* one file.  The part is chosen at the start, lives in the variables it   *)
(* has in its module (pc is step here), and leaves the others alone.       *)
(***************************************************************************)
EXTENDS FlashStore, Integers, Sequences, TLC

CONSTANTS Absent, Blank, TornFile, None,
          SectorSize, PageSize, RegionLen, Sizes, Images, MaxLen,   \* QspiFlash
          FileKeys,                                                 \* FileStore
          FlashCreds, FlashLimit, FlashCounts,                      \* StorageEngine over flash
          FileCreds, FileLimit, FileCounts,                         \* and over a file
          Platforms, Zero, MaxSize, MaxOffered, MaxFragment,        \* LargeBlobs
          AppletStates, Factory, SimCreds, MaxCount                 \* Simulator

VARIABLES part, total, fw_end, rom, region, cells, op, before, main, journal, tmp, pending,
          step, registered, disk, credentials, kv_store, req, created, reported, deleted,
          reset, large_blobs, upload, erased, storage_path, raw, file, auth,
          applet_storage, card_router, running, enrolled, pinned, seen, acked, wiped

others == <<part, total, fw_end, rom, region, cells, op, before, main, journal, tmp,
            pending, step, registered, disk, credentials, kv_store, req, created, reported,
            deleted, reset, large_blobs, upload, erased, storage_path, raw, file, auth,
            applet_storage, card_router, running, enrolled, pinned, seen, acked, wiped>>
allvars == <<others, vars>>

QspiFlash == INSTANCE QspiFlash
FileStore == INSTANCE FileStore WITH Keys <- FileKeys, pc <- step
\* Over flash only writes fail, and the keys come in order.
FlashEngine == INSTANCE StorageEngine WITH Creds <- FlashCreds, MaxCredentials <- FlashLimit,
                  WriteFaults <- TRUE, DeleteFaults <- FALSE, ReadFaults <- FALSE,
                  SortedKeys <- TRUE, MaxSignCount <- FlashCounts, pc <- step
\* Every call fails, keys come in any order, and the applets use the same file.
FileEngine == INSTANCE StorageEngine WITH Creds <- FileCreds, MaxCredentials <- FileLimit,
                  WriteFaults <- TRUE, DeleteFaults <- TRUE, ReadFaults <- TRUE,
                  SortedKeys <- FALSE, MaxSignCount <- FileCounts, pc <- step
LargeBlobs == INSTANCE LargeBlobs WITH pc <- step
Simulator == INSTANCE Simulator WITH Values <- AppletStates, Creds <- SimCreds

ASSUME Constants == /\ QspiFlash!ConstantsOK /\ FileStore!ConstantsOK
                    /\ FlashEngine!ConstantsOK /\ FileEngine!ConstantsOK
                    /\ LargeBlobs!ConstantsOK /\ Simulator!ConstantsOK

MCInit ==
    /\ Init
    /\ \/ /\ part = "flash"
          /\ total = None /\ fw_end = None /\ rom = None /\ region = None /\ cells = None
          /\ op = None /\ before = None /\ main = None /\ journal = None /\ tmp = None
          /\ pending = None /\ step = None /\ registered = None /\ disk = None
          /\ credentials = None /\ kv_store = None /\ req = None /\ created = None
          /\ reported = None /\ deleted = None /\ reset = None /\ large_blobs = None
          /\ upload = None /\ erased = None /\ storage_path = None /\ raw = None
          /\ file = None /\ auth = None /\ applet_storage = None /\ card_router = None
          /\ running = None /\ enrolled = None /\ pinned = None /\ seen = None
          /\ acked = None /\ wiped = None
       \/ /\ part = "chip" /\ QspiFlash!Init
          /\ main = None /\ journal = None /\ tmp = None /\ pending = None /\ step = None
          /\ registered = None /\ disk = None /\ credentials = None /\ kv_store = None
          /\ req = None /\ created = None /\ reported = None /\ deleted = None
          /\ reset = None /\ large_blobs = None /\ upload = None /\ erased = None
          /\ storage_path = None /\ raw = None /\ file = None /\ auth = None
          /\ applet_storage = None /\ card_router = None /\ running = None
          /\ enrolled = None /\ pinned = None /\ seen = None /\ acked = None
          /\ wiped = None
       \/ /\ part = "file" /\ FileStore!Init
          /\ total = None /\ fw_end = None /\ rom = None /\ region = None /\ cells = None
          /\ op = None /\ before = None /\ disk = None /\ credentials = None
          /\ kv_store = None /\ req = None /\ created = None /\ reported = None
          /\ deleted = None /\ reset = None /\ large_blobs = None /\ upload = None
          /\ erased = None /\ storage_path = None /\ raw = None /\ file = None
          /\ auth = None /\ applet_storage = None /\ card_router = None /\ running = None
          /\ enrolled = None /\ pinned = None /\ seen = None /\ acked = None
          /\ wiped = None
       \/ /\ part = "flash_engine" /\ FlashEngine!Init
          /\ total = None /\ fw_end = None /\ rom = None /\ region = None /\ cells = None
          /\ op = None /\ before = None /\ main = None /\ journal = None /\ tmp = None
          /\ pending = None /\ registered = None /\ large_blobs = None /\ upload = None
          /\ erased = None /\ storage_path = None /\ raw = None /\ file = None
          /\ auth = None /\ applet_storage = None /\ card_router = None /\ running = None
          /\ enrolled = None /\ pinned = None /\ seen = None /\ acked = None
          /\ wiped = None
       \/ /\ part = "file_engine" /\ FileEngine!Init
          /\ total = None /\ fw_end = None /\ rom = None /\ region = None /\ cells = None
          /\ op = None /\ before = None /\ main = None /\ journal = None /\ tmp = None
          /\ pending = None /\ registered = None /\ large_blobs = None /\ upload = None
          /\ erased = None /\ storage_path = None /\ raw = None /\ file = None
          /\ auth = None /\ applet_storage = None /\ card_router = None /\ running = None
          /\ enrolled = None /\ pinned = None /\ seen = None /\ acked = None
          /\ wiped = None
       \/ /\ part = "blobs" /\ LargeBlobs!Init
          /\ total = None /\ fw_end = None /\ rom = None /\ region = None /\ cells = None
          /\ op = None /\ before = None /\ main = None /\ journal = None /\ tmp = None
          /\ pending = None /\ registered = None /\ credentials = None /\ kv_store = None
          /\ req = None /\ created = None /\ reported = None /\ deleted = None
          /\ reset = None /\ storage_path = None /\ raw = None /\ file = None
          /\ auth = None /\ applet_storage = None /\ card_router = None /\ running = None
          /\ enrolled = None /\ pinned = None /\ seen = None /\ acked = None
          /\ wiped = None
       \/ /\ part = "simulator" /\ Simulator!Init
          /\ total = None /\ fw_end = None /\ rom = None /\ region = None /\ cells = None
          /\ op = None /\ before = None /\ main = None /\ journal = None /\ tmp = None
          /\ pending = None /\ step = None /\ registered = None /\ disk = None
          /\ credentials = None /\ kv_store = None /\ req = None /\ created = None
          /\ reported = None /\ deleted = None /\ reset = None /\ large_blobs = None
          /\ upload = None /\ erased = None

MCNext ==
    \/ part = "flash" /\ Next /\ UNCHANGED others
    \/ /\ part = "chip" /\ QspiFlash!Next
       /\ UNCHANGED <<vars, part, main, journal, tmp, pending, step, registered, disk,
                       credentials, kv_store, req, created, reported, deleted, reset,
                       large_blobs, upload, erased, storage_path, raw, file, auth,
                       applet_storage, card_router, running, enrolled, pinned, seen, acked,
                       wiped>>
    \/ /\ part = "file" /\ FileStore!Next
       /\ UNCHANGED <<vars, part, total, fw_end, rom, region, cells, op, before, disk,
                       credentials, kv_store, req, created, reported, deleted, reset,
                       large_blobs, upload, erased, storage_path, raw, file, auth,
                       applet_storage, card_router, running, enrolled, pinned, seen, acked,
                       wiped>>
    \/ /\ part = "flash_engine" /\ FlashEngine!Next
       /\ UNCHANGED <<vars, part, total, fw_end, rom, region, cells, op, before, main,
                       journal, tmp, pending, registered, large_blobs, upload, erased,
                       storage_path, raw, file, auth, applet_storage, card_router, running,
                       enrolled, pinned, seen, acked, wiped>>
    \/ /\ part = "file_engine" /\ FileEngine!Next
       /\ UNCHANGED <<vars, part, total, fw_end, rom, region, cells, op, before, main,
                       journal, tmp, pending, registered, large_blobs, upload, erased,
                       storage_path, raw, file, auth, applet_storage, card_router, running,
                       enrolled, pinned, seen, acked, wiped>>
    \/ /\ part = "blobs" /\ LargeBlobs!Next
       /\ UNCHANGED <<vars, part, total, fw_end, rom, region, cells, op, before, main,
                       journal, tmp, pending, registered, credentials, kv_store, req,
                       created, reported, deleted, reset, storage_path, raw, file, auth,
                       applet_storage, card_router, running, enrolled, pinned, seen, acked,
                       wiped>>
    \/ /\ part = "simulator" /\ Simulator!Next
       /\ UNCHANGED <<vars, part, total, fw_end, rom, region, cells, op, before, main,
                       journal, tmp, pending, step, registered, disk, credentials,
                       kv_store, req, created, reported, deleted, reset, large_blobs,
                       upload, erased>>

MCSpec == MCInit /\ [][MCNext]_allvars
FileSpec == (MCInit /\ part = "file") /\ [][MCNext]_allvars

----------------------------------------------------------------------------
(* The properties of each part's module, of the part that runs. *)

\* Chip: a call changes the cells it is about, as it says when acknowledged, and no other
\* one wherever the power goes, least of all the firmware's (program, open).
WritesExact ==
    part = "chip" => QspiFlash!TypeOK /\ QspiFlash!WritesExact /\ QspiFlash!FirmwareKept

\* File: whatever call is cut short, the old map or the new one can be read until a
\* journal itself is torn; and the journal covers the main file while it is replaced
\* (flush, load_snapshot).
FileStoreSafe ==
    /\ [](part = "file" => FileStore!TypeOK /\ FileStore!JournalCoversReplacement)
    /\ [][part = "file" => FileStore!DamageOnlyThroughJournal]_allvars

\* File: a crash of the process does not lose what was registered, as the comment of
\* FileStorageBackend says ("uma queda do processo nao perca credenciais ja registradas").
RegisteredSurvives == part = "file" => FileStore!RegisteredSurvives

\* Engine: what was acknowledged lasts.  Over flash no erased credential comes back
\* after a Reset (clear), the limit holds on the medium (set_max_credential_count) and
\* counters grow (next_sign_count); over a failing file nothing is answered from RAM
\* alone (store, retrieve) and acknowledged deletions are final (delete_credential).
CredentialsDurable ==
    /\ part = "flash_engine" => /\ FlashEngine!TypeOK /\ FlashEngine!ResetIsFinal
                                /\ FlashEngine!LimitHolds /\ FlashEngine!SignCountGrows
    /\ part = "file_engine" => /\ FileEngine!TypeOK /\ FileEngine!NothingOnlyInRam
                               /\ FileEngine!DeletionIsFinal

\* Large blobs: the acknowledged fragments of an undisturbed upload are read back
\* (write_large_blobs), and nothing of before a Reset comes back (clear_large_blobs).
BlobsKept ==
    part = "blobs" => LargeBlobs!TypeOK /\ LargeBlobs!UploadKept /\ LargeBlobs!ErasedGone

\* Simulator, two engines on one file: credentials and PIN are as the host was told
\* (Simulator::reset), signature counts grow (next_sign_count), the applet is as the
\* host was told or new after a CTAP2 Reset (retrieve), and no packed statement is
\* promised without a key (set_attestation_format).
SharedFileSafe ==
    part = "simulator" => /\ Simulator!TypeOK /\ Simulator!HostViewKept
                          /\ Simulator!AssertionsCounted /\ Simulator!AppletViewKept
                          /\ Simulator!PackedHasKey
=============================================================================
