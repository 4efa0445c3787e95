----------------------------- MODULE LargeBlobs -----------------------------
(***************************************************************************)
(* authenticatorLargeBlobs over StorageEngine: one array shared by every   *)
(* platform, read and written in fragments, in RAM and under               *)
(* "sys:large_blobs".                                                      *)
(*                                                                         *)
(* A platform uploads its array from offset 0, one fragment per command;   *)
(* a byte is the platform that wrote it, Zero where resize filled in.      *)
(***************************************************************************)
EXTENDS Naturals, Sequences, SequencesExt

CONSTANTS Platforms, Zero,
          MaxSize,          \* MAX_LARGE_BLOBS_SIZE
          MaxOffered,       \* capabilities.max_large_blob_data_size
          MaxFragment,      \* longest fragment of a command
          Absent, None

VARIABLES disk,             \* the record under "sys:large_blobs"
          large_blobs,      \* StorageEngine::large_blobs
          pc,
          upload,           \* ghost: whose upload runs undisturbed, and the bytes acknowledged
          erased            \* ghost: platforms that have not written since a Reset

vars == <<disk, large_blobs, pc, upload, erased>>

Arrays == BoundedSeq(Platforms \cup {Zero}, MaxSize)
Uploads == [by : Platforms, len : 0 .. MaxSize] \cup {None}
Lengths == 0 .. MaxSize + 1
ConstantsOK == /\ MaxSize \in Nat /\ MaxOffered \in Nat /\ MaxFragment \in Nat
               /\ Zero \notin Platforms /\ Absent \notin Arrays

TypeOK ==
    /\ disk \in Arrays \cup {Absent} /\ large_blobs \in Arrays
    /\ pc \in {"idle", "clear", "off"} /\ upload \in Uploads
    /\ erased \subseteq Platforms

Init == /\ disk = Absent /\ large_blobs = <<>> /\ pc = "idle"
        /\ upload = None /\ erased = {}

----------------------------------------------------------------------------
min(x, y) == IF x <= y THEN x ELSE y
max(x, y) == IF x >= y THEN x ELSE y

\* read_large_blobs: what there is of the range.
read_large_blobs(offset, count) ==
    SubSeq(large_blobs, offset + 1, min(offset + count, Len(large_blobs)))

\* The checks of handle_large_blobs against the size it offers.
Accepted(offset, len, length) ==
    /\ offset + len <= MaxOffered
    /\ length # None => length <= MaxOffered /\ offset + len <= length

\* Those of write_large_blobs, against the size it supports and the array it has.
InBounds(offset, len, length) ==
    /\ offset + len <= MaxSize
    /\ length # None => length <= MaxSize /\ offset + len <= length
    /\ offset <= Len(large_blobs)

\* resize grows the array, never shrinks it; then the fragment is copied in.
Spliced(offset, len, length, byte) ==
    LET end == offset + len
        target == max(IF length # None THEN max(length, end) ELSE end, Len(large_blobs))
    IN  [i \in 1 .. target |-> IF i \in offset + 1 .. end THEN byte
                               ELSE IF i <= Len(large_blobs) THEN large_blobs[i] ELSE Zero]

\* RAM, then the backend, whose error is returned.
write_large_blobs_mutant(offset, len, length, byte, ok) ==
    /\ large_blobs' = Spliced(offset, len, length, byte)
    /\ disk' = IF ok /\ disk = Absent THEN large_blobs' ELSE disk
write_large_blobs(offset, len, length, byte, ok) ==
    /\ large_blobs' = Spliced(offset, len, length, byte)
    /\ disk' = IF ok THEN large_blobs' ELSE disk

\* What the acknowledged bytes of the undisturbed upload are after this write.
Continued(offset, len, byte) ==
    CASE offset = 0 -> [by |-> byte, len |-> len]
      [] upload # None /\ upload.by = byte /\ upload.len = offset
           -> [by |-> byte, len |-> offset + len]
      [] OTHER -> None

\* Another platform's write, also a refused one, disturbs an upload; a refused write of
\* the same platform leaves what was acknowledged before it.
Disturbed(byte) == IF upload # None /\ upload.by = byte THEN upload ELSE None

handle_large_blobs(byte, offset, len, length) ==
    /\ pc = "idle" /\ Accepted(offset, len, length) /\ InBounds(offset, len, length)
    /\ \E ok \in BOOLEAN :
          /\ write_large_blobs(offset, len, length, byte, ok)
          /\ upload' = IF ok THEN Continued(offset, len, byte)
                       ELSE IF offset = 0 THEN None ELSE Disturbed(byte)
          /\ erased' = erased \ {byte}
    /\ UNCHANGED pc

----------------------------------------------------------------------------
(* Reset: clear deletes every key, clear_large_blobs empties RAM and deletes again *)

clear ==
    /\ pc = "idle" /\ pc' = "clear"
    /\ disk' = Absent \/ UNCHANGED disk
    /\ upload' = None /\ UNCHANGED <<large_blobs, erased>>

clear_large_blobs ==
    /\ pc = "clear" /\ pc' = "idle" /\ large_blobs' = <<>>
    /\ disk' = Absent \/ UNCHANGED disk
    /\ erased' = IF disk' = Absent THEN Platforms ELSE erased
    /\ UNCHANGED upload

PowerLoss ==
    /\ pc # "off" /\ pc' = "off" /\ large_blobs' = <<>>
    /\ UNCHANGED <<disk, upload, erased>>

load_from_backend ==
    /\ pc = "off" /\ pc' = "idle"
    /\ large_blobs' = IF disk = Absent THEN <<>> ELSE disk
    /\ UNCHANGED <<disk, upload, erased>>

Next ==
    \/ \E p \in Platforms, offset \in 0 .. MaxOffered + 1, len \in 0 .. MaxFragment,
          length \in Lengths \cup {None} : handle_large_blobs(p, offset, len, length)
    \/ clear \/ clear_large_blobs \/ PowerLoss \/ load_from_backend

Spec == Init /\ [][Next]_vars

----------------------------------------------------------------------------
\* The acknowledged fragments of an upload nobody disturbed are read back whole, from
\* RAM and from the record: over later fragments, failed writes and losses of power
\* (write_large_blobs changes RAM before the write that may fail).
UploadKept ==
    upload # None =>
        LET whole == [i \in 1 .. upload.len |-> upload.by]
        IN  /\ pc = "idle" => read_large_blobs(0, upload.len) = whole
            /\ upload.len > 0 => disk # Absent /\ IsPrefix(whole, disk)

\* A Reset whose deletion reached the record leaves no byte of before it, in RAM or in
\* the record, also when later fragments are written to the array (clear_large_blobs).
ErasedGone == \A p \in erased : /\ pc = "idle" => p \notin Range(large_blobs)
                                /\ disk # Absent => p \notin Range(disk)
=============================================================================
