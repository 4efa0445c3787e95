---------------------------- MODULE AtomicStore ----------------------------
(***************************************************************************)
(* What a StorageBackend with crash safety promises, and nothing else: a   *)
(* map that survives restarts and changes one operation at a time.  An     *)
(* operation (StorageBackend::write or ::delete) is requested, and then    *)
(* either takes effect as a whole, in the durable map and in the map that  *)
(* reads answer from together, or is refused and changes neither.  A power *)
(* loss in the middle of an operation may fall on either side of it.       *)
(***************************************************************************)
CONSTANTS Snapshots,    \* the maps a store can hold
          Empty,        \* the map of a store nothing was written to
          Nothing       \* "no map": no operation pending, or no power

VARIABLES disk,     \* the map a restart would load
          mem,      \* the map reads are answered from, Nothing while off
          pending   \* the map the running operation would install

aVars == <<disk, mem, pending>>

Init == disk = Empty /\ mem = Empty /\ pending = Nothing

\* The caller asks for an operation that turns the map into m.
Request(m) ==
    /\ mem # Nothing /\ pending = Nothing
    /\ pending' = m
    /\ UNCHANGED <<disk, mem>>

\* The operation takes effect and is acknowledged.
Commit ==
    /\ pending # Nothing
    /\ disk' = pending /\ mem' = pending
    /\ pending' = Nothing

\* The operation fails: it has no effect, now or after a restart.
Refuse ==
    /\ pending # Nothing
    /\ pending' = Nothing
    /\ UNCHANGED <<disk, mem>>

\* Power is lost; an unacknowledged operation may have reached the medium.
PowerLoss ==
    /\ mem # Nothing
    /\ disk' \in {disk} \cup ({pending} \ {Nothing})
    /\ mem' = Nothing /\ pending' = Nothing

Restart ==
    /\ mem = Nothing
    /\ mem' = disk
    /\ UNCHANGED <<disk, pending>>

Next == (\E m \in Snapshots : Request(m)) \/ Commit \/ Refuse \/ PowerLoss \/ Restart

Spec == Init /\ [][Next]_aVars
=============================================================================
