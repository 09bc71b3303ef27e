------------------------------ MODULE StateFile ------------------------------
(***************************************************************************)
(* The state file of the coordinator: the frames that change the engine,   *)
(* the saves of the connection threads, the restart, and the process and   *)
(* the file system failing in between (cluster.cpp, persistence.cpp).      *)
(*                                                                         *)
(* The engine is the number of its current durable state.  What a frame    *)
(* becomes when it is received, and a file when it is loaded, are the      *)
(* constants Arrives and Loads: the codec modules compute them.            *)
(***************************************************************************)
EXTENDS Integers, FiniteSets

CONSTANTS
    Connection,         \* connection threads
    Main,               \* the thread that runs the coordinator
    Message,            \* messages clients send
    Frame,              \* frames: a message and what happened to it on its way
    Arrives,            \* what each frame is decoded to: a message, Nothing or Garbled
    Mutating,           \* messages whose handler saves what the engine accepted
    Announcing,         \* Hello: changes the engine and is not saved
    Saving,             \* SaveState
    OverlongMessage,    \* messages with a field above the readers' limits
    LastVersion,        \* bound: durable states of the engine
    Loads,              \* what each file is decoded to: a version, Nothing or Garbled
    OverlongVersion,    \* durable states with a field above the readers' limits
    PersistOnMutation,  \* CoordinatorConfig::persist_on_mutation
    MaxFaults,          \* bound: failed system calls
    MaxCrashes,         \* bound: process deaths
    Nothing,            \* no file, no thread, a refusal
    Garbled             \* something nobody wrote

Thread == Connection \cup {Main}
Version == 1 .. LastVersion
Image == [version: Version, whole: BOOLEAN]     \* the bytes of a file

ASSUME StorageAssumption ==
    /\ Main \notin Connection
    /\ LastVersion \in Nat \ {0}
    /\ Frame \subseteq Message \X STRING
    /\ Arrives \in [Frame -> Message \cup {Nothing, Garbled}]
    /\ Loads \in [Image -> Version \cup {Nothing, Garbled}]
    /\ {Nothing, Garbled} \cap Message = {} /\ {Nothing, Garbled} \cap Version = {}
    /\ Nothing \notin Thread \cup Image
    /\ Mutating \cup Announcing \cup Saving \cup OverlongMessage \subseteq Message
    /\ OverlongVersion \subseteq Version
    /\ PersistOnMutation \in BOOLEAN
    /\ MaxFaults \in Nat /\ MaxCrashes \in Nat

VARIABLES
    phase,      \* of the process: down, running, stopping, saving, stopped, refused
    version,    \* the engine's durable state
    thread,     \* where each thread is
    snapshot,   \* DurableState state, in each thread's save_state
    owner,      \* the thread that holds persist_mutex
    part,       \* the file at state_path ".part"
    file,       \* the file at state_path
    status,     \* of the last save that ended: none, ok, failed
    restored,   \* the file a start found, and what it was taken for
    saved,      \* history: a save has succeeded
    fallback,   \* history: a rename over the file has failed since the last save that succeeded
    faults,     \* history: system calls that failed
    crashes,    \* history: process deaths
    codec       \* Arrives and Loads; a variable, so that TLC computes them only once

process == <<phase, version>>
saves == <<thread, snapshot, owner, status>>
disk == <<part, file, saved, fallback>>
counts == <<faults, crashes>>
vars == <<process, saves, disk, restored, counts, codec>>

Init ==
    /\ phase = "down" /\ version = 1
    /\ thread = [t \in Thread |-> "idle"]
    /\ snapshot = [t \in Thread |-> Nothing]
    /\ owner = Nothing /\ status = "none"
    /\ part = Nothing /\ file = Nothing
    /\ restored = Nothing
    /\ saved = FALSE /\ fallback = FALSE
    /\ faults = 0 /\ crashes = 0
    /\ codec = [arrives |-> Arrives, loads |-> Loads]

Up == phase \in {"running", "stopping", "saving"}
At(t, place) == Up /\ thread[t] = place
Goes(t, place) == thread' = [thread EXCEPT ![t] = place]

(* A system call fails; the number of failures is bounded. *)
Fails == faults < MaxFaults /\ faults' = faults + 1 /\ UNCHANGED crashes

-----------------------------------------------------------------------------
(***************************************************************************)
(* CoordinatorServer::start.  Without a file the engine is new; a file     *)
(* that cannot be decoded keeps the coordinator from starting.             *)
(***************************************************************************)
Start ==
    /\ phase \in {"down", "stopped"}
    /\ \/ file = Nothing
          /\ phase' = "running" /\ version' = 1 /\ restored' = Nothing
       \/ file # Nothing /\ codec.loads[file] \notin Version
          /\ phase' = "refused"
          /\ restored' = [file |-> file, as |-> codec.loads[file]]
          /\ UNCHANGED version
       \/ file # Nothing /\ codec.loads[file] \in Version
          /\ phase' = "running"
          /\ version' = codec.loads[file]
          /\ restored' = [file |-> file, as |-> codec.loads[file]]
    /\ UNCHANGED <<saves, disk, counts>>

(* An engine operation leaves the durable state as it is, or makes a new one. *)
EngineStays == UNCHANGED version
EngineChanges == version < LastVersion /\ version' = version + 1

(***************************************************************************)
(* A connection thread receives a frame and handles it.  A frame or a      *)
(* payload that cannot be decoded changes nothing.  An operation that is   *)
(* refused is not saved, although a publication or a reassignment may have *)
(* changed the engine before (an adoption, the end of the old placement).  *)
(***************************************************************************)
Receive(c) ==
    /\ phase \in {"running", "stopping"} /\ thread[c] = "idle"
    /\ \E frame \in Frame :
        LET message == codec.arrives[frame]
        IN  \/ message \in Mutating /\ EngineChanges
               /\ Goes(c, IF PersistOnMutation THEN "export" ELSE "idle")
            \/ message \in Mutating \cup Announcing /\ EngineChanges /\ UNCHANGED thread
            \/ message \in Saving /\ EngineStays /\ Goes(c, "export")
            \/ message \notin Saving /\ EngineStays /\ UNCHANGED thread
    /\ UNCHANGED <<phase, snapshot, owner, status, disk, restored, counts>>

(* The connection of a worker ends: mark_worker_lost, and a save whatever came of it. *)
ConnectionEnds(c) ==
    /\ phase \in {"running", "stopping"} /\ thread[c] = "idle"
    /\ EngineStays \/ EngineChanges
    /\ Goes(c, IF PersistOnMutation THEN "export" ELSE "idle")
    /\ UNCHANGED <<phase, snapshot, owner, status, disk, restored, counts>>

-----------------------------------------------------------------------------
(* save_state and save_durable_state, by thread t. *)

(* The state is exported before the mutex is taken. *)
Export(t) ==
    /\ At(t, "export")
    /\ snapshot' = [snapshot EXCEPT ![t] = version]
    /\ Goes(t, "lock")
    /\ UNCHANGED <<process, owner, status, disk, restored, counts>>

(* Slip: the save does not take the mutex. *)
LockShared(t) ==
    /\ At(t, "lock")
    /\ owner' = t
    /\ Goes(t, "open")
    /\ UNCHANGED <<process, snapshot, status, disk, restored, counts>>

Lock(t) ==
    /\ At(t, "lock") /\ owner = Nothing
    /\ owner' = t
    /\ Goes(t, "open")
    /\ UNCHANGED <<process, snapshot, status, disk, restored, counts>>

(* Slip: a failed save keeps the mutex. *)
ReturnsLocked(t, result) ==
    /\ owner' = IF result = "ok" THEN Nothing ELSE owner
    /\ status' = result
    /\ Goes(t, IF t = Main THEN "done" ELSE "idle")
    /\ snapshot' = [snapshot EXCEPT ![t] = Nothing]

Returns(t, result) ==
    /\ owner' = Nothing
    /\ status' = result
    /\ Goes(t, IF t = Main THEN "done" ELSE "idle")
    /\ snapshot' = [snapshot EXCEPT ![t] = Nothing]

Proceeds(t, place) == Goes(t, place) /\ UNCHANGED <<snapshot, owner, status>>

Open(t) ==
    /\ At(t, "open")
    /\ \/ part' = [version |-> snapshot[t], whole |-> FALSE] /\ Proceeds(t, "write")
          /\ UNCHANGED counts
       \/ Fails /\ Returns(t, "failed") /\ UNCHANGED part
    /\ UNCHANGED <<process, file, saved, fallback, restored>>

WriteOut(t) ==
    /\ At(t, "write")
    /\ \/ part' = [version |-> snapshot[t], whole |-> TRUE] /\ Proceeds(t, "rename")
          /\ UNCHANGED counts
       \/ Fails /\ Returns(t, "failed") /\ UNCHANGED part
    /\ UNCHANGED <<process, file, saved, fallback, restored>>

Replaces(t) ==
    /\ part # Nothing
    /\ file' = part /\ part' = Nothing /\ saved' = TRUE /\ fallback' = FALSE
    /\ Returns(t, "ok")

(* Slip: the old file is removed before every rename. *)
RenameOverNothing(t) ==
    /\ At(t, "rename")
    /\ IF file # Nothing
       THEN file' = Nothing /\ UNCHANGED <<part, saved, fallback, saves>>
       ELSE Replaces(t)
    /\ UNCHANGED <<process, restored, counts>>

Rename(t) ==
    /\ At(t, "rename")
    /\ \/ Replaces(t) /\ UNCHANGED counts
       \/ Fails /\ fallback' = TRUE /\ Proceeds(t, "remove")
          /\ UNCHANGED <<part, file, saved>>
    /\ UNCHANGED <<process, restored>>

(* The error of this remove is dropped. *)
RemoveOld(t) ==
    /\ At(t, "remove")
    /\ \/ file' = Nothing /\ UNCHANGED counts
       \/ Fails /\ UNCHANGED file
    /\ Proceeds(t, "again")
    /\ UNCHANGED <<process, part, saved, fallback, restored>>

RenameAgain(t) ==
    /\ At(t, "again")
    /\ \/ Replaces(t) /\ UNCHANGED counts
       \/ Fails /\ part' = Nothing /\ Returns(t, "failed") /\ UNCHANGED <<file, saved, fallback>>
    /\ UNCHANGED <<process, restored>>

Save(t) ==
    \/ Export(t) \/ Lock(t) \/ Open(t) \/ WriteOut(t)
    \/ Rename(t) \/ RemoveOld(t) \/ RenameAgain(t)

-----------------------------------------------------------------------------
(* request_shutdown, and the end of CoordinatorServer::run. *)
Shutdown ==
    /\ phase = "running" /\ phase' = "stopping"
    /\ UNCHANGED <<version, saves, disk, restored, counts>>

(* Slip: the final save does not wait for the connection threads. *)
JoinNobody ==
    /\ phase = "stopping"
    /\ phase' = "saving" /\ Goes(Main, "export")
    /\ UNCHANGED <<version, snapshot, owner, status, disk, restored, counts>>

(* Every connection thread has ended: what it was doing, it has done. *)
Join ==
    /\ phase = "stopping"
    /\ \A c \in Connection : thread[c] = "idle"
    /\ phase' = "saving" /\ Goes(Main, "export")
    /\ UNCHANGED <<version, snapshot, owner, status, disk, restored, counts>>

Stopped ==
    /\ phase = "saving" /\ thread[Main] = "done"
    /\ phase' = "stopped" /\ Goes(Main, "idle")
    /\ UNCHANGED <<version, snapshot, owner, status, disk, restored, counts>>

(* The process dies: the files stay as they are. *)
Crash ==
    /\ Up /\ crashes < MaxCrashes
    /\ crashes' = crashes + 1
    /\ phase' = "down"
    /\ thread' = [t \in Thread |-> "idle"]
    /\ snapshot' = [t \in Thread |-> Nothing]
    /\ owner' = Nothing /\ status' = "none"
    /\ UNCHANGED <<version, disk, restored, faults>>

Next ==
    /\ \/ Start \/ Shutdown \/ Join \/ Stopped \/ Crash
       \/ \E c \in Connection : Receive(c) \/ ConnectionEnds(c)
       \/ \E t \in Thread : Save(t)
    /\ UNCHANGED codec

Spec == Init /\ [][Next]_vars

-----------------------------------------------------------------------------
Locked == {"open", "write", "rename", "remove", "again"}
Places == {"idle", "export", "lock", "done"} \cup Locked

(* Types, and: only the thread that holds the mutex is inside a save. *)
StorageTypeOK ==
    /\ phase \in {"down", "running", "stopping", "saving", "stopped", "refused"}
    /\ version \in Version
    /\ thread \in [Thread -> Places]
    /\ snapshot \in [Thread -> Version \cup {Nothing}]
    /\ owner \in Thread \cup {Nothing}
    /\ \A t \in Thread : thread[t] \in Locked <=> owner = t
    /\ part \in Image \cup {Nothing} /\ file \in Image \cup {Nothing}
    /\ status \in {"none", "ok", "failed"}
    /\ restored \in {Nothing} \cup [file: Image, as: Version \cup {Nothing, Garbled}]
    /\ saved \in BOOLEAN /\ fallback \in BOOLEAN
    /\ faults \in 0 .. MaxFaults /\ crashes \in 0 .. MaxCrashes

(***************************************************************************)
(* What a thread handles is what its client sent, unchanged, and a frame   *)
(* that was cut, damaged or mixed up on its way is never taken for a       *)
(* message.  Only a message with a field above the limits is refused       *)
(* although it arrived as it was sent.                                     *)
(***************************************************************************)
HandledAsSent ==
    \A frame \in Frame :
        codec.arrives[frame] = IF frame[2] = "intact" /\ frame[1] \notin OverlongMessage
                         THEN frame[1] ELSE Nothing

(***************************************************************************)
(* README.md: "a partial write can never become authoritative".  Whoever   *)
(* saves at the same time, and wherever the process dies, the file at the  *)
(* state path is missing or has all the bytes of one save.                 *)
(***************************************************************************)
FileIsWhole == file # Nothing => file.whole

(***************************************************************************)
(* A start continues from exactly the state the file was written from: the *)
(* readers undo the writers field by field.  It is refused only when that  *)
(* state has a field above the readers' limits, which no writer checks.    *)
(***************************************************************************)
RestoredAsSaved ==
    restored # Nothing =>
        restored.as = IF restored.file.version \in OverlongVersion
                      THEN Nothing ELSE restored.file.version

(***************************************************************************)
(* After a save that succeeded there is a state file, until a rename over  *)
(* it fails: without such a failure no death of the process, between any   *)
(* two steps of a save, makes the next coordinator start from nothing, and *)
(* a failure before that save is no excuse.  The fallback itself (remove,  *)
(* then rename again) does lose the file when the process dies in between. *)
(***************************************************************************)
LostOnlyByFallback == saved /\ file = Nothing => fallback

(***************************************************************************)
(* Saves may overtake each other between export and mutex, so the file may *)
(* be older than the engine; a coordinator that stopped in order, and      *)
(* whose last save succeeded, left its last state.                         *)
(***************************************************************************)
StoppedFileIsCurrent ==
    phase = "stopped" /\ status = "ok" => file # Nothing /\ file.version = version

=============================================================================
