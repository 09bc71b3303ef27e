---------------------------- MODULE StateFileProofs ----------------------------
(***************************************************************************)
(* Whatever the number of connection threads, durable states, failing      *)
(* system calls and deaths of the process, and whatever the codec reads:   *)
(* the state file is whole, is lost only by the fallback of a failed       *)
(* rename, and is current once the coordinator has stopped in order.       *)
(***************************************************************************)
EXTENDS StateFile, TLAPS

Writing == {"rename", "remove", "again"}

(* A thread inside a save knows what it writes, and the part file is its own. *)
InSave(t) ==
    /\ thread[t] \in {"lock"} \cup Locked => snapshot[t] \in Version
    /\ thread[t] \in Writing => part = [version |-> snapshot[t], whole |-> TRUE]
    /\ thread[t] \in {"remove", "again"} => fallback

(* The main thread saves only after all others have ended, and saves the last state. *)
FinalSave ==
    /\ phase # "saving" => thread[Main] = "idle"
    /\ phase \in {"saving", "stopped"} => \A c \in Connection : thread[c] = "idle"
    /\ phase = "saving" /\ thread[Main] \in {"lock"} \cup Locked => snapshot[Main] = version
    /\ phase = "saving" /\ thread[Main] = "done" /\ status = "ok" =>
            file # Nothing /\ file.version = version

CodecStays == codec = [arrives |-> Arrives, loads |-> Loads]

Inv ==
    /\ StorageTypeOK
    /\ CodecStays
    /\ \A t \in Thread : InSave(t)
    /\ FinalSave
    /\ FileIsWhole
    /\ LostOnlyByFallback
    /\ StoppedFileIsCurrent

LEMMA InitInv == Init => Inv
<1> SUFFICES ASSUME Init PROVE Inv
  OBVIOUS
<1>1. version \in Version /\ faults \in 0 .. MaxFaults /\ crashes \in 0 .. MaxCrashes
  BY StorageAssumption DEF Init, Version
<1>2. thread \in [Thread -> Places] /\ snapshot \in [Thread -> Version \cup {Nothing}]
  BY DEF Init, Places
<1>3. \A t \in Thread : thread[t] \in Locked <=> owner = t
  BY StorageAssumption DEF Init, Locked
<1>4. StorageTypeOK
  BY <1>1, <1>2, <1>3 DEF Init, StorageTypeOK
<1>5. \A t \in Thread : InSave(t)
  BY DEF Init, InSave, Locked, Writing
<1>6. FinalSave
  BY DEF Init, FinalSave, Thread
<1> QED
  BY <1>4, <1>5, <1>6
     DEF Init, Inv, CodecStays, FileIsWhole, LostOnlyByFallback, StoppedFileIsCurrent

-----------------------------------------------------------------------------
(* The process: everything that starts or ends it, or gives a thread work. *)

LEMMA StartStep == ASSUME Inv, Start, UNCHANGED codec PROVE Inv'
<1>1. restored' \in {Nothing} \cup [file: Image, as: Version \cup {Nothing, Garbled}]
  BY StorageAssumption DEF Inv, StorageTypeOK, CodecStays, Start
<1>2. version' \in Version
  BY StorageAssumption DEF Inv, StorageTypeOK, Start, Version
<1>3. phase' \in {"running", "refused"}
  BY DEF Start
<1>4. StorageTypeOK'
  BY <1>1, <1>2, <1>3 DEF Inv, StorageTypeOK, Start, saves, disk, counts
<1>5. (\A t \in Thread : InSave(t))'
  BY DEF Inv, InSave, Start, saves, disk
<1>6. FinalSave'
  BY <1>3 DEF Inv, FinalSave, Start, saves
<1> QED
  BY <1>3, <1>4, <1>5, <1>6
     DEF Inv, CodecStays, FileIsWhole, LostOnlyByFallback, StoppedFileIsCurrent, Start, disk

(* The steps of a connection thread that is not inside a save. *)
LEMMA WorkStep ==
    ASSUME Inv, NEW c \in Connection, phase \in {"running", "stopping"}, thread[c] = "idle",
           version' = version \/ EngineChanges,
           Goes(c, "export") \/ Goes(c, "idle") \/ UNCHANGED thread,
           UNCHANGED <<phase, snapshot, owner, status, disk, restored, counts, codec>>
    PROVE  Inv'
<1>1. version' \in Version
  BY StorageAssumption DEF Inv, StorageTypeOK, EngineChanges, Version
<1>2. c \in Thread /\ c # Main
  BY StorageAssumption DEF Thread
<1>3. thread' \in [Thread -> Places]
  BY <1>2 DEF Inv, StorageTypeOK, Goes, Places
<1>4. /\ \A t \in Thread : t # c => thread'[t] = thread[t]
      /\ thread'[c] \in {"idle", "export"}
  BY <1>2 DEF Inv, StorageTypeOK, Goes
<1>5. \A t \in Thread : thread'[t] \in Locked <=> owner' = t
  BY <1>2, <1>4 DEF Inv, StorageTypeOK, Locked
<1>6. StorageTypeOK'
  BY <1>1, <1>3, <1>5 DEF Inv, StorageTypeOK, disk, counts
<1>7. (\A t \in Thread : InSave(t))'
  BY <1>4 DEF Inv, InSave, disk, Locked, Writing
<1>8. FinalSave'
  BY <1>2, <1>4 DEF Inv, FinalSave, Thread
<1> QED
  BY <1>6, <1>7, <1>8
     DEF Inv, CodecStays, FileIsWhole, LostOnlyByFallback, StoppedFileIsCurrent, disk

LEMMA ReceiveStep ==
    ASSUME Inv, NEW c \in Connection, Receive(c), UNCHANGED codec PROVE Inv'
<1>1. version' = version \/ EngineChanges
  BY DEF Receive, EngineStays
<1>2. Goes(c, "export") \/ Goes(c, "idle") \/ UNCHANGED thread
  BY DEF Receive
<1> QED  BY <1>1, <1>2, WorkStep DEF Receive

LEMMA ConnectionEndsStep ==
    ASSUME Inv, NEW c \in Connection, ConnectionEnds(c), UNCHANGED codec PROVE Inv'
<1>1. version' = version \/ EngineChanges
  BY DEF ConnectionEnds, EngineStays
<1>2. Goes(c, "export") \/ Goes(c, "idle") \/ UNCHANGED thread
  BY DEF ConnectionEnds
<1> QED  BY <1>1, <1>2, WorkStep DEF ConnectionEnds

LEMMA EndStep ==
    ASSUME Inv, Shutdown \/ Join \/ Stopped \/ Crash, UNCHANGED codec PROVE Inv'
<1>0. Main \in Thread /\ Main \notin Connection /\ Nothing \notin Thread
  BY StorageAssumption DEF Thread
<1>1. CASE Shutdown
  BY <1>1, <1>0 DEF Inv, Shutdown, StorageTypeOK, CodecStays, InSave, FinalSave, FileIsWhole,
     LostOnlyByFallback, StoppedFileIsCurrent, saves, disk, counts
<1>2. CASE Join
  <2>1. thread' = [thread EXCEPT ![Main] = "export"] /\ phase' = "saving"
    BY <1>2 DEF Join, Goes
  <2>2. StorageTypeOK'
    BY <1>0, <1>2, <2>1 DEF Inv, StorageTypeOK, FinalSave, Join, Places, Locked, disk, counts
  <2>3. (\A t \in Thread : InSave(t))'
    BY <1>0, <1>2, <2>1 DEF Inv, StorageTypeOK, InSave, Join, Locked, Writing, disk
  <2>4. FinalSave'
    BY <1>0, <1>2, <2>1 DEF Inv, StorageTypeOK, FinalSave, Join, Locked, Thread
  <2> QED
    BY <1>2, <2>1, <2>2, <2>3, <2>4
       DEF Inv, Join, CodecStays, FileIsWhole, LostOnlyByFallback, StoppedFileIsCurrent, disk
<1>3. CASE Stopped
  <2>1. /\ thread' = [thread EXCEPT ![Main] = "idle"]
        /\ phase = "saving" /\ phase' = "stopped" /\ thread[Main] = "done"
    BY <1>3 DEF Stopped, Goes
  <2>2. StorageTypeOK'
    BY <1>0, <1>3, <2>1 DEF Inv, StorageTypeOK, Stopped, Places, Locked, disk, counts
  <2>3. (\A t \in Thread : InSave(t))'
    BY <1>0, <1>3, <2>1 DEF Inv, StorageTypeOK, InSave, Stopped, Locked, Writing, disk
  <2>4. FinalSave'
    BY <1>0, <1>3, <2>1 DEF Inv, StorageTypeOK, FinalSave, Stopped, Thread
  <2>5. StoppedFileIsCurrent'
    BY <1>3, <2>1 DEF Inv, FinalSave, StoppedFileIsCurrent, Stopped, disk
  <2> QED
    BY <1>3, <2>2, <2>3, <2>4, <2>5
       DEF Inv, Stopped, CodecStays, FileIsWhole, LostOnlyByFallback, disk
<1>4. CASE Crash
  <2>1. crashes' \in 0 .. MaxCrashes
    BY <1>4, StorageAssumption DEF Inv, StorageTypeOK, Crash
  <2>2. thread' \in [Thread -> Places] /\ snapshot' \in [Thread -> Version \cup {Nothing}]
    BY <1>4 DEF Crash, Places
  <2>3. \A t \in Thread : thread'[t] \in Locked <=> owner' = t
    BY <1>4, <1>0 DEF Crash, Locked
  <2>4. StorageTypeOK'
    BY <1>4, <2>1, <2>2, <2>3 DEF Inv, StorageTypeOK, Crash, disk
  <2>5. (\A t \in Thread : InSave(t))'
    BY <1>4 DEF InSave, Crash, Locked, Writing
  <2>6. FinalSave'
    BY <1>0, <1>4 DEF FinalSave, Crash
  <2> QED
    BY <1>4, <2>4, <2>5, <2>6
       DEF Inv, Crash, CodecStays, FileIsWhole, LostOnlyByFallback, StoppedFileIsCurrent, disk
<1> QED  BY <1>1, <1>2, <1>3, <1>4

-----------------------------------------------------------------------------
(***************************************************************************)
(* The steps of a save.  What all of them leave alone, and what a thread   *)
(* at some place of a save means for the process and the other threads.    *)
(***************************************************************************)
LEMMA Saver ==
    ASSUME Inv, NEW t \in Thread, Up, thread[t] # "idle"
    PROVE  /\ phase = "saving" => t = Main
           /\ t = Main => phase = "saving"
  BY DEF Inv, FinalSave, Thread

(* Only the thread that holds the mutex is inside a save. *)
LEMMA Alone ==
    ASSUME Inv, NEW t \in Thread, thread[t] \in Locked
    PROVE  owner = t /\ \A u \in Thread : u # t => thread[u] \notin Locked
  BY DEF Inv, StorageTypeOK

LEMMA ExportStep == ASSUME Inv, NEW t \in Thread, Export(t), UNCHANGED codec PROVE Inv'
<1>1. /\ thread' = [thread EXCEPT ![t] = "lock"] /\ thread[t] = "export" /\ Up
      /\ snapshot' = [snapshot EXCEPT ![t] = version]
      /\ UNCHANGED <<process, owner, status, disk, restored, counts>>
  BY DEF Export, Goes, At
<1>2. StorageTypeOK'
  BY <1>1 DEF Inv, StorageTypeOK, Places, Locked, process, disk, counts
<1>3. (\A u \in Thread : InSave(u))'
  BY <1>1 DEF Inv, StorageTypeOK, InSave, Writing, Locked, process, disk
<1>4. FinalSave'
  BY <1>1, Saver, StorageAssumption
     DEF Inv, StorageTypeOK, FinalSave, Up, Thread, Locked, process, disk
<1> QED
  BY <1>1, <1>2, <1>3, <1>4 DEF Inv, CodecStays, FileIsWhole, LostOnlyByFallback,
     StoppedFileIsCurrent, Up, process, disk

LEMMA LockStep == ASSUME Inv, NEW t \in Thread, Lock(t), UNCHANGED codec PROVE Inv'
<1>1. /\ thread' = [thread EXCEPT ![t] = "open"] /\ thread[t] = "lock" /\ Up
      /\ owner = Nothing /\ owner' = t
      /\ UNCHANGED <<process, snapshot, status, disk, restored, counts>>
  BY DEF Lock, Goes, At
<1>2. \A u \in Thread : thread'[u] \in Locked <=> owner' = u
  BY <1>1, StorageAssumption DEF Inv, StorageTypeOK, Locked
<1>3. StorageTypeOK'
  BY <1>1, <1>2 DEF Inv, StorageTypeOK, Places, Locked, process, disk, counts
<1>4. (\A u \in Thread : InSave(u))'
  BY <1>1 DEF Inv, StorageTypeOK, InSave, Writing, Locked, disk
<1>5. FinalSave'
  BY <1>1, Saver, StorageAssumption
     DEF Inv, StorageTypeOK, FinalSave, Up, Thread, Locked, process, disk
<1> QED
  BY <1>1, <1>3, <1>4, <1>5 DEF Inv, CodecStays, FileIsWhole, LostOnlyByFallback,
     StoppedFileIsCurrent, Up, process, disk

(* A step of the thread that holds the mutex to its next place inside the save. *)
LEMMA ProceedsStep ==
    ASSUME Inv, NEW t \in Thread, NEW place, Up, thread[t] \in Locked, Proceeds(t, place),
           place \in Locked,
           place \in Writing => part' = [version |-> snapshot[t], whole |-> TRUE],
           place \in {"remove", "again"} => fallback',
           part' \in Image \cup {Nothing}, file' \in {file, Nothing},
           saved /\ file' = Nothing => fallback', fallback' \in BOOLEAN,
           faults' \in 0 .. MaxFaults,
           UNCHANGED <<process, saved, restored, crashes, codec>>
    PROVE  Inv'
<1>1. /\ thread' = [thread EXCEPT ![t] = place]
      /\ UNCHANGED <<snapshot, owner, status>>
  BY DEF Proceeds, Goes
<1>2. \A u \in Thread : thread'[u] \in Locked <=> owner' = u
  BY <1>1 DEF Inv, StorageTypeOK
<1>3. StorageTypeOK'
  BY <1>1, <1>2 DEF Inv, StorageTypeOK, Places, process
<1>4. (\A u \in Thread : InSave(u))'
  <2> SUFFICES ASSUME NEW u \in Thread PROVE InSave(u)'
    OBVIOUS
  <2>1. CASE u = t
    BY <1>1, <2>1 DEF Inv, StorageTypeOK, InSave, Locked, Writing
  <2>2. CASE u # t
    BY <1>1, <2>2, Alone DEF Inv, StorageTypeOK, InSave, Locked, Writing
  <2> QED  BY <2>1, <2>2
<1>5. t \in Thread /\ thread[t] # "idle" /\ place # "done"
  BY DEF Locked
<1>6. FinalSave'
  BY <1>1, <1>5, Saver, StorageAssumption
     DEF Inv, StorageTypeOK, FinalSave, Up, Thread, process
<1> QED
  BY <1>1, <1>3, <1>4, <1>6 DEF Inv, CodecStays, FileIsWhole, LostOnlyByFallback,
     StoppedFileIsCurrent, Up, process

(* The end of a save, with or without a new file. *)
LEMMA ReturnsStep ==
    ASSUME Inv, NEW t \in Thread, NEW result \in {"ok", "failed"}, Up, thread[t] \in Locked,
           Returns(t, result), part' \in Image \cup {Nothing},
           \/ result = "failed" /\ UNCHANGED <<file, saved, fallback>>
           \/ /\ result = "ok" /\ saved' = TRUE /\ fallback' = FALSE
              /\ file' = [version |-> snapshot[t], whole |-> TRUE],
           faults' \in 0 .. MaxFaults,
           UNCHANGED <<process, restored, crashes, codec>>
    PROVE  Inv'
<1>1. /\ thread' = [thread EXCEPT ![t] = IF t = Main THEN "done" ELSE "idle"]
      /\ snapshot' = [snapshot EXCEPT ![t] = Nothing]
      /\ owner' = Nothing /\ status' = result
  BY DEF Returns, Goes
<1>2. /\ thread' \in [Thread -> Places] /\ thread'[t] \notin Locked \cup {"lock"}
      /\ \A u \in Thread : u # t => thread'[u] = thread[u] /\ snapshot'[u] = snapshot[u]
  BY <1>1 DEF Inv, StorageTypeOK, Places, Locked
<1>3. snapshot[t] \in Version
  BY DEF Inv, InSave
<1>4. \A u \in Thread : thread'[u] \in Locked <=> owner' = u
  BY <1>1, <1>2, Alone, StorageAssumption DEF Thread
<1>5. file' \in Image \cup {Nothing}
  <2>1. file \in Image \cup {Nothing}
    BY DEF Inv, StorageTypeOK
  <2>2. [version |-> snapshot[t], whole |-> TRUE] \in Image
    BY <1>3 DEF Image
  <2> QED  BY <2>1, <2>2
<1>6. StorageTypeOK'
  BY <1>1, <1>2, <1>4, <1>5 DEF Inv, StorageTypeOK, process
<1>7. (\A u \in Thread : InSave(u))'
  <2> SUFFICES ASSUME NEW u \in Thread PROVE InSave(u)'
    OBVIOUS
  <2>1. CASE u = t
    BY <1>2, <2>1 DEF InSave, Locked, Writing
  <2>2. CASE u # t
    BY <1>2, <2>2, Alone DEF Inv, InSave, Locked, Writing
  <2> QED  BY <2>1, <2>2
<1>8. thread[t] # "idle" /\ thread[t] # "done"
  BY DEF Locked
<1>9. file' # Nothing \/ result = "failed"
  BY <1>3, StorageAssumption DEF Image
<1>10. FinalSave'
  <2>1. phase = "saving" => snapshot[Main] = version /\ t = Main
    BY <1>8, Saver DEF Inv, FinalSave
  <2>2. phase' = phase /\ version' = version
    BY DEF process
  <2>3. (phase # "saving" => thread[Main] = "idle")'
    BY <1>1, <1>2, <1>8, <2>2, Saver DEF Inv, FinalSave, Thread
  <2>4. (phase \in {"saving", "stopped"} => \A c \in Connection : thread[c] = "idle")'
    BY <1>2, <1>8, <2>2, Saver, StorageAssumption DEF Inv, FinalSave, Thread, Up
  <2>5. (phase = "saving" /\ thread[Main] \in {"lock"} \cup Locked => snapshot[Main] = version)'
    BY <1>2, <2>1, <2>2
  <2>6. (phase = "saving" /\ thread[Main] = "done" /\ status = "ok" =>
            file # Nothing /\ file.version = version)'
    BY <1>1, <1>9, <2>1, <2>2
  <2> QED  BY <2>3, <2>4, <2>5, <2>6 DEF FinalSave
<1>11. FileIsWhole' /\ LostOnlyByFallback'
  BY <1>9 DEF Inv, FileIsWhole, LostOnlyByFallback
<1> QED
  BY <1>6, <1>7, <1>10, <1>11 DEF Inv, CodecStays, StoppedFileIsCurrent, Up, process

LEMMA FailsBounded == ASSUME Inv, Fails PROVE faults' \in 0 .. MaxFaults /\ UNCHANGED crashes
  BY StorageAssumption DEF Inv, StorageTypeOK, Fails

LEMMA OpenStep == ASSUME Inv, NEW t \in Thread, Open(t), UNCHANGED codec PROVE Inv'
<1>1. /\ Up /\ thread[t] = "open" /\ thread[t] \in Locked
      /\ UNCHANGED <<process, file, saved, fallback, restored>>
  BY DEF Open, At, Locked
<1>2. snapshot[t] \in Version
  BY <1>1 DEF Inv, InSave
<1>3. CASE /\ part' = [version |-> snapshot[t], whole |-> FALSE] /\ Proceeds(t, "write")
           /\ UNCHANGED counts
  <2>1. part' \in Image
    BY <1>2, <1>3 DEF Image
  <2>2. faults' \in 0 .. MaxFaults /\ UNCHANGED crashes /\ fallback' \in BOOLEAN
    BY <1>1, <1>3 DEF Inv, StorageTypeOK, counts
  <2>3. saved /\ file' = Nothing => fallback'
    BY <1>1 DEF Inv, LostOnlyByFallback
  <2>4. "write" \in Locked /\ "write" \notin Writing
    BY DEF Locked, Writing
  <2> QED  BY <1>1, <1>3, <2>1, <2>2, <2>3, <2>4, ProceedsStep
<1>4. CASE Fails /\ Returns(t, "failed") /\ UNCHANGED part
  <2>1. part' \in Image \cup {Nothing}
    BY <1>4 DEF Inv, StorageTypeOK
  <2> QED  BY <1>1, <1>4, <2>1, FailsBounded, ReturnsStep
<1> QED  BY <1>3, <1>4 DEF Open

LEMMA WriteOutStep == ASSUME Inv, NEW t \in Thread, WriteOut(t), UNCHANGED codec PROVE Inv'
<1>1. /\ Up /\ thread[t] = "write" /\ thread[t] \in Locked
      /\ UNCHANGED <<process, file, saved, fallback, restored>>
  BY DEF WriteOut, At, Locked
<1>2. snapshot[t] \in Version
  BY <1>1 DEF Inv, InSave
<1>3. CASE /\ part' = [version |-> snapshot[t], whole |-> TRUE] /\ Proceeds(t, "rename")
           /\ UNCHANGED counts
  <2>1. part' \in Image
    BY <1>2, <1>3 DEF Image
  <2>2. faults' \in 0 .. MaxFaults /\ UNCHANGED crashes /\ fallback' \in BOOLEAN
    BY <1>1, <1>3 DEF Inv, StorageTypeOK, counts
  <2>3. saved /\ file' = Nothing => fallback'
    BY <1>1 DEF Inv, LostOnlyByFallback
  <2>4. "rename" \in Locked
    BY DEF Locked
  <2> QED  BY <1>1, <1>3, <2>1, <2>2, <2>3, <2>4, ProceedsStep
<1>4. CASE Fails /\ Returns(t, "failed") /\ UNCHANGED part
  <2>1. part' \in Image \cup {Nothing}
    BY <1>4 DEF Inv, StorageTypeOK
  <2> QED  BY <1>1, <1>4, <2>1, FailsBounded, ReturnsStep
<1> QED  BY <1>3, <1>4 DEF WriteOut

LEMMA RenameStep == ASSUME Inv, NEW t \in Thread, Rename(t), UNCHANGED codec PROVE Inv'
<1>1. /\ Up /\ thread[t] = "rename" /\ thread[t] \in Locked /\ thread[t] \in Writing
      /\ UNCHANGED <<process, restored>>
  BY DEF Rename, At, Locked, Writing
<1>2. part = [version |-> snapshot[t], whole |-> TRUE] /\ part \in Image \cup {Nothing}
  BY <1>1 DEF Inv, StorageTypeOK, InSave
<1>3. CASE Replaces(t) /\ UNCHANGED counts
  <2>1. faults' \in 0 .. MaxFaults /\ UNCHANGED crashes
    BY <1>3 DEF Inv, StorageTypeOK, counts
  <2> QED  BY <1>1, <1>2, <1>3, <2>1, ReturnsStep DEF Replaces
<1>4. CASE /\ Fails /\ fallback' = TRUE /\ Proceeds(t, "remove")
           /\ UNCHANGED <<part, file, saved>>
  <2>1. "remove" \in Locked
    BY DEF Locked
  <2> QED  BY <1>1, <1>2, <1>4, <2>1, FailsBounded, ProceedsStep
<1> QED  BY <1>3, <1>4 DEF Rename

LEMMA RemoveOldStep == ASSUME Inv, NEW t \in Thread, RemoveOld(t), UNCHANGED codec PROVE Inv'
<1>1. /\ Up /\ thread[t] = "remove" /\ thread[t] \in Locked /\ thread[t] \in Writing
      /\ Proceeds(t, "again") /\ "again" \in Locked
      /\ UNCHANGED <<process, part, saved, fallback, restored>>
  BY DEF RemoveOld, At, Locked, Writing
<1>2. part = [version |-> snapshot[t], whole |-> TRUE] /\ part \in Image \cup {Nothing}
  BY <1>1 DEF Inv, StorageTypeOK, InSave
<1>3. fallback /\ fallback \in BOOLEAN
  BY <1>1 DEF Inv, StorageTypeOK, InSave
<1>4. file' \in {file, Nothing} /\ faults' \in 0 .. MaxFaults /\ UNCHANGED crashes
  BY FailsBounded DEF RemoveOld, Inv, StorageTypeOK, counts
<1> QED  BY <1>1, <1>2, <1>3, <1>4, ProceedsStep

LEMMA RenameAgainStep == ASSUME Inv, NEW t \in Thread, RenameAgain(t), UNCHANGED codec PROVE Inv'
<1>1. /\ Up /\ thread[t] = "again" /\ thread[t] \in Locked /\ thread[t] \in Writing
      /\ UNCHANGED <<process, restored>>
  BY DEF RenameAgain, At, Locked, Writing
<1>2. part = [version |-> snapshot[t], whole |-> TRUE] /\ part \in Image \cup {Nothing}
  BY <1>1 DEF Inv, StorageTypeOK, InSave
<1>3. CASE Replaces(t) /\ UNCHANGED counts
  <2>1. faults' \in 0 .. MaxFaults /\ UNCHANGED crashes
    BY <1>3 DEF Inv, StorageTypeOK, counts
  <2> QED  BY <1>1, <1>2, <1>3, <2>1, ReturnsStep DEF Replaces
<1>4. CASE Fails /\ part' = Nothing /\ Returns(t, "failed") /\ UNCHANGED <<file, saved, fallback>>
  BY <1>1, <1>4, FailsBounded, ReturnsStep
<1> QED  BY <1>3, <1>4 DEF RenameAgain

-----------------------------------------------------------------------------
LEMMA StutterStep == ASSUME Inv, UNCHANGED vars PROVE Inv'
  BY DEF Inv, vars, process, saves, disk, counts, StorageTypeOK, CodecStays, InSave, FinalSave,
     FileIsWhole, LostOnlyByFallback, StoppedFileIsCurrent

LEMMA NextStep == Inv /\ [Next]_vars => Inv'
<1> SUFFICES ASSUME Inv, [Next]_vars PROVE Inv'
  OBVIOUS
<1>1. CASE Start /\ UNCHANGED codec
  BY <1>1, StartStep
<1>2. CASE (Shutdown \/ Join \/ Stopped \/ Crash) /\ UNCHANGED codec
  BY <1>2, EndStep
<1>3. ASSUME NEW c \in Connection, Receive(c) \/ ConnectionEnds(c), UNCHANGED codec PROVE Inv'
  BY <1>3, ReceiveStep, ConnectionEndsStep
<1>4. ASSUME NEW t \in Thread, Save(t), UNCHANGED codec PROVE Inv'
  BY <1>4, ExportStep, LockStep, OpenStep, WriteOutStep, RenameStep, RemoveOldStep,
     RenameAgainStep DEF Save
<1>5. CASE UNCHANGED vars
  BY <1>5, StutterStep
<1> QED  BY <1>1, <1>2, <1>3, <1>4, <1>5 DEF Next

THEOREM InvHolds == Spec => []Inv
  BY InitInv, NextStep, PTL DEF Spec

(***************************************************************************)
(* save_state serialises the savers: a thread is between the open and the  *)
(* last rename of a save exactly while it holds persist_mutex, on every    *)
(* path out of a save.                                                     *)
(***************************************************************************)
THEOREM StorageTypeHolds == Spec => []StorageTypeOK
<1>1. Inv => StorageTypeOK
  BY DEF Inv
<1> QED  BY <1>1, InvHolds, PTL

(***************************************************************************)
(* save_durable_state: whoever saves at the same time and wherever the     *)
(* process dies, the file at the state path is missing or whole.           *)
(***************************************************************************)
THEOREM TheFileIsWhole == Spec => []FileIsWhole
<1>1. Inv => FileIsWhole
  BY DEF Inv
<1> QED  BY <1>1, InvHolds, PTL

(***************************************************************************)
(* After a save that succeeded, the file can only be missing when a later  *)
(* rename over it failed.                                                  *)
(***************************************************************************)
THEOREM TheFileIsKept == Spec => []LostOnlyByFallback
<1>1. Inv => LostOnlyByFallback
  BY DEF Inv
<1> QED  BY <1>1, InvHolds, PTL

(***************************************************************************)
(* CoordinatorServer::run joins its threads before the last save, so when  *)
(* that save succeeded the file holds the last state of the engine, even   *)
(* though earlier saves may have overtaken each other.                     *)
(***************************************************************************)
THEOREM TheStoppedFileIsCurrent == Spec => []StoppedFileIsCurrent
<1>1. Inv => StoppedFileIsCurrent
  BY DEF Inv
<1> QED  BY <1>1, InvHolds, PTL
=============================================================================
