\* Two connection threads, four durable states, two failing system calls, one crash.
SPECIFICATION Spec
CONSTANTS
    Nothing = Nothing
    Garbled = Garbled
    c1 = c1
    c2 = c2
    Connection = {c1, c2}
    Main = Main
    Limit <- SampleLimit
    NameHash <- HashOfName
    Message <- MessageNames
    Frame <- SampleFrames
    Arrives <- FramesArriveAs
    Loads <- FilesLoadAs
    Mutating <- MutatingTypes
    Announcing = {"Hello"}
    Saving = {"SaveState"}
    OverlongMessage = {"Decision with a long detail"}
    OverlongVersion = {3}
    LastVersion = 4
    PersistOnMutation = TRUE
    MaxFaults = 2
    MaxCrashes = 1
INVARIANTS
    StorageTypeOK
    HandledAsSent
    FileIsWhole
    RestoredAsSaved
    LostOnlyByFallback
    StoppedFileIsCurrent
\* A coordinator that cannot load its file ends.
CHECK_DEADLOCK FALSE
