\* One worker with one resource, a static resource, a compound request; the
\* coordinator may stop at any time, the worker may be lost and come back, and a
\* failing rename may cost the state file.
SPECIFICATION RecoverySpec
CONSTANTS
    w1 = w1
    w2 = w2
    gpu = gpu
    sim = sim
    data = data
    first = first
    second = second
    unit = unit
    other = other
    NoWorker = NoWorker
    NoSnapshot = NoSnapshot
    Worker = {w1}
    Resource = {data, gpu}
    Dataset = {data}
    Owner <- MixedOwner
    Request = {first}
    Unit = {unit}
    UnitOf <- MixedUnits
    Demand <- MixedDemand
    AllowPreemption = {}
    MaxReassignments <- MixedBudget
    Advertised <- MixedAdvertised
    MaxBoot = 1
    MaxEpoch = 3
    MaxGeneration = 3
    MaxPlacements = 2
    MaxActive = 2
    MaxActiveRequests = 1
    OrderedWorkers = FALSE
    CarefulControllers = TRUE
INVARIANTS
    SnapshotIsLoadable
    LiveBelongsToThisCoordinator
    ReservedMatchesLedger
    CurrentIsLive
    StaleAuthorityHoldsNothing
PROPERTIES
    SavedCoordinatorsAreFenced
CHECK_DEADLOCK FALSE
