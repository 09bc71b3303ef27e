\* A request that waives current evidence, on the GPU of one worker.
SPECIFICATION RecoverySpec
CONSTANTS
    w1 = w1
    w2 = w2
    gpu = gpu
    sim = sim
    data = data
    first = first
    second = second
    unit = unit
    other = other
    NoWorker = NoWorker
    NoSnapshot = NoSnapshot
    Worker = {w1}
    Resource = {gpu}
    Dataset = {}
    Owner <- SoloOwner
    Request = {first}
    Unit = {unit}
    UnitOf <- MixedUnits
    Demand <- WaivedDemand
    AllowPreemption = {}
    MaxReassignments <- MixedBudget
    Advertised <- SoloAdvertised
    MaxBoot = 1
    MaxEpoch = 3
    MaxGeneration = 3
    MaxPlacements = 2
    MaxActive = 2
    MaxActiveRequests = 1
    OrderedWorkers = TRUE
    CarefulControllers = TRUE
INVARIANTS
    StaleAuthorityHoldsNothing
CHECK_DEADLOCK FALSE
