\* One request on a resource of two slots; a controller may repeat a reassignment.
SPECIFICATION Spec
CONSTANTS
    w1 = w1
    w2 = w2
    gpu = gpu
    sim = sim
    data = data
    first = first
    second = second
    unit = unit
    other = other
    NoWorker = NoWorker
    Worker = {w1}
    Resource = {gpu}
    Dataset = {}
    Owner <- SoloOwner
    Request = {first}
    Unit = {unit}
    UnitOf <- OneUnit
    Demand <- OneDemand
    AllowPreemption = {}
    MaxReassignments <- OneBudget
    Advertised <- FixedAdvertised
    MaxBoot = 1
    MaxEpoch = 1
    MaxGeneration = 1
    MaxPlacements = 3
    MaxActive = 2
    MaxActiveRequests = 2
    OrderedWorkers = TRUE
    CarefulControllers = FALSE
INVARIANTS
    OneLivePlacementPerUnit
CHECK_DEADLOCK FALSE
