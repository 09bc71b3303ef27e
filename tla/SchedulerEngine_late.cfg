\* One worker with two boots; a publication of the first boot may arrive after the
\* second boot has connected.
SPECIFICATION Spec
CONSTANTS
    w1 = w1
    w2 = w2
    gpu = gpu
    sim = sim
    data = data
    first = first
    second = second
    unit = unit
    other = other
    NoWorker = NoWorker
    Worker = {w1}
    Resource = {gpu}
    Dataset = {}
    Owner <- SoloOwner
    Request = {first}
    Unit = {unit}
    UnitOf <- OneUnit
    Demand <- OneDemand
    AllowPreemption = {}
    MaxReassignments <- OneBudget
    Advertised <- FixedAdvertised
    MaxBoot = 2
    MaxEpoch = 1
    MaxGeneration = 3
    MaxPlacements = 2
    MaxActive = 2
    MaxActiveRequests = 2
    OrderedWorkers = FALSE
    CarefulControllers = TRUE
INVARIANTS
    AuthorityFollowsIncarnation
CHECK_DEADLOCK FALSE
