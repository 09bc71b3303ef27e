\* A resource of two slots that may change its sharing mode; two requests for two
\* units.
SPECIFICATION Spec
CONSTANTS
    w1 = w1
    w2 = w2
    gpu = gpu
    sim = sim
    data = data
    first = first
    second = second
    unit = unit
    other = other
    NoWorker = NoWorker
    Worker = {w1}
    Resource = {gpu}
    Dataset = {}
    Owner <- SoloOwner
    Request = {first, second}
    Unit = {unit, other}
    UnitOf <- SoloUnits
    Demand <- SlotDemand
    AllowPreemption = {first}
    MaxReassignments <- SoloBudget
    Advertised <- FlexibleAdvertised
    MaxBoot = 1
    MaxEpoch = 1
    MaxGeneration = 3
    MaxPlacements = 2
    MaxActive = 2
    MaxActiveRequests = 2
    OrderedWorkers = TRUE
    CarefulControllers = TRUE
INVARIANTS
    ExclusiveResourceHasOneClaim
CHECK_DEADLOCK FALSE
