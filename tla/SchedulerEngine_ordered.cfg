\* Two workers, a compound request and a rival for its unit; worker traffic arrives in
\* the order of boots and controllers reassign only what is pending.
SPECIFICATION Spec
CONSTANTS
    w1 = w1
    w2 = w2
    gpu = gpu
    sim = sim
    data = data
    first = first
    second = second
    unit = unit
    other = other
    NoWorker = NoWorker
    Worker = {w1, w2}
    Resource = {gpu, sim}
    Dataset = {}
    Owner <- DuoOwner
    Request = {first, second}
    Unit = {unit}
    UnitOf <- DuoUnits
    Demand <- DuoDemand
    AllowPreemption = {}
    MaxReassignments <- DuoBudget
    Advertised <- DuoAdvertised
    MaxBoot = 2
    MaxEpoch = 1
    MaxGeneration = 2
    MaxPlacements = 3
    MaxActive = 2
    MaxActiveRequests = 2
    OrderedWorkers = TRUE
    CarefulControllers = TRUE
INVARIANTS
    OneLivePlacementPerUnit
    OnlyPlacedRequestsHoldPlacements
    BudgetBoundsPlacements
    AuthorityFollowsIncarnation
    LiveOnCurrentIncarnation
CHECK_DEADLOCK FALSE
