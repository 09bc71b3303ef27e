\* One worker in two incarnations, one controller with two calls.
SPECIFICATION ClusterSpec
CONSTANTS
    w = w
    gpu = gpu
    first = first
    unit = unit
    operator = operator
    NoWorker = NoWorker
    Worker = {w}
    Resource = {gpu}
    Dataset = {}
    Owner <- ClusterOwner
    Request = {first}
    Unit = {unit}
    UnitOf <- ClusterUnits
    Demand <- ClusterDemand
    AllowPreemption = {}
    MaxReassignments <- ClusterBudget
    Advertised <- ClusterAdvertised
    MaxBoot = 2
    MaxEpoch = 1
    MaxGeneration = 20
    MaxPlacements = 2
    MaxActive = 2
    MaxActiveRequests = 1
    OrderedWorkers = FALSE
    CarefulControllers = FALSE
    Controller = {operator}
    Wake = Wake
    Mortal <- FirstBoot
    Outcomes = {"Completed"}
    Holding = {}
    Session <- ClusterSession
INVARIANTS
    ClusterTypeOK
    EndedConnectionHoldsNothing
    ResultsComeFromTheBoundWorker
    ExecutedAtMostOnce
PROPERTIES
    CallsReturn
    DeadWorkersAreReleased
    ShutdownEnds
CHECK_DEADLOCK FALSE
