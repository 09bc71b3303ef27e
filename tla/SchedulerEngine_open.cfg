\* One worker, one resource that changes between four shared slots, two of them in
\* use outside, and three exclusive ones; a request for a slot and one for the whole
\* resource; workers and controllers may do anything.
SPECIFICATION Spec
CONSTANTS
    w1 = w1
    w2 = w2
    gpu = gpu
    sim = sim
    data = data
    first = first
    second = second
    unit = unit
    other = other
    NoWorker = NoWorker
    Worker = {w1}
    Resource = {gpu}
    Dataset = {}
    Owner <- SoloOwner
    Request = {first, second}
    Unit = {unit, other}
    UnitOf <- SoloUnits
    Demand <- SoloDemand
    AllowPreemption = {first}
    MaxReassignments <- SoloBudget
    Advertised <- SoloAdvertised
    MaxBoot = 2
    MaxEpoch = 2
    MaxGeneration = 3
    MaxPlacements = 2
    MaxActive = 2
    MaxActiveRequests = 2
    OrderedWorkers = FALSE
    CarefulControllers = FALSE
INVARIANTS
    TypeOK
    ReservedMatchesLedger
    CapacityNotExceeded
    LiveIffReserved
    CurrentIsLive
    StaleAuthorityHoldsNothing
    ExclusiveClaimIsAlone
PROPERTIES
    GrantsLeases
    EndedStaysEnded
    GenerationIdentifiesEvidence
    ReleasedExactlyOnce
CHECK_DEADLOCK FALSE
