\* Every search over the four families of problems; a search that is done stops.
SPECIFICATION SearchSpec
CONSTANTS
    Problems <- SearchProblems
INVARIANTS
    SearchTypeOK
    BestOfTheKept
    BestOfTheSeen
    CollapseKeepsTheBest
    FailureNamesTheClosestMiss
CHECK_DEADLOCK FALSE
