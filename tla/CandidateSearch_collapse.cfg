\* Two GPUs that differ in nothing, asked for by two requirements of one request.
SPECIFICATION SearchSpec
CONSTANTS
    Problems <- TwinPairs
INVARIANTS
    CollapseChangesNothing
CHECK_DEADLOCK FALSE
