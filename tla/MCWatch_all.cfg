SPECIFICATION FairSpec
CONSTANTS
    Incarnations = 3
    Crashes = 1
    Faults = {{"gap", "reuse"}, {"reuse", "api"}, {"reuse", "invalid"}, {"api", "invalid"}}
INVARIANTS
    SingleTomb
    LaunchedAtMostOnce
    SeenDeletionStops
    NoPanic
PROPERTY
    SeenIsInitialised
CHECK_DEADLOCK FALSE
