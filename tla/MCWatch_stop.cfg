SPECIFICATION Spec
CONSTANTS
    Incarnations = 2
    Crashes = 0
    Faults = {{"gap"}}
INVARIANT
    DeletionStops
CHECK_DEADLOCK FALSE
