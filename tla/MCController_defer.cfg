SPECIFICATION Spec
CONSTANTS
    Names = {"p", "q", "d"}
    Specs <- TwoActions
    Faults = {}
    MaxCrashes = 0
    MaxEdits = 0
INVARIANT
    CompleteMeansDeferred
CHECK_DEADLOCK FALSE
