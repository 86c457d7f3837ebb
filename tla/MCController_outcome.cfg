SPECIFICATION FairSpec
CONSTANTS
    Names = {"p", "q", "d"}
    Specs <- AllShapes
    Faults = {"params", "exec", "deferExec", "render"}
    MaxCrashes = 0
    MaxEdits = 0
INVARIANT
    CompleteAtRest
PROPERTY
    Terminates
CHECK_DEADLOCK FALSE
