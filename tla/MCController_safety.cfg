SPECIFICATION Spec
CONSTANTS
    Names = {"p", "q", "d"}
    Specs <- AllShapes
    Faults = {"api", "lostReply", "blueprint", "launch", "params", "exec", "deferExec", "render"}
    MaxCrashes = 1
    MaxEdits = 1
INVARIANTS
    ExecutedAtMostOnce
    PredecessorsRecorded
    CompleteMeansExecuted
    FailureIsReported
    StatusStaysValid
PROPERTIES
    ImplementsContract
CHECK_DEADLOCK FALSE
