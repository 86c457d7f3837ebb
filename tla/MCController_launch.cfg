SPECIFICATION FairSpec
CONSTANTS
    Names = {"p", "q", "d"}
    Specs <- TwoActions
    Faults = {"launch"}
    MaxCrashes = 0
    MaxEdits = 0
PROPERTY
    LaunchFailureIsMarked
CHECK_DEADLOCK FALSE
