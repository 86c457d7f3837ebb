SPECIFICATION Spec
CONSTANT
    Settings <- SmallSettings
INVARIANTS
    AllCompleteIsHundred
    PercentIsAverage
PROPERTY
    FinalProgressStands
CHECK_DEADLOCK FALSE
