SPECIFICATION FairSpec
CONSTANTS
    c1 = c1
    c2 = c2
    c3 = c3
    Callers = {c1, c2}
    Objects <- SetObjects
    Valid <- SetValid
    F <- AddCaller
    MaxEdits = 2
PROPERTIES
    ImplementsAtomic
    EveryCallReturns
CHECK_DEADLOCK FALSE
