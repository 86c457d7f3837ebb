SPECIFICATION Spec
CONSTANTS
  Ops <- MCOps
  MaxFaults = 2
  Attempts = 2
INVARIANTS
  
  NothingLeft
  
  RequiredArgsSuffice
CHECK_DEADLOCK FALSE
