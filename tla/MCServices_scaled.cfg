SPECIFICATION Spec
CONSTANTS
  Parts = {"workloads"}
  Jobs = {1, 2, 3}
  Commands = {1, 2}
  Pids = {"p1", "p2"}
  Readers = {"r1"}
  MaxOutput = 1
  MaxOrd = 2
  MaxRestarts = 1
  Calls = {"c1", "c2"}
  MaxLength = 2
  Given <- Lengths
  MaxReplicas = 2
  MaxFailures = 2
  MaxObjects = 4
  MaxTrouble = 3
  Letters = {"#", "P"}
  PhaseOpString <- Separator
  BufferSize = 5
  MaxLog = 8
  Segments = {"a", "ab"}
  Starts <- BeginsAlike
  Paths <- BucketPaths
  MaxKeys = 2
  MaxPuts = 1
INVARIANT ScaledWorkloadIsQuiet
CHECK_DEADLOCK FALSE
