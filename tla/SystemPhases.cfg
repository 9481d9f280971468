SPECIFICATION Spec
CONSTANTS
  NumThreads = 2
  Hosts <- ThreeHosts
  MaxStarts = 2
  NumChunks = 2
  MaxVersion = 4
INVARIANTS ConsistentCut NotifiedIsPersistent GrowWaitsForOperations TruncateWaits
  AtRestAllDone ThreadsAreBeside AssertionsHold
CHECK_DEADLOCK FALSE
