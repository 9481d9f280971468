SPECIFICATION LiveSpec
CONSTANTS
  Thread = {1, 2}
  Reentrant = {}
  Object = {o1, o2}
  None = None
  CountMod = 8
  NumEntries = 2
  DrainListSize = 2
  MaxEpoch = 3
  BufferDepth = 1
INVARIANTS ActionInOnePlace DrainCountExact
PROPERTY RetiredIsReclaimed
