SPECIFICATION Spec
CONSTANTS
  Thread = {1, 2}
  Reentrant = {2}
  Object = {o1, o2, o3}
  None = None
  CountMod = 8
  NumEntries = 2
  DrainListSize = 2
  MaxEpoch = 4
  BufferDepth = 0
SYMMETRY ObjectSymmetry
INVARIANTS TypeOK SafeReclaim
PROPERTY RefinesSafeReclamation
