SPECIFICATION Spec
CONSTANTS
  NoTag = NoTag
  Thread = {t1, t2, t3}
  Tag = {g1, g2}
  Plans <- RaceAndChain
  NumEntries = 2
  MaxOverflow = 2
  MaxAddress = 3
SYMMETRY IndexSymmetry
INVARIANTS OneFinalEntry NoRecordLost NotFoundIsTrue BucketsAccountedFor
CHECK_DEADLOCK FALSE
