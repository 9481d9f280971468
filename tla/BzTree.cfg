SPECIFICATION Spec
CONSTANTS
  t1 = t1
  t2 = t2
  Thread = {t1, t2}
  Key = {1, 2, 3, 4, 5, 6, 7, 8, 9, 10, 11, 12, 13}
  Payload = {1, 2}
  SplitAt = 4
  InternalMax = 3
  MAX_FREEZE_RETRY = 1
  Plan <- Plans
  UintMax = 7
INVARIANTS TreeIsDict AnswersAreTrue
PROPERTIES CallsReturn
CHECK_DEADLOCK FALSE
