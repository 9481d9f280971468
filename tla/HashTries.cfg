CONSTANTS
  t1 = t1
  t2 = t2
  Thread = {t1, t2}
  Key = {0, 2, 4}
  RootArraySize = 2
  ArraySize = 2
  MaxLevel = 3
  FailLimit = 20
  MaxNode = 8
  Plans <- MCPlans
SPECIFICATION Spec
INVARIANTS EveryKeyFound ResultsAreTrue NodeInOnePlace
PROPERTIES CallsReturn
CHECK_DEADLOCK FALSE
