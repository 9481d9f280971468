CONSTANTS
  Thread = {t1, t2}
  Key = {"k", "l"}
  Entry = {"e", "o"}
  Overflow = {"o"}
  PageSize = 2
  Capacity = 1
  MaxLog = 5
  Plans <- MCPlans
SPECIFICATION Spec
INVARIANTS RecoveredIsCut NotifiedRecovers
PROPERTIES RecoveryEnds
CHECK_DEADLOCK FALSE
