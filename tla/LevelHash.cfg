SPECIFICATION Spec
CONSTANTS
  ka = ka
  kb = kb
  kx = kx
  kz = kz
  a1 = a1
  b1 = b1
  b2 = b2
  b3 = b3
  b4 = b4
  x1 = x1
  x2 = x2
  x3 = x3
  x4 = x4
  z1 = z1
  Key = {ka, kb, kz}
  NoKey = NoKey
  Item = {a1, b1, b2, b3, b4, z1}
  NoItem = NoItem
  KeyOf <- KeyOfItem
  FHash <- HashF
  SHash <- HashS
  Thread = {t1, t2}
  ASSOC_NUM = 1
  LevelSize = 2
  MaxResize = 1
  Plans <- MCPlans
SYMMETRY LevelSymmetry
INVARIANTS TableIsDict SteadyIsFound
CHECK_DEADLOCK FALSE
