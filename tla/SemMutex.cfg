SPECIFICATION MutexFairSpec
CONSTANTS
  p1 = p1
  p2 = p2
  p3 = p3
  Proc = {p1, p2, p3}
  Halt = halt
  MaxVal = 2
  MaxChars = 1
  MaxQueue = 3
  reader = p1
INVARIANTS
  TypeOK
  MutualExclusion
  LockMeansEmpty
  SomebodyActive
PROPERTIES
  CountsTokens
  SomebodyGetsIn
