SPECIFICATION GobiSpec
CONSTANTS
  Files = {f1, f2}
  Listened = {f1}
  QMICTL = CTL
  QMIWDS = WDS
  Ids = {i1, i2, wda}
  NoId = NoId
  MaxTid = 2
  Wda = {}
  WdaId = wda
  Allowed = {}
  MaxWrites = 3
  MaxInds = 1
SYMMETRY IdSymmetry
INVARIANTS ClientsSafe SleepersServed OwnClient
CHECK_DEADLOCK FALSE
