SPECIFICATION GobiFairSpec
CONSTANTS
  Files = {f1}
  Listened = {f1}
  QMICTL = CTL
  QMIWDS = WDS
  Ids = {i1, wda}
  NoId = NoId
  MaxTid = 2
  Wda = {f1}
  WdaId = wda
  Allowed = {"busy"}
  MaxWrites = 3
  MaxInds = 0
INVARIANTS AnswerIsOwn
PROPERTIES RequestsReturn RemovalEnds
CHECK_DEADLOCK FALSE
