SPECIFICATION FairSpec
CONSTANTS
  Shared = {s1, s2}
  Solo = {e1}
  Callers = {c1, c2}
  Serial = TRUE
  InOrder = TRUE
  Prompt = TRUE
INVARIANTS ManagerSafe SourceFollows HeldForPeriod
PROPERTIES Manager GoesIdle
