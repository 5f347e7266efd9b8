CONSTANTS
  SendThreads = {s1, s2}
  DieSenders = {}
  Size = 2
  W = 4
  MaxSends = 5
SPECIFICATION RingFairSpec
INVARIANTS RingSafe
PROPERTIES FifoSpec AcceptedIsHandled
CHECK_DEADLOCK FALSE
