SPECIFICATION FairSpec
CONSTANTS
  Senders = {s1, s2}
  Receivers = {r1}
  Putters = {s1}
  Host = "tx"
  N = 2
  W = 4
  IdleInHand = FALSE
  SlowHost = TRUE
  Ways = {"crash", "close", "remove"}
  MaxSends = 2
  MaxStops = 1
INVARIANTS PoolSafe
PROPERTIES SleepersWoken
