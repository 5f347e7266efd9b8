CONSTANTS
  Senders = {s1}
  CacheNR = 2
  MaxOpens = 2
  MaxMsgs = 3
  EarlyPeer = FALSE
  CloseInOpen = FALSE
  SendInClose = FALSE
SPECIFICATION FairSpec
INVARIANTS ChannelSafe NoLeak OpenHandshake
PROPERTIES CloseReturns
CHECK_DEADLOCK FALSE
