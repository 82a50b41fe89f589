SPECIFICATION FairSpec
CONSTANTS
  Port = {p1}
  Dst = {d1}
  MaxSess = 1
  MaxChan = 3
  MaxReply = 2
  ChanCap = 1
  UDPMaxFlows = 1
  UDPMaxDstPerPort = 2
  UpstreamMayFail = TRUE
INVARIANTS SubscribedOnce
PROPERTIES QuietDrains
CHECK_DEADLOCK FALSE
