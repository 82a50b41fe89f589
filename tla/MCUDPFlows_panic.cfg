SPECIFICATION Spec
CONSTANTS
  Port = {p1}
  Dst = {d1}
  MaxSess = 2
  MaxChan = 3
  MaxReply = 2
  ChanCap = 1
  UDPMaxFlows = 1
  UDPMaxDstPerPort = 2
  UpstreamMayFail = TRUE
INVARIANTS NoPanic
CHECK_DEADLOCK FALSE
