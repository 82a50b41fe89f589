SPECIFICATION Spec
CONSTANTS
  Port = {p1}
  Dst = {d1, d2}
  MaxSess = 2
  MaxChan = 1
  MaxReply = 1
  ChanCap = 1
  UDPMaxFlows = 1
  UDPMaxDstPerPort = 1
  UpstreamMayFail = FALSE
SYMMETRY Symmetry
INVARIANTS NoSessionLeak
CHECK_DEADLOCK FALSE
