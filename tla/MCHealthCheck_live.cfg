SPECIFICATION FairSpec
CONSTANTS
  Upstream = {u1}
  Worker = {w1, w2}
  ProbeLimit = 1
  DialLimit = 1
  FailThreshold = 1
  SuccessThreshold = 1
  Interval = 1
  MinInterval = 1
  MaxInterval = 1
  Jitter = 0
  BackoffNum = 8
  BackoffDen = 5
  MaxRTTAdd = 0
  Cooldown = 1
  QualityProtos = {"tcp"}
  FlowProtos = {"tcp"}
  StallingProtos = {"tcp"}
PROPERTIES HealthConverges ShutdownQuiesces
