SPECIFICATION Spec
CONSTANTS
  Upstream = {u1}
  Worker = {w1, w2, w3}
  ProbeLimit = 1
  DialLimit = 1
  FailThreshold = 2
  SuccessThreshold = 2
  Interval = 1
  MinInterval = 1
  MaxInterval = 2
  Jitter = 0
  BackoffNum = 8
  BackoffDen = 5
  MaxRTTAdd = 1
  Cooldown = 1
  QualityProtos = {"tcp"}
  FlowProtos = {"tcp"}
  StallingProtos = {"tcp"}
SYMMETRY Symmetry
INVARIANTS TypeOK OneCheckPerEndpoint SlotsExact HealthyNotCoolingDown CountersCoherent
PROPERTIES ImplementsStatus NoProbesNoRecovery RecoveryIsFresh
