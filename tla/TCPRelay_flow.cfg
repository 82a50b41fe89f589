SPECIFICATION RelayFairSpec
CONSTANT MaxChunks = 2
INVARIANTS NoLoss
PROPERTIES EndsAfterBoth AbortReleases RemoteEndPassedOn
CHECK_DEADLOCK FALSE
