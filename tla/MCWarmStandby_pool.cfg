SPECIFICATION FairSpec
CONSTANTS
  u1 = u1
  u2 = u2
  Flow = {f1, f2}
  Ensurer = {g1}
  Serving = {u1}
  MaxConn = 3
  WarmStandbyN = 1
  DialLimit = 1
  Keepalive = TRUE
  Transports = {"pong", "h2", "h3"}
  Pool <- MCPool
  Protos <- TCPOnly
INVARIANTS ExactlyOneOwner FreshHandoff DialSlotsExact
PROPERTIES Restocks ShutdownEnds
