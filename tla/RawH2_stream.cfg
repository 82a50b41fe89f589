SPECIFICATION FairSpec
CONSTANTS
  InitialWindow = 65535
  rawH2WindowUpdateBatch = 65536
  rawH2MaxDataFrameChunk = 16384
  WriteSize = 16385
  MaxWrites = 1
  FrameSizes = {16384}
  Total = 20000
  MaxInbox = 1
  Closer = {k1, k2}
  ServerAborts = TRUE
  DialCtxEnds = TRUE
INVARIANTS WindowConserved
PROPERTIES CloseEndsReader Delivered
CHECK_DEADLOCK FALSE
