SPECIFICATION FairSpec
CONSTANTS
  InitialWindow = 65535
  rawH2WindowUpdateBatch = 65536
  rawH2MaxDataFrameChunk = 16384
  WriteSize = 16385
  MaxWrites = 0
  FrameSizes = {16384}
  Total = 131072
  MaxInbox = 2
  Closer = {}
  ServerAborts = FALSE
  DialCtxEnds = FALSE
PROPERTIES Delivered
CHECK_DEADLOCK FALSE
