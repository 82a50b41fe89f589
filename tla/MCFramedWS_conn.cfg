SPECIFICATION FairSpec
CONSTANTS
  Writer = {w1}
  Closer = {c1}
  Size = {125, 126, 65536}
  PeerFrame <- MCPeerFrame
  MaxFrames = 3
  Room = 1
  Integer <- MCInteger
  FrameList <- MCFrameList
  SettingList <- MCSettingList
  Table <- MCTable
  FieldList <- MCFieldList
INVARIANTS CloseIsLast FramesWhole ReadsMessages H3BytesAgree
PROPERTIES CloseEnds PingsAnswered
CHECK_DEADLOCK FALSE
