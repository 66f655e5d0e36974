SPECIFICATION FairSpec
CONSTANTS
  ToolIndex <- MCToolIndex
  Chunks <- MCChunks
  Capacity = 2
  MaxBase = 2
INVARIANTS
  TypeOK
  TextAndThinkingInPlace
  EndsOnce
PROPERTIES
  ClosedIndexStaysClosed
  DisconnectReleasesUpstream
  StreamEnds
