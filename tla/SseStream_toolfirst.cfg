SPECIFICATION Spec
CONSTANTS
  ToolIndex <- MCToolIndex
  Chunks <- MCChunks
  Capacity = 2
  MaxBase = 2
INVARIANT
  BlocksInsideMessage
