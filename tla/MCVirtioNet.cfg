CONSTANTS
  Size = 3
  IdxSpace = 6
  Buffer = {b1, b2, b3, b4}
  NoBuffer = NoBuffer
  PoolSize = 2
  Frame = {"f", "g"}
SPECIFICATION Spec
SYMMETRY Buffers
INVARIANTS DescriptorsAccounted BuffersConsistent PoolStaysPosted
PROPERTIES FramesInOrder
CHECK_DEADLOCK FALSE
