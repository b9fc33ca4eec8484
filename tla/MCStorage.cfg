CONSTANTS
  DataBlockCount = 5
  BitCount = 8
  BitsPerBlock = 4
  BitmapBlocks = 2
  MaxCount = 3
  Size = 3
  CidCount = 4
  CidLow = FALSE
  MaxCommands = 4
SPECIFICATION MCSpec
INVARIANTS FreeCountExact CleanIsOnDisk RingsConsistent SafeUntilTimeout
PROPERTIES CallReturns AbstractSpec CommandReturns
CHECK_DEADLOCK FALSE
