CONSTANTS
  Size = 3
  CidCount = 4
  CidLow = FALSE
  MaxCommands = 4
SPECIFICATION NvmeSpec
INVARIANTS EveryFlushIsDurable
CHECK_DEADLOCK FALSE
