CONSTANTS
  Size = 3
  CidCount = 4
  CidLow = TRUE
  MaxCommands = 4
SPECIFICATION NvmeSpec
INVARIANTS NewEntrySeen
CHECK_DEADLOCK FALSE
