CONSTANTS
  File = {f1, f2}
  NoFile = NoFile
  DataBlockCount = 3
  MaxEntries = 2
  InitialBlocks = 1
  MaxLength = 2
  MaxCalls = 6
  MaxCrashes = 1
SPECIFICATION Spec
SYMMETRY Files
CHECK_DEADLOCK FALSE
INVARIANTS GrowthCrashSafe
