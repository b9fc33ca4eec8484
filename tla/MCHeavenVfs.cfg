CONSTANTS
  File = {f, g, h}
  NoFile = NoFile
  DataBlockCount = 3
  MaxEntries = 2
  InitialBlocks = 1
  MaxLength = 2
  MaxCalls = 6
  MaxCrashes = 1
SPECIFICATION Spec
SYMMETRY Files
INVARIANTS TablesConsistent ReadYourWrites SyncedSurvives
PROPERTIES NoLeak
CHECK_DEADLOCK FALSE
