CONSTANTS
  BlockSize = 2
  DataBlocks = 6
  InitialBlocks = 1
  MaxBlocksPerIo = 2
  MaxBytes = 5
  MaxIo = 4
  Conn = {c1, c2}
  NLock = 3
  MaxRegions = 2
  Starts <- Dates
  Clocks <- KindsOfClock
  Times <- TimesOfDay
  MaxDays = 3
  MaxSeconds = 2
  Fid = {f1, f2, f3}
  MaxFids = 2
  MaxMsize = 31
  Msize = {23, 26}
  NoFid = NoFid
  Walks <- SomeWalks
  MaxSessions = 1
  ReportLen = 16
  Count = {0, 7, 20}
  MaxWalk = 2
  WireNumber = {1, 258}
  WireText <- Texts
  Garbled <- NotUtf8
SPECIFICATION MCSpec
SYMMETRY Fids
INVARIANTS ExtentsConsistent LocksExact TimeIsReal FidsConsistent ReadsFaithful MessagesSurvive
PROPERTIES IsByteFile
CHECK_DEADLOCK FALSE
