CONSTANTS
  Path = {p}
  MaxRows = 1
  Timeout = 1
  HookEvery = 2
  Coroutine = {}
  AskInterval = 1
  MaxSleep = 2
  MaxTime = 2
  MaxCommands = 2
  MaxCalls = 2
  MaxCatches = 1
  MaxStack = 1
  Printable = {"x"}
  MaxLine = 3
  MaxParams = 2
  MaxKeys = 6
  Block = {b1, b2}
  MaxSize = 3
  LuaLimit = 1
SPECIFICATION MCSpec
INVARIANTS LocksConsistent Audited ShowsLine Accounted
PROPERTIES AgentsReadOnly
CHECK_DEADLOCK FALSE
