CONSTANTS
  Path = {p}
  MaxRows = 1
  Timeout = 1
  HookEvery = 2
  Coroutine = {c}
  AskInterval = 1
  MaxSleep = 2
  MaxTime = 3
  MaxCommands = 1
  MaxCalls = 1
  MaxCatches = 1
  MaxStack = 1
SPECIFICATION Spec
PROPERTIES AgentAborted
CHECK_DEADLOCK FALSE
