CONSTANTS
  MaxRetries = 2
  BaseDelay = 1000
  RetryAfterCap = 60000
  RetryAfter = {0, 61, 67109}
  WordSize = 67108864
  MaxEvents = 3
  MaxCommands = 2
  Address = {a}
  NoAddress = NoAddress
  Ttl = {1, 2}
  TtlCap = 1
  MaxTime = 2
  MaxTurns = 2
  Path = {p}
  Content = {x}
  NoContent = NoContent
  MaxString = 3
  MaxDocument = 5
  MaxNumber = 5
  MaxStream = 7
SPECIFICATION MCSpec
INVARIANTS AnswerFaithful RetriesSafe FreshAddress ConversationConsistent TextsFaithful
PROPERTIES EndsAndCloses
CHECK_DEADLOCK FALSE
