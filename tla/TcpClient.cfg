SPECIFICATION FairSpec
CONSTANTS
  initRetryDelayMs = 1
  maxRetryDelayMs = 3
  MaxConn = 2
  MaxCalls = 4
INVARIANTS ClientAsserts SocketsOwned
PROPERTIES StopIsFinal Reconnects
CHECK_DEADLOCK FALSE
