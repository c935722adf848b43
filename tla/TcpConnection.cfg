CONSTANTS
  User = {u1, u2}
  HighWaterMark = 2
  MaxWork = 1
SPECIFICATION FairSpec
INVARIANTS LifetimeAsserts NoDanglingThis OutputFirst
PROPERTIES CloseIsCleanedUp ShutdownCompletes
\* The model ends when the connection is deleted or an assertion fails.
CHECK_DEADLOCK FALSE
