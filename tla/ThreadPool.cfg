CONSTANTS
  Workers = {w1, w2}
  Producers = {p1, p2}
  Task = {x1, x2, x3, x4}
  NoTask = none
  MaxQueueSz = 2
  Nested = TRUE
SPECIFICATION FairSpec
INVARIANTS NoSleeper StoppedCleanly
PROPERTIES StopReleasesAll QueuedTaskIsTaken
CHECK_DEADLOCK FALSE
