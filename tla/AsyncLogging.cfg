CONSTANTS
  Msg = {m1, m2, h}
  Huge = {h}
  Cap = 1
  MaxBufs = 2
  Null = null
  rollsz_ = 1
  checkEveryN_ = 2
SPECIFICATION PipelineFairSpec
INVARIANTS MessagesConserved SparesSuffice NoSleepOnFullBuffer
INVARIANTS RolledInTime FlushedWhenIdle
PROPERTY EveryMessageWritten
CHECK_DEADLOCK FALSE
