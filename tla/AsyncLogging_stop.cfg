CONSTANTS
  Msg = {m1, m2, m3}
  Huge = {}
  Cap = 2
  MaxBufs = 2
  Null = null
  rollsz_ = 1
  checkEveryN_ = 2
SPECIFICATION PipelineFairSpec
INVARIANT StopWritesEverything
CHECK_DEADLOCK FALSE
