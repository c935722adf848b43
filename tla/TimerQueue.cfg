CONSTANTS
  Ptr = {p1, p2}
  MaxSeq = 2
  MaxDelay = 2
  NoTime = none
SPECIFICATION FairSpec
INVARIANTS TimersOwned TimerfdArmed CancelIsFinal
PROPERTY EveryTimerRuns
