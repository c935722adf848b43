CONSTANTS
  Clients = {c1, c2}
  LoopThread = loop
  Func = {f1, f2, f3}
  IoChannels = {io}
  WakeupChannel = wakeup
SPECIFICATION FairSpec
INVARIANT NothingSleptOn
PROPERTIES RunsInOrder QueuedFuncRuns QuitStopsLoop
