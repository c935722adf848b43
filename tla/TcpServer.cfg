CONSTANTS
  Owner = owner
  LoopThread = loop
  None = none
  Func <- Functors
  IoChannels = {}
  WakeupChannel = wakeup
  Conn = {c1, c2}
  MaxFds = 3
SPECIFICATION ServerFairSpec
INVARIANTS LoopValidUntilQuit MembersSafe
INVARIANTS DescriptorsKept ConnsDestroyed
PROPERTIES StartsAndJoins BacklogServed
