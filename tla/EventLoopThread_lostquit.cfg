CONSTANTS
  Owner = owner
  LoopThread = loop
  None = none
  Func = {f1, f2}
  IoChannels = {}
  WakeupChannel = wakeup
SPECIFICATION TimedSpec
PROPERTY DtorFinishes
