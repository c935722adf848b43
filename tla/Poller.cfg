SPECIFICATION Spec
CONSTANTS
  Channel = {c1, c2, c3}
  NoChannel = NoChannel
  Fd = {0, 1, 2}
  EventListSz = 2
SYMMETRY Symmetry
INVARIANTS PollerAsserts RegistryConsistent
PROPERTY ImplementsInterestSet
CHECK_DEADLOCK FALSE
