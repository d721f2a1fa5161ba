SPECIFICATION FairSpec
CONSTANTS
  p1 = p1
  p2 = p2
  c1 = c1
  c2 = c2
  Producers = {p1, p2}
  Consumers = {c1, c2}
  Draining = {c1}
  MaxSize = 2
  MaxItems = 2
INVARIANTS NoLostWakeup
PROPERTIES ImplementsChannel EveryItemDelivered ShutdownReleases
