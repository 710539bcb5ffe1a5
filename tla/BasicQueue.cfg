\* Two producers and two consumers, stopped at any time.
CONSTANTS
  p1 = p1
  p2 = p2
  c1 = c1
  c2 = c2
  Nobody = Nobody
  Empty = Empty
  Producers = {p1, p2}
  Consumers = {c1, c2}
  MaxMessages = 2
SPECIFICATION FairSpec
INVARIANTS TypeOK DrainedBeforeStop
PROPERTIES ImplementsFifo EveryPushDelivered
CHECK_DEADLOCK FALSE
