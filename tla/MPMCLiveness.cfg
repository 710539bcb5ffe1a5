\* Producers that push concurrently and one consumer that never stops popping.
CONSTANTS
  p1 = p1
  p2 = p2
  c1 = c1
  None = None
  Producers = {p1, p2}
  Consumers = {c1}
  Stoppable = {}
  N = 2
  MaxMessages = 2
SPECIFICATION FairSpec
PROPERTY EveryPushDelivered
