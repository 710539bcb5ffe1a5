\* One consumer that is about to sleep when it is asked to stop.
CONSTANTS
  p1 = p1
  c1 = c1
  Nobody = Nobody
  Empty = Empty
  Producers = {p1}
  Consumers = {c1}
  MaxMessages = 1
SPECIFICATION FairSpec
PROPERTY StopEndsPops
CHECK_DEADLOCK FALSE
