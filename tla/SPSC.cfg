\* Three free cells, six messages: both positions wrap around the ring.
CONSTANTS
  Producer = Producer
  Consumer = Consumer
  None = None
  N = 4
  MaxMessages = 7
SPECIFICATION FairSpec
INVARIANTS TypeOK DataRaceFree
PROPERTIES ImplementsFifo EveryPushDelivered
