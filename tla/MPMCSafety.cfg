CONSTANTS
  p1 = p1
  p2 = p2
  c1 = c1
  c2 = c2
  None = None
  Producers = {p1, p2}
  Consumers = {c1, c2}
  Stoppable = {c1, c2}
  N = 2
  MaxMessages = 2
SPECIFICATION Spec
INVARIANTS TypeOK DataRaceFree
PROPERTY ImplementsFifo
SYMMETRY ThreadSymmetry
CHECK_DEADLOCK FALSE
