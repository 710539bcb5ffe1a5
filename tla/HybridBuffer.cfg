\* Inline messages of at most 2 bytes; blocks of 3 (reserved), 4 (spilled) and
\* 5 bytes (grown).
CONSTANTS
  m1 = m1
  m2 = m2
  x = x
  y = y
  b1 = b1
  b2 = b2
  b3 = b3
  Objects = {m1, m2}
  Bytes = {x, y}
  Lengths = {0, 1, 3}
  Reservations = {0, 1, 3}
  Blocks = {b1, b2, b3}
  inline_capacity = 2
  MaxSize = 5
  nullptr = nullptr
  Absent = Absent
SPECIFICATION Spec
INVARIANTS TypeOK Ownership
PROPERTY ImplementsMessage
SYMMETRY Symmetry
