SPECIFICATION Spec
CONSTANTS
  Requests = {r1, r2}
  Buffers = {b1, b2, b3, b4}
  NoBuf = nobuf
  MaxResolves = 2
  KeepsEarlier = TRUE
SYMMETRY Symmetry
INVARIANT
  BodyIntact
CHECK_DEADLOCK FALSE
