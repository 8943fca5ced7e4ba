SPECIFICATION Spec
CONSTANTS
  Requests = {r1, r2}
  Buffers = {b1, b2, b3, b4}
  NoBuf = nobuf
  MaxResolves = 2
  KeepsEarlier = FALSE
SYMMETRY Symmetry
INVARIANTS
  PoolConserved
  BodyIntact
  AnsweredOnceThenAfter
CHECK_DEADLOCK FALSE
