SPECIFICATION Spec
CONSTANTS
  Keys = {k1, k2, k3}
  Capacity = 2
  TTL = 1
  Renderers = {r1, r2}
  CallTimeout = 1
  MaxTime = 3
  MaxVersion = 1
  NoKey = none
INVARIANTS
  CacheConsistent
  BoundedStaleness
SYMMETRY Symmetric
