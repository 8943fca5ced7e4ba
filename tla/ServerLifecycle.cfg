SPECIFICATION FairSpec
CONSTANTS
  Requests = {q1}
  MaxInits = 2
  HasCron = TRUE
  HasSidecar = TRUE
INVARIANTS
  InitGate
  WaitsForItsInit
  ShutdownStopsBackground
PROPERTY
  GatePassed
CHECK_DEADLOCK FALSE
