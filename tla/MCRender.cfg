SPECIFICATION RenderSpec
CONSTANTS
  MaxRestarts = 2
  BackoffCap = 3
  N = 3
INVARIANTS NoOrphan InOrder ScriptsTellTruth RestCancelled
PROPERTIES StopsEverything CrashRestarts StreamsEnd
CHECK_DEADLOCK FALSE
