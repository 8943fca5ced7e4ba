SPECIFICATION AccountsSpec
CONSTANTS
  Requests = {r1}
  Sizes = {2}
  maxChunkBytes = 2
  MaxAge = 1
  Durations = {2}
  Keep = 2
  MaxFlushes = 1
  MaxClock = 2
  MaxSecrets = 3
  MaxWrites = 1
  Tabs = {t1}
  MaxTokens = 1
  Sources <- PagesToLand
  Landings <- PagesToLand
  Minted = {"t1", "t2"}
  Users = {u1}
  Emails = {e1}
  Keys = {k1}
  Callers = {c1}
  Backends = {"sqlite"}
  Shares = FALSE
  NoEmail = none
INVARIANT SwapsSubmittable
CHECK_DEADLOCK FALSE
