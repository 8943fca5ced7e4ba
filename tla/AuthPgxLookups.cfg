SPECIFICATION AccountsSpec
CONSTANTS
  Requests = {r1}
  Sizes = {2}
  maxChunkBytes = 2
  MaxAge = 1
  Durations = {2}
  Keep = 2
  MaxFlushes = 1
  MaxClock = 2
  MaxSecrets = 3
  MaxWrites = 1
  Tabs = {t1}
  MaxTokens = 1
  Sources = {}
  Landings = {}
  Minted = {"t1", "t2"}
  Users = {u1, u2}
  Emails = {e1, e2}
  Keys = {k1}
  Callers = {c1}
  Backends = {"pgx"}
  Shares = FALSE
  NoEmail = none
PROPERTY KeepsPromise
CHECK_DEADLOCK FALSE
