SPECIFICATION AccountsSpec
CONSTANTS
  Requests = {r1, r2}
  Sizes = {2, 3, 6}
  maxChunkBytes = 2
  MaxAge = 1
  Durations = {2}
  Keep = 2
  MaxFlushes = 3
  MaxClock = 2
  MaxSecrets = 3
  MaxWrites = 2
  Tabs = {t1, t2, t3}
  MaxTokens = 3
  Sources <- Pages
  Landings <- PagesToLand
  Minted = {"t1", "t2"}
  Users = {u1, u2}
  Emails = {e1, e2}
  Keys = {k1}
  Callers = {c1}
  Backends = {"memory", "postgres", "mysql", "sqlite", "pgx"}
  Shares = TRUE
  NoEmail = none
INVARIANTS NeverMixed ReadBack FormAccepted TokenOnce HydrationAgrees FormsSubmittable
PROPERTY DeviatesOnlySo
VIEW Seen
SYMMETRY AnyRequest
CHECK_DEADLOCK FALSE
