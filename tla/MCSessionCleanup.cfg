CONSTANTS
  User = {u1, u2}
  SessionId = {s1, s2}
  Request = {r1}
  None = None
  AccessTTL = 1
  RefreshTTL = 1
  Retention = 0
  MaxClock = 2
  Failures = TRUE
  Cleaning = TRUE
SPECIFICATION FairSpec
INVARIANT CleanupAuditsWhatItDeletes
PROPERTIES OnlyOwnerRevokes DeadRowsCollected
