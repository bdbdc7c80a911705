CONSTANTS
  User = {u1}
  SessionId = {s1, s2, s3}
  Request = {r1, r2}
  None = None
  AccessTTL = 1
  RefreshTTL = 1
  Retention = 0
  MaxClock = 1
  Failures = FALSE
  Cleaning = FALSE
SPECIFICATION Spec
SYMMETRY Symmetry
INVARIANT OneLivePerLineage
