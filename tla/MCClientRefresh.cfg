CONSTANTS
  User = {u1}
  SessionId = {s1, s2, s3}
  Request = {r1, r2}
  None = None
  AccessTTL = 1
  RefreshTTL = 2
  Retention = 0
  MaxClock = 1
  MaxCalls = 3
  Failures = FALSE
  Cleaning = FALSE
SPECIFICATION ClientSpec
SYMMETRY Symmetry
INVARIANT PageStaysSignedIn
CHECK_DEADLOCK FALSE
