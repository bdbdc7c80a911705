CONSTANTS
  User = {u1}
  SessionId = {s1, s2, s3}
  Request = {r1, r2}
  None = None
  AccessTTL = 1
  RefreshTTL = 3
  Retention = 0
  MaxClock = 3
  MaxCalls = 3
  Failures = TRUE
  Cleaning = FALSE
SPECIFICATION ClientSpec
SYMMETRY Symmetry
INVARIANTS ClientTypeOK SequentialPageStaysSignedIn
PROPERTIES LogoutLeavesNothing CallsAdvance
CHECK_DEADLOCK FALSE
