CONSTANTS
  IP = {ip1}
  Email = {e1}
  Attempt = {a1, a2}
  None = None
  Tiers <- MCTiers
  CounterTTL = 2
  MaxCount = 3
  Failures = TRUE
SPECIFICATION FairSpec
INVARIANTS TypeOK AdmissionsBounded
PROPERTY LockoutEnds
