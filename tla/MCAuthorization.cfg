CONSTANTS
  alice = alice
  bob = bob
  User <- MCUser
  Perm = {1, 2, 3, 4}
  Code <- MCDelegateCode
  CodeOf <- DelegateCodes
  Seeded = {1, 2, 3}
  InitialGrants <- DelegateGrants
  Request = {r1, r2}
  None = None
  CacheTTL = 1
  Failures = FALSE
SPECIFICATION Spec
SYMMETRY Symmetry
INVARIANTS TypeOK NoEscalation
