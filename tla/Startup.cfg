CONSTANTS
  Process = {p1, p2, p3, p4}
  Configured = {p1, p2, p3}
  Passworded = {p1, p2, p4}
  MaxKills = 1
SPECIFICATION FairSpec
INVARIANTS TypeOK ServingIsReady SeedConflictsBounded
PROPERTY StartEnds
