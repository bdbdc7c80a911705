CONSTANTS
  alice = alice
  bob = bob
  User <- MCAdmin
  Perm = {1, 2, 3}
  Code <- MCCatalogueCode
  CodeOf <- CatalogueCodes
  Seeded = {1}
  InitialGrants <- CatalogueGrants
  Request = {r1, r2}
  None = None
  CacheTTL = 2
  Failures = TRUE
SPECIFICATION FairSpec
INVARIANT CatalogueConsistent
PROPERTY CacheHeals
