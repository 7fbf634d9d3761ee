SPECIFICATION Spec
CONSTANTS
  None = None
  Migrators = {m1, m2}
  Downgrades = {0, 2, 4}
  MaxCommands = 3
  Tenants <- MCTenants
  Actors <- MCActors
  SeedRows <- MCSeed
  Pool <- MCPool
INVARIANTS
  SchemaInv
  OneCatalogPerRevision
  SeesOwnTenant
  RolesKeepTheirSurface
  ReferencesResolve
  WritesStayInTenant
PROPERTIES
  
  FailuresAreExplained
SYMMETRY Symmetry
CHECK_DEADLOCK FALSE
