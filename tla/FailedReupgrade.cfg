SPECIFICATION Spec
CONSTANTS
  None = None
  Migrators = {m1}
  Downgrades = {4}
  MaxCommands = 3
  Tenants <- MCTenants
  Actors <- MCActors
  SeedRows <- MCSeed
  Pool <- MCPool
PROPERTIES
  CommandsSucceed
CHECK_DEADLOCK FALSE
