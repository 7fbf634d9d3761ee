SPECIFICATION Spec
CONSTANTS
  t1 = t1
  ann = ann
  bob = bob
  s1 = s1
  s2 = s2
  Slugs = {s1, s2}
  Roles = {"as_staff", "client_user"}
  None = None
  Tenants = {t1}
  Actors = {ann}
  Requests = {r1, r2, r3}
  Connections = {c1, c2}
  Kinds = {"list", "get", "create", "patch"}
  Present = {s1}
  Limits = {1, 2}
  Offsets = {0, 1}
  Assignments = {{}}
  RespondFirst = FALSE
  Faults = {"crash", "connection"}
  Asks <- MCAsks
  Coordinates <- MCCoordinates
  NameRank <- MCRank
  InitialTables <- MCTables
  InitialMembers <- MCMembers
  MembershipChanges <- MCChanges
  PatchValues <- MCPatches
INVARIANTS
  TypeOK
  CoordinatesPaired
  AnswersMatchTable
PROPERTIES
  OnlySuppliedChange
  ImplementsStore
SYMMETRY Symmetry
CHECK_DEADLOCK FALSE
