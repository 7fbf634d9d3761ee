SPECIFICATION FairSpec
CONSTANTS
  t1 = t1
  ann = ann
  bob = bob
  s1 = s1
  s2 = s2
  Slugs = {s1, s2}
  Roles = {"as_staff", "client_user"}
  None = None
  Tenants = {t1, t2}
  Actors = {ann, bob}
  Requests = {r1, r2}
  Connections = {c1, c2}
  Kinds = {"list", "get", "create", "ready"}
  Present = {s1}
  Limits = {2}
  Offsets = {0}
  Assignments = {{s1}, {s2}}
  RespondFirst = TRUE
  Faults = {"crash"}
  Asks <- MCAsks
  Coordinates <- MCCoordinates
  NameRank <- MCRank
  InitialTables <- MCTables
  InitialMembers <- MCMembers
  MembershipChanges <- MCChanges
  PatchValues <- OnePatch
INVARIANTS
  NoTenantLeftBound
  StoreInv
PROPERTIES
  ReadsOwnScope
  OperatorsWriteTheirOwn
  EveryRequestEnds
CHECK_DEADLOCK FALSE
