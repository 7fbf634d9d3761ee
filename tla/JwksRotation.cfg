SPECIFICATION Spec
CONSTANTS
  Calls = {v1, v2, v3}
  old = old
  new = new
  Kids = {old, new}
  None = None
  FirstKids = {old}
  TTL = 1
  FetchTimeout = 1
  MaxClock = 4
  Tokens <- MCTokens
INVARIANTS
  CacheInv
  ConvoyBounded
PROPERTIES
  VerdictsFollowProvider
  PlacesAreKept
  SingleFlight
SYMMETRY Symmetry
CHECK_DEADLOCK FALSE
