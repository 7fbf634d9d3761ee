SPECIFICATION Spec
CONSTANTS
  None = None
  Walkers = {w1, w2}
  MaxWrites = 2
  Limits <- MCLimits
  Claims <- MCClaims
  Slugs <- MCSlugs
  NameRank <- MCRank
  InitialRows <- MCRows
  Writable <- MCWritable
INVARIANTS
  WalkInv
  MissedBounded
PROPERTIES
  AnswersAreCurrent
  WalkEnds
CHECK_DEADLOCK FALSE
