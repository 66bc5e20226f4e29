SPECIFICATION FairSpec
CONSTANTS
  r1 = r1
  r2 = r2
  fb = fb
  Runs = {r1, r2}
  Platforms = {fb}
  Selections <- AllPlatforms
  Meta = {fb}
  Coordination = TRUE
  MaxAttempts = 2
  Sweeper = Sweeper
  None = None
INVARIANTS
  CoordinatedClaims
PROPERTIES
  PublishingSettles
VIEW WithoutHistory
CHECK_DEADLOCK FALSE
