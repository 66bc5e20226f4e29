SPECIFICATION Spec
CONSTANTS
  r1 = r1
  r2 = r2
  fb = fb
  tg = tg
  Runs = {r1, r2}
  Platforms = {fb, tg}
  Selections <- AllPlatforms
  Meta = {fb}
  Coordination = TRUE
  MaxAttempts = 2
  Sweeper = Sweeper
  None = None
PROPERTIES
  ReviewNotRetried
CONSTRAINT Brisk Prompt
CHECK_DEADLOCK FALSE
