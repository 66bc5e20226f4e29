SPECIFICATION Spec
CONSTANTS
  r1 = r1
  r2 = r2
  fb = fb
  tg = tg
  Runs = {r1, r2}
  Platforms = {fb, tg}
  Selections <- AnySelection
  Meta = {fb}
  Coordination = FALSE
  MaxAttempts = 2
  Sweeper = Sweeper
  None = None
SYMMETRY RunSymmetry
INVARIANTS
  MetaEffectAccounted
  KeysNeverRepeat
  PublishedIsReal
PROPERTIES
  ImplementsLedger
CONSTRAINT Brisk TwoAtATime OneHidden
CHECK_DEADLOCK FALSE
