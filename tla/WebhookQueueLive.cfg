CONSTANTS
  Updates = {u1, u2}
  Workers = {w1}
  MaxAttempts = 3
  BatchSize = 2
  None = None
  Gone = Gone
SPECIFICATION FairSpec
INVARIANTS
  OneContent
PROPERTIES
  FinishedIsFinal
  UpdatesSettle
