CONSTANTS
  Updates = {u1}
  Workers = {w1}
  MaxAttempts = 2
  BatchSize = 1
  None = None
  Gone = Gone
SPECIFICATION Spec
INVARIANTS
  FailuresAreReclaimable
