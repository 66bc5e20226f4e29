CONSTANTS
  Updates = {u1, u2}
  Workers = {w1, w2}
  MaxAttempts = 2
  BatchSize = 2
  None = None
  Gone = Gone
SPECIFICATION Spec
SYMMETRY Symmetry
INVARIANTS
  TypeOK
  CompletedIsProcessed
  FailedIsExhausted
  ContentIsPaidFor
