SPECIFICATION FairSpec
CONSTANTS
  Limit = 2
  Generations = 1
  Workers = {w1, w2}
  Operators = {o1}
  BatchSize = 2
  MaxRecoveries = 1
  Troubles = 2
  Requests = 3
  None = None
INVARIANTS TypeOK OneExecutionPerJob EndedIsExecuted FailuresAreFollowedUp
PROPERTIES ImplementsChain JobsEnd
CONSTRAINT Few
CHECK_DEADLOCK FALSE
