SPECIFICATION FairSpec
CONSTANTS
  Deliveries = {d1}
  Workers = {w1, w2}
  Operators = {o1}
  Answers <- AllAnswers
  MaxAttempts = 2
  BatchSize = 1
  Troubles = 1
  Requests = 2
  None = None
INVARIANTS TypeOK OnlyRequestsStrand DeliveredIsShown DuplicatesExplained
PROPERTY DeliveriesEnd
CHECK_DEADLOCK FALSE
