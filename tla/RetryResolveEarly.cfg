CONSTANTS
  Commands = {c1}
  Workers = {w1}
  PostIds = {p1}
  Destinations = {d1}
  Keys = {c1}
  Key <- OwnKey
  Dest <- SameDestination
  BatchLimit = 1
  None = None
SPECIFICATION Spec
PROPERTIES
  ResolvedIsNotExecuted
