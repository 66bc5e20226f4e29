CONSTANTS
  Commands = {c1, c2}
  Workers = {w1, w2}
  PostIds = {p1}
  Destinations = {d1}
  Keys = {c1, c2}
  Key <- OwnKey
  Dest <- SameDestination
  BatchLimit = 2
  None = None
SPECIFICATION Spec
SYMMETRY AllSymmetry
INVARIANTS
  TypeOK
  AtMostOneWrite
  EffectAccounted
  SuccessIsAuthentic
  RowsAgree
  NeverStuck
PROPERTIES
  TerminalIsFinal
  BarrierIsFenced
