SPECIFICATION Spec
CONSTANTS
  c1 = c1
  c2 = c2
  c3 = c3
  o1 = o1
  o2 = o2
  Callers = {c1, c2, c3}
  Owners = {o1, o2}
  Owner <- SharedName
  Judges = {j1}
  Intents = {i1}
  MaxGeneration = 3
  None = None
SYMMETRY Symmetric
INVARIANTS TypeOK WritesArePaidFor VersionsNameStates OneWriter
PROPERTY ImplementsAuthority
