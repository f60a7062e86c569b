SPECIFICATION Spec
CONSTANTS
  p1 = p1
  p2 = p2
  p3 = p3
  Proc = {p1, p2, p3}
  Value = {p1, p2, p3}
  NumRounds = 1
  Scenario <- OneRound
  MaxBatch = 1
SYMMETRY Proposers
CHECK_DEADLOCK FALSE
INVARIANTS
  TypeOK
  Comparability
  AcksAreDistinct
  VectorsAreSets
