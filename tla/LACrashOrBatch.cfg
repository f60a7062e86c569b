SPECIFICATION FairSpec
CONSTANTS
  p1 = p1
  p2 = p2
  p3 = p3
  Proc = {p1, p2, p3}
  Value = {p1, p2, p3}
  NumRounds = 2
  Scenario <- CrashOrBatch
  MaxBatch = 2
CHECK_DEADLOCK FALSE
INVARIANTS
  Validity
  AssertsHold
  DecisionWasProposed
PROPERTIES
  DecisionFinal
  Termination
