SPECIFICATION FairSpec
CONSTANTS
  Producer = {a, b}
  Worker = {w1, w2}
  MaxCalls = 3
CHECK_DEADLOCK FALSE
INVARIANTS
  AtMostOneRun
  CounterExact
  NoLostTask
  ReferencesExact
  RunsInOrder
PROPERTY
  EveryTaskRuns
