SPECIFICATION Spec
CONSTANTS
  p1 = p1
  p2 = p2
  p3 = p3
  Proc <- Trio
  Limit <- OneSource
  Mortal = {p1}
SYMMETRY Relayers
CHECK_DEADLOCK FALSE
INVARIANTS
  TypeOK
  UniformMajority
  AcksAreDistinctRelays
  RecordMatchesFifo
  PromisesMatchDeliveries
  AgreementAtRest
PROPERTY
  ImplementsService
