SPECIFICATION FairSpec
CONSTANTS
    MultiplierNum = 5
    MultiplierDen = 2
    MaxTimeout = 8
    kMaxTicksDuration = 4
    TickDuration = 2
    Timeout = {1, 3}
    MaxElapsed = 5
    MaxTimers = 2
    LastArrival = 3
    MaxTicks = 26
INVARIANTS
    Punctual
    OneTimerPerID
    AtMostOneLateFire
PROPERTY
    EveryTimerSettles
\* The service may be stopped for good, and the bounded clock stops.
CHECK_DEADLOCK FALSE
