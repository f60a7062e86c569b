SPECIFICATION Spec
CONSTANTS
    a = a
    b = b
    m1 = m1
    m2 = m2
    Endpoint = {a, b}
    Msg = {m1, m2}
    SenderOf <- FromOneEnd
    MaxBudget = 1
    kOutgoingMessageCap = 1
    EmptyRetries = 0
    Environment <- FaultAndStopOrTwo
INVARIANT
    IdsAreThoseQueued
PROPERTY
    ImplementsPerfectLink
\* A link comes to rest: messages delivered or given up, handlers not armed again.
CHECK_DEADLOCK FALSE
