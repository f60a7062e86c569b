SPECIFICATION FairSpec
CONSTANTS
    NumMessages = 7
    NumProposals = 8
    kNumMessages = 2
    kMaxNumProposalsInMessage = 3
    PerMessage = 2
    NetworkSize = 3
    kLinkPacketLimit = 18
    kBatchSize = 2
INVARIANTS
    FIFOLogCounts
    DecisionsLoggedInOrder
PROPERTY
    EverythingIsLogged
