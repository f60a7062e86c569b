SPECIFICATION FairSpec
CONSTANTS
    Input = {f1, f2, f3}
INVARIANTS
    OneSideCallsBack
    ResultIsRight
PROPERTY
    GetReturns
