SPECIFICATION FairSpec
CONSTANTS
    None = None
    Requests = {r1, r2, r3}
    Names = {n1}
    Keys = {k1}
    Values = {v1, v2}
    InitialContents <- MCInitialContents
INVARIANTS
    StoreTypeOK
    TimeoutMeansInterference
PROPERTIES IsVerifiedWrite EveryCallReturns
CHECK_DEADLOCK FALSE
