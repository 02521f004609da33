SPECIFICATION Spec
CONSTANTS
    Requests = {r1, r2}
    NoReq = NoReq
    Keys = {k1, k2}
    NoKey = NoKey
    MaxPay = 3
    NPosted = 1
    Due <- TwoYears
    MaxAmount = 2
    Posting = TRUE
    Editing = TRUE
    Deleting = TRUE
    MaxCommit = 2
    MaxAdjustment = 3
SYMMETRY Symmetry
INVARIANTS
    AdjustmentsKeepEveryCent
PROPERTIES
    BalanceErrsOnlyAroundPostings
