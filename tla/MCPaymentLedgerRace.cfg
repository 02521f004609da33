SPECIFICATION Spec
CONSTANTS
    Requests = {r1, r2}
    NoReq = NoReq
    Keys = {k1, k2}
    NoKey = NoKey
    MaxPay = 2
    NPosted = 0
    Due <- TwoYears
    MaxAmount = 3
    Posting = TRUE
    Editing = FALSE
    Deleting = FALSE
    MaxCommit = 0
    MaxAdjustment = 0
SYMMETRY Symmetry
INVARIANTS
    LedgerBalanced
