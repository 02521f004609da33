SPECIFICATION FairSpec
CONSTANTS
    Requests = {r1, r2, r3}
    NoReq = NoReq
    Records = {x1, x2}
    NoRec = NoRec
    RawInserts = TRUE
    MaxAppend = 2
    MaxId = 4
INVARIANTS
    VerifiedWhileUntouched
    TrailExplainsValues
    RejectedOnlyWhenOvertaken
PROPERTIES
    HeadLockReleased
