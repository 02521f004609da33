SPECIFICATION PortalFairSpec
CONSTANTS
    i1 = i1
    i2 = i2
    Instances = {i1, i2}
    NoSnapshot = NoSnapshot
    MaxRun = 2
INVARIANTS
    NeverBackInTime
    CommitReplacesItsBaseline
    VerifiedMeansPublished
PROPERTY
    EveryInstanceCatchesUp
