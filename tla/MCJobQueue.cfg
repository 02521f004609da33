SPECIFICATION FairSpec
CONSTANTS
    p1 = p1
    w1 = w1
    w2 = w2
    j1 = j1
    j2 = j2
    NoJob = NoJob
    Procs = {p1}
    Workers = {w1, w2}
    Jobs = {j1, j2}
    ProcOf <- OneProcess
    Takes <- OnePool
    MaxCrash = 1
    MaxBlip = 1
INVARIANTS
    NoConcurrentExecution
    RepeatsOnlyAfterFault
PROPERTIES
    EveryJobSettles
