SPECIFICATION ScheduleSpec
CONSTANTS
    Procs = {p1, p2}
    Admin = Admin
    Offset = 2
    DbOffset = 2
    Day = 4
    Month = 12
    BackupAt = 3
    AccrualAt = 2
    Window = 1
    Sleep = 1
    MaxWork = 1
    StaleJob = 1
    MaxManual = 1
    Manual = {"accrual"}
    MaxJobs = 2
    StaleLock = 0
    Keep = 2
    Existing = 1
    MaxRuns = 2
    MaxFault = 1
    MaxTime = 2
INVARIANTS
    OneSchedulePerProcess
    SecondAccrualExplained
    OverlapsAreExplained
    NewestDumpsKept
SYMMETRY Symmetry
CHECK_DEADLOCK FALSE
