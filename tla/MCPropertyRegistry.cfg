SPECIFICATION Spec
CONSTANTS
    Requests = {r1, r2}
    NoReq = NoReq
    Users = {u1, u2}
    Props = {p1, p2}
    NoRow = NoRow
    TDs = {t1, t2}
    NoTD = NoTD
    Conns = {c1, c2}
    NoConn = NoConn
    DuplicatesOn = TRUE
    Existing = 1
    MaxHead = 3
    MaxDepth = 2
SYMMETRY Symmetry
INVARIANTS
    SaversHoldTheirLock
    UndoneOnce
PROPERTIES
    EditsReplaceWhatTheySaw
    SharedUnverifiedOnlyByRestore
CHECK_DEADLOCK FALSE
