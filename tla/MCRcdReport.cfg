CONSTANTS
    o1 = o1
    o2 = o2
    Clerks = {c1}
    Officers = {o1, o2}
    NSerials = 4
    BookLen = 2
    NDays = 2
    Amounts <- MCAmounts
    Unclear <- MCUnclear
    None = None
    Known <- MCKnown
    Books <- MCBooks
    Receipts <- MCReceipts
    Registrable <- MCRegistrable
    MaxPay = 2
    MaxAudit = 3
    Policies <- MCPolicies
    MaxLegs = 3
    MaxCancelled = 1
    PrintBooks = 2
    PrintLen = 4
    Capacity = 3
SPECIFICATION RcdSpec
INVARIANTS ExportedStayAccounted OneDayPerReceipt
PROPERTIES PrintedAsReviewed ExportedAsReviewed ExportMissesOnlyPostings ChecksKeepEveryCent
CHECK_DEADLOCK FALSE
