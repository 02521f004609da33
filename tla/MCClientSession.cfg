SPECIFICATION FairClientSpec
CONSTANTS
    Workers = {w1}
    UI = UI
    None = None
    MaxSession = 2
    MaxToken = 2
    MaxAge = 1
INVARIANTS AtMostOneEffect HonouredSessionIsKept
PROPERTIES GrantsAreNeeded EveryCallEnds DeadSessionEndsAtLogin
