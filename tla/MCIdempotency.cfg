SPECIFICATION FairSpec
CONSTANTS
    Sessions = {s1, s2}
    Keys = {k1}
    Ops = {pay, payMore}
    NoRow = NoRow
    NoSession = NoSession
    MaxId = 4
INVARIANTS
    MemoryIsExact
    AnswersAreTrue
PROPERTIES
    KeepsPromise
    EveryRequestEnds
