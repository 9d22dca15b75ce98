SPECIFICATION FairSpec
CONSTANTS
    Agents = {a1}
    Readers = {r1}
    Tasters = {t1}
    Pool = 1
    AsHashed = {1}
    MaxEdits = 2
    MaxRequests = 2
    None = None
CHECK_DEADLOCK FALSE
INVARIANT ServedWasPublished
INVARIANT TamperCheck
INVARIANT AnsweredAsLogged
PROPERTY EveryoneAnswered
