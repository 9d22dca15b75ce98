SPECIFICATION FairSpec
CONSTANTS
    k1 = k1
    g1 = g1
    t1 = t1
    t2 = t2
    o1 = o1
    Keys = {k1}
    Guesses = {g1}
    Threads = {t1, t2}
    Operators = {o1}
    NoKey = NoKey
    Prefix <- SharedPrefix
    Lives = {1, 3}
    Life = 3
    TTL = 1
    Prompt = TRUE
INVARIANT RevocationTakesEffect
INVARIANT InForceNotRefused
INVARIANT GuessNeverAccepted
PROPERTY RevokedIsRefused
