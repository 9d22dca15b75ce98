SPECIFICATION RateSpec
CONSTANTS
    Prefixes = {k1}
    Ips = {i1}
    Agents = {a1}
    NoPrefix = NoPrefix
    Endpoints = {"packages", "sample"}
    PerDay = 1
    Burst = 1
    IpPerDay = 2
    CatalogPerDay = 1
    AgentPerDay = 1
    Second = 2
    Seconds = 2
    Faults = {"restart", "crash", "lose"}
    MaxRows = 3
    MaxLost = 1
    MaxRestarts = 1
    PurgeDays = {2}
INVARIANT WindowCap
INVARIANT RetryAfterIsNear
INVARIANT RefusedOnlyWhenFull
