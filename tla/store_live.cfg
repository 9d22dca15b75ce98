SPECIFICATION FairSpec
CONSTANTS
    q1 = q1
    q2 = q2
    r1 = r1
    r2 = r2
    c1 = c1
    s1 = s1
    Pids = {q1, q2}
    Runs = {r1, r2}
    NaiveRuns = {r2}
    Procs = {c1, c2, s1}
    Server = {s1}
    Commands = {"import", "watch", "withhold", "republish"}
    Flags = {"force"}
    Delays = {TRUE}
    MaxStops = 2
    NoRun = NoRun
    NoPid = NoPid
INVARIANT ForcedNeverPublished
INVARIANT NotBeforeItsTime
PROPERTY NeverBackToStaged
PROPERTY DueIsPublished
