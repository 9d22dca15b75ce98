SPECIFICATION Spec
CONSTANTS
    Pids = {q1, q2, q3}
    Runs = {r1, r2}
    NaiveRuns = {r2}
    Procs = {c1}
    Server = {}
    Commands <- AllCommands
    Flags <- AllFlags
    Delays = {TRUE, FALSE}
    MaxStops = 2
    NoRun = NoRun
    NoPid = NoPid
SYMMETRY IdsSymmetry
INVARIANT StampsMatchStatus
PROPERTY ImplementsLifecycle
