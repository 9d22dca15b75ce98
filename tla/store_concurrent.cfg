SPECIFICATION Spec
CONSTANTS
    Pids = {q1, q2}
    Runs = {r1, r2}
    NaiveRuns = {r2}
    Procs = {c1, c2}
    Server = {}
    Commands <- AllCommands
    Flags = {"replace", "sample"}
    Delays = {TRUE, FALSE}
    MaxStops = 1
    NoRun = NoRun
    NoPid = NoPid
SYMMETRY IdsProcsSymmetry
INVARIANT OneSample
INVARIANT PidNamesRun
