SPECIFICATION LiveSpec
CONSTANTS
    w1 = w1
    w2 = w2
    Watchers = {w1, w2}
    NoWatcher = NoWatcher
    Last = 2
    Natures = {"fine", "refused", "bad", "raising", "naive", "unbindable"}
    Renames = FALSE
    Delayed = FALSE
    Events = {"kill", "term", "interrupt", "full", "cli", "unlock"}
    MaxFaults = 1
INVARIANT OneWatcher
INVARIANT LockFollowsHolder
INVARIANT LoggedOnce
INVARIANT ServedIsWhole
PROPERTY TermStops
