SPECIFICATION Spec
CONSTANTS
    Servers = {s1, s2}
    Cli = cli
    Op = op
    Last = 2
    MaxCommits = 2
    MaxKills = 1
    MaySignal = TRUE
    Hole = Hole
    None = None
    Dead = Dead
PROPERTY BackupIsOneState
PROPERTY RestoreIsExact
 
