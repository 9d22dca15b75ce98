SPECIFICATION Spec
CONSTANTS
    Deployers = {watcher, operator}
    Packages = {p1, p2}
    MaxEdits = 3
    MaxCrashes = 1
    None = None
INVARIANT SiteIsSnapshot
 
