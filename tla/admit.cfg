SPECIFICATION Spec
CONSTANTS
    Last = 2
    Urls = {"none", "wrong", "blocked", "dead", "malformed"}
    Titles = {"text", "number"}
    Details = {"null", "number"}
    Minimum = 2
    Total = 3
    Slow = 2
CHECK_DEADLOCK FALSE
INVARIANT MatchIsExact
INVARIANT StoredMeetsMinimum
INVARIANT NearlyWithinBudget
INVARIANT ReferencesKept
