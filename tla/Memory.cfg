SPECIFICATION Spec
CONSTANTS
    Terminal = {t1, t2}
    MaxQueries = 3
    MaxCancels = 1
    MaxAtWork = 2
    MaxPairs = 1
    KeepRecent = 2
    EveryN = 1
SYMMETRY TerminalSymmetry
INVARIANTS
    RecentAreRemembered KeptUntilSaved LayersAgree
CHECK_DEADLOCK FALSE
