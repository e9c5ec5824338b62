\* The list of the store that was imported first, two transactions at once, one thing that goes wrong.
SPECIFICATION Spec
CONSTANTS
    MaxRecords = 3
    MaxLists = 3
    Workers = {w1, w2}
    MaxVersions = 2
    MaxJobs = 2
    MaxRequests = 2
    MaxImports = 1
    Disturbances = {"refused", "unanswered", "breaks", "missing", "staff"}
    MaxDisturbances = 1
    None = None
SYMMETRY Symmetry
CHECK_DEADLOCK FALSE
INVARIANTS FlagTold ListsKnown
