\* A product of two variants, two transactions at once, one thing that goes wrong.
SPECIFICATION Spec
CONSTANTS
    Variants = {a, b}
    Workers = {w1, w2}
    MaxContents = 2
    MaxProducts = 2
    MaxIds = 14
    MaxJobs = 2
    MaxRequests = 2
    MaxImports = 1
    Disturbances = {"refused", "dies", "fails", "edited", "deleted", "variants"}
    MaxDisturbances = 1
    None = None
CHECK_DEADLOCK FALSE
INVARIANTS StateTellsId EditsAccounted
PROPERTIES PublishedIsThere
