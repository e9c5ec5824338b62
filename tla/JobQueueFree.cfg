\* Managers requeue and set done whatever they like.
SPECIFICATION Spec
CONSTANTS
    Jobs = {j1, j2}
    Calls = {c1, c2}
    None = None
    Capacity = 1
    MaxRetries = 0
    RetryCap = 0
    MaxDisturbances = 1
    Disturbances = {"runner", "timeout", "conflict", "ignore", "handler",
                    "button_done", "requeue", "started_delta", "autovacuum",
                    "crash"}
    Careful = FALSE
SYMMETRY Symmetry
INVARIANTS
    ViewConverges
    RunningIsFiled
    CapacityRespected
