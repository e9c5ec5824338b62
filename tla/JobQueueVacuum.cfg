\* One job, set done, requeued, and collected before it has run again.
SPECIFICATION Spec
CONSTANTS
    Jobs = {j1}
    Calls = {c1}
    None = None
    Capacity = 1
    MaxRetries = 1
    RetryCap = 1
    MaxDisturbances = 2
    Disturbances = {"requeue", "autovacuum"}
    Careful = TRUE
PROPERTIES
    VacuumsDoneJobs
