\* Two jobs compete for one slot; managers leave alone the jobs that a handler
\* runs; the cron requeues started jobs too.
SPECIFICATION FairSpec
CONSTANTS
    Jobs = {j1, j2}
    Calls = {c1, c2}
    None = None
    Capacity = 1
    MaxRetries = 2
    RetryCap = 2
    MaxDisturbances = 2
    Disturbances = {"runner", "timeout", "conflict", "ignore", "handler",
                    "requeue", "button_done", "autovacuum", "started_delta", "crash"}
    Careful = TRUE
INVARIANTS
    NoDoubleExecution
PROPERTIES
    RetryNeverLost
    DoneIsFinal
    ImplementsService
    EveryJobSettles
