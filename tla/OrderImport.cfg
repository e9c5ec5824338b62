\* Two orders, of which one is edited and wanted; one thing goes wrong.
SPECIFICATION Spec
CONSTANTS
    Orders = {1, 2}
    MaxVersion <- MCVersions
    Accepted <- MCAccepted
    Data <- MCData
    Product <- MCProduct
    Listed <- MCListed
    AllowUpdate = TRUE
    PageSize = 1
    MaxRetries = 2
    MaxJobs = 2
    MaxTime = 1
    MaxImports = 1
    Disturbances = {"manual", "refused", "fails", "conflict", "requeue", "vacuum", "cancel", "unlink", "disconnect"}
    MaxDisturbances = 1
    None = None
CHECK_DEADLOCK FALSE
INVARIANTS NoChangeLost LinesMatch
PROPERTIES ConfirmedLinesStay
