\* Two stores, two products, both ways to find what changed.
SPECIFICATION FairSpec
CONSTANTS
    Shop = Shop
    Outlet = Outlet
    None = None
    Channels = {Shop, Outlet}
    Products = {1, 2}
    Listings <- MCListings
    ByVariant <- MCByVariant
    Quantities = {0, 4}
    Settings <- MCSettings
    InitialSetting <- MCAll
    AuditModes = {TRUE, FALSE}
    ChunkSize = 1
    MaxJobs = 1
    MaxTime = 2
    MaxChanges = 1
    Disturbances = {"button", "export", "bulk", "abort", "refused", "vacuum", "patience"}
    MaxDisturbances = 1
CHECK_DEADLOCK FALSE
INVARIANTS NoLevelForgotten
PROPERTIES StoresCatchUp 
