\* Two lines of one product, two things that happen.
SPECIFICATION FairSpec
CONSTANTS
    Lines <- MCLines
    Ordered <- MCOrdered
    Product <- MCProduct
    MaxPickings = 2
    MaxShipments = 1
    MaxImports = 2
    Disturbances = {"no_backorder", "tracking", "quantity", "settings", "dies", "fails", "requeue"}
    MaxDisturbances = 1
    None = None
CHECK_DEADLOCK FALSE
INVARIANTS ShipmentsAccounted StoreAgrees
PROPERTIES Arrives
