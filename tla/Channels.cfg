\* A sequential channel under one of capacity 2 that rests after each job.
SPECIFICATION Spec
CONSTANTS
    Jobs = {1, 2, 3}
    Root = Root
    A = A
    B = B
    Nodes <- MCNodes
    Parent <- MCParent
    Path <- MCPath
    Capacity <- MCCapacity
    Throttle <- MCThrottle
    Home <- MCHome
    Rank <- MCRank
    Sequential = {B}
    CapRoot = 2
    CapA = 2
    CapB = 1
    RestA = 1
    RestB = 0
    HomeOf1 = A
    MaxTime = 1
INVARIANTS
    FlowShape
    ChannelCapacity
    FiledAsTold
    NoOversleep
PROPERTIES
    NoBusyWait
