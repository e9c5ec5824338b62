\* Three jobs in the sequential channel, two of them with an eta.
SPECIFICATION Spec
CONSTANTS
    Jobs = {1, 2, 3}
    Root = Root
    A = A
    B = B
    Nodes <- MCNodes
    Parent <- MCParent
    Path <- MCPath
    Capacity <- MCCapacity
    Throttle <- MCThrottle
    Home <- MCHome
    Rank <- MCRank
    Sequential = {B}
    CapRoot = 1
    CapA = 1
    CapB = 1
    RestA = 0
    RestB = 0
    HomeOf1 = B
    MaxTime = 2
PROPERTIES
    SequentialWaits
