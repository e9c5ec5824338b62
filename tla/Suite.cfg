\* Components that share no state, each with an instance of its own.
SPECIFICATION Spec
CONSTANTS
    peer1 = peer1
    peer2 = peer2
    Peers = {peer1, peer2}
    MaxDisturbances = 1
    Invoices = {"invoice"}
    Rules <- MCRules
    MaxTotal = 2
    InitialTree <- MCTree
    InitialRecords <- MCRecords
    MaxOnStore = 4
    MaxOwn = 1
    Customers <- MCCustomers
    OrderData <- MCOrderData
    Orders = {"o1", "o2"}
    MaxContacts = 5
    MaxSaves = 1
    Threads = {"t1", "t2"}
    V2Models = {"orders"}
    V3Models = {"customers"}
    InitialData <- MCData
    PageSize = 1
    MaxCalls = 2
    Channels <- MCChannels
    Names = {"a", "b"}
    Overrides <- MCOverrides
    Entries <- MCEntries
    MaxEntries = 2
    Transactions = {"t1", "t2", "t3"}
    MaxAgain = 1
    MaxQty = 2
    MaxPickings = 3
    MaxEdits = 2
    MaxRequeues = 1
    MaxAccidents = 1
    MaxJobs = 2
    None = None
SYMMETRY Interchangeable
CHECK_DEADLOCK FALSE
INVARIANTS
    MoneyConserved DepositsWithinOrder CategoriesAgree ContactsOfOrders
    ClientServes ChannelsOfJobs CallsShareJobs
    ServicesAccounted LogsTell ImportsTold
PROPERTIES PaidWhenPosted
