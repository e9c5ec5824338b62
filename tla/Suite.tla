------------------------------- MODULE Suite -------------------------------
(* Instances of the components that share no state with one another: the   *)
(* first state chooses the component, the variables of the others stay     *)
(* None.                                                                   *)
EXTENDS Integers, Sequences, FiniteSets

CONSTANTS
    Peers,    \* what may be interchanged: deposits, jobs, services, imports
    MaxDisturbances,   \* bound, of each component
    Invoices, Rules, MaxTotal,                       \* of Deposits
    InitialTree, InitialRecords, MaxOnStore, MaxOwn, \* of Categories
    Customers, OrderData, Orders, MaxContacts, MaxSaves,   \* of Customers
    Threads, V2Models, V3Models, InitialData, PageSize, MaxCalls,   \* of StoreClient
    Channels, Names, Overrides, Entries, MaxEntries, \* of JobFunctions
    Transactions, MaxAgain,                          \* of JobIdentity
    MaxQty, MaxPickings, MaxEdits,                   \* of ServiceTransfers
    MaxRequeues, MaxAccidents,                       \* of Logs
    MaxJobs,                                         \* of ChannelImports
    None

VARIABLES
    part,
    order, deposit, invoice, entries, peak, unchecked, loose,
    store, jobs, runs, disturbed,
    records, import, export, due, excused,
    profiles, contacts, orders, warned, unseen,
    held, call, owner, builder, calls, sent, listing,
    channel, function, row, renamed, config, tree,
    trans, work, again, missed, left,
    sale, qty, delivered, moves, uncovered, dropped, edits,
    job, log, hooks, outcomes, written, record, byHand, wasDone, rerun,
    requeues, accidents, lost,
    active, menus, syncing, doneJob, cron, phase, found, waits, retried,
    beside, latest

-----------------------------------------------------------------------------
Deposit == INSTANCE Deposits WITH
    Deposits <- Peers, Disturbances <- {"batch", "reset"}

ASSUME DepositsGiven == Deposit!DepositsAssumption

Category == INSTANCE Categories WITH
    Contents <- {"a", "b"}, InitialStore <- InitialTree,
    Disturbances <- {"add", "move", "remove", "refused", "create", "edit", "unlink", "delete"}

Customer == INSTANCE Customers WITH
    Emails <- {"x", "y"}, InitialStore <- Customers,
    Disturbances <- {"change", "leave", "refused"}

Client == INSTANCE StoreClient WITH
    InitialStore <- InitialData, Bodies <- {"b"},
    Disturbances <- {"remove", "refused"}

ASSUME ClientGiven == Client!StoreClientAssumption

Functions == INSTANCE JobFunctions WITH Jobs <- {"j"}

ASSUME FunctionsGiven == Functions!JobFunctionsAssumption

Identity == INSTANCE JobIdentity WITH Jobs <- Peers

ASSUME IdentityGiven == Identity!JobIdentityAssumption

Service == INSTANCE ServiceTransfers WITH Lines <- Peers

ASSUME ServicesGiven == Service!ServiceTransfersAssumption

Log == INSTANCE Logs WITH MaxAcc <- MaxAccidents

ASSUME LogsGiven == Log!LogsAssumption

Import == INSTANCE ChannelImports WITH Imports <- Peers

-----------------------------------------------------------------------------
(* The variables of one component, those that several have, and what they  *)
(* are in a run of another.                                                *)
OfDeposits == <<order, deposit, invoice, entries, unchecked, loose>>
OfCategories == <<records, import, export, due, excused>>
OfCustomers == <<profiles, contacts, orders, warned, unseen>>
OfClient == <<held, call, owner, builder, calls, sent, listing>>
OfFunctions == <<channel, function, renamed, config, tree>>
OfIdentity == <<trans, work, again, missed, left>>
OfServices == <<sale, qty, delivered, moves, uncovered, dropped, edits>>
OfLog == <<job, log, hooks, outcomes, written, record, byHand, wasDone,
    rerun, requeues, accidents, lost>>
OfImports == <<active, menus, syncing, doneJob, cron, phase, found, waits,
    retried, beside, latest>>

vars == <<part, store, jobs, runs, disturbed, peak, row,
          OfDeposits, OfCategories, OfCustomers, OfClient,
          OfFunctions, OfIdentity, OfServices, OfLog, OfImports>>

NoDeposits ==
    /\ order = None /\ deposit = None /\ invoice = None /\ entries = None
    /\ unchecked = None /\ loose = None
NoCategories ==
    /\ records = None /\ import = None /\ export = None /\ due = None
    /\ excused = None
NoCustomers ==
    /\ profiles = None /\ contacts = None /\ orders = None /\ warned = None
    /\ unseen = None
NoClient ==
    /\ held = None /\ call = None /\ owner = None /\ builder = None
    /\ calls = None /\ sent = None /\ listing = None
NoFunctions ==
    /\ channel = None /\ function = None /\ renamed = None /\ config = None
    /\ tree = None
NoIdentity ==
    /\ trans = None /\ work = None /\ again = None /\ missed = None
    /\ left = None
NoServices ==
    /\ sale = None /\ qty = None /\ delivered = None /\ moves = None
    /\ uncovered = None /\ dropped = None /\ edits = None
NoLog ==
    /\ job = None /\ log = None /\ hooks = None /\ outcomes = None
    /\ written = None /\ record = None /\ byHand = None /\ wasDone = None
    /\ rerun = None /\ requeues = None /\ accidents = None /\ lost = None
NoImports ==
    /\ active = None /\ menus = None /\ syncing = None /\ doneJob = None
    /\ cron = None /\ phase = None /\ found = None /\ waits = None
    /\ retried = None /\ beside = None /\ latest = None

Init ==
    \/ /\ part = "deposits" /\ Deposit!Init
       /\ store = None /\ jobs = None /\ runs = None /\ row = None
       /\ NoCategories /\ NoCustomers /\ NoClient /\ NoFunctions
       /\ NoIdentity /\ NoServices /\ NoLog /\ NoImports
    \/ /\ part = "categories" /\ Category!Init
       /\ runs = None /\ peak = None /\ row = None
       /\ NoDeposits /\ NoCustomers /\ NoClient /\ NoFunctions
       /\ NoIdentity /\ NoServices /\ NoLog /\ NoImports
    \/ /\ part = "customers" /\ Customer!Init
       /\ peak = None /\ row = None
       /\ NoDeposits /\ NoCategories /\ NoClient /\ NoFunctions
       /\ NoIdentity /\ NoServices /\ NoLog /\ NoImports
    \/ /\ part = "client" /\ Client!Init
       /\ jobs = None /\ runs = None /\ peak = None /\ row = None
       /\ NoDeposits /\ NoCategories /\ NoCustomers /\ NoFunctions
       /\ NoIdentity /\ NoServices /\ NoLog /\ NoImports
    \/ /\ part = "functions" /\ Functions!Init
       /\ store = None /\ jobs = None /\ runs = None /\ disturbed = None /\ peak = None
       /\ NoDeposits /\ NoCategories /\ NoCustomers /\ NoClient
       /\ NoIdentity /\ NoServices /\ NoLog /\ NoImports
    \/ /\ part = "identity" /\ Identity!Init
       /\ store = None /\ jobs = None /\ runs = None /\ disturbed = None /\ peak = None
       /\ NoDeposits /\ NoCategories /\ NoCustomers /\ NoClient
       /\ NoFunctions /\ NoServices /\ NoLog /\ NoImports
    \/ /\ part = "services" /\ Service!Init
       /\ store = None /\ jobs = None /\ runs = None /\ disturbed = None /\ row = None
       /\ NoDeposits /\ NoCategories /\ NoCustomers /\ NoClient
       /\ NoFunctions /\ NoIdentity /\ NoLog /\ NoImports
    \/ /\ part = "logs" /\ Log!Init
       /\ store = None /\ jobs = None /\ runs = None /\ disturbed = None /\ peak = None /\ row = None
       /\ NoDeposits /\ NoCategories /\ NoCustomers /\ NoClient
       /\ NoFunctions /\ NoIdentity /\ NoServices /\ NoImports
    \/ /\ part = "imports" /\ Import!Init
       /\ store = None /\ jobs = None /\ runs = None /\ disturbed = None /\ peak = None /\ row = None
       /\ NoDeposits /\ NoCategories /\ NoCustomers /\ NoClient
       /\ NoFunctions /\ NoIdentity /\ NoServices /\ NoLog

Next ==
    /\ UNCHANGED part
    /\ \/ /\ part = "deposits" /\ Deposit!Next
          /\ UNCHANGED <<store, jobs, runs, row, OfCategories,
                         OfCustomers, OfClient, OfFunctions, OfIdentity, OfServices,
                         OfLog, OfImports>>
       \/ /\ part = "categories" /\ Category!Next
          /\ UNCHANGED <<runs, peak, row, OfDeposits, OfCustomers,
                         OfClient, OfFunctions, OfIdentity, OfServices, OfLog,
                         OfImports>>
       \/ /\ part = "customers" /\ Customer!Next
          /\ UNCHANGED <<peak, row, OfDeposits, OfCategories,
                         OfClient, OfFunctions, OfIdentity, OfServices, OfLog,
                         OfImports>>
       \/ /\ part = "client" /\ Client!Next
          /\ UNCHANGED <<jobs, runs, peak, row, OfDeposits, OfCategories,
                         OfCustomers, OfFunctions, OfIdentity, OfServices, OfLog,
                         OfImports>>
       \/ /\ part = "functions" /\ Functions!Next
          /\ UNCHANGED <<store, jobs, runs, disturbed, peak, OfDeposits,
                         OfCategories, OfCustomers, OfClient, OfIdentity, OfServices,
                         OfLog, OfImports>>
       \/ /\ part = "identity" /\ Identity!Next
          /\ UNCHANGED <<store, jobs, runs, disturbed, peak, OfDeposits,
                         OfCategories, OfCustomers, OfClient, OfFunctions,
                         OfServices, OfLog, OfImports>>
       \/ /\ part = "services" /\ Service!Next
          /\ UNCHANGED <<store, jobs, runs, disturbed, row, OfDeposits,
                         OfCategories, OfCustomers, OfClient, OfFunctions,
                         OfIdentity, OfLog, OfImports>>
       \/ /\ part = "logs" /\ Log!Next
          /\ UNCHANGED <<store, jobs, runs, disturbed, peak, row,
                         OfDeposits, OfCategories, OfCustomers, OfClient,
                         OfFunctions, OfIdentity, OfServices, OfImports>>
       \/ /\ part = "imports" /\ Import!Next
          /\ UNCHANGED <<store, jobs, runs, disturbed, peak, row,
                         OfDeposits, OfCategories, OfCustomers, OfClient,
                         OfFunctions, OfIdentity, OfServices, OfLog>>

Spec == Init /\ [][Next]_vars

-----------------------------------------------------------------------------
(* The properties of the components; their modules say what they are of.   *)

(* No money is used twice (js_assign_outstanding_line, button_draft).      *)
MoneyConserved == part = "deposits" => Deposit!MoneyConserved

(* The deposits of an order stay within it (action_post).                  *)
DepositsWithinOrder == part = "deposits" => Deposit!DepositsWithinOrder

(* An invoice takes the deposits that there are (account.move.action_post). *)
PaidWhenPosted == [][part = "deposits" => Deposit!InvoicePosted]_vars

(* need_to_export is raised while the store lacks an edit, and an import   *)
(* gives categories the children that the store has.                       *)
CategoriesAgree == part = "categories" => Category!EditsTold /\ Category!TreeImported

(* Contacts are made once (get_customer_partner, determine_company), and   *)
(* an order has those that its data name (determine_customer).             *)
ContactsOfOrders == part = "customers" => Customer!ContactsReused /\ Customer!OrdersAddressed

(* A request is what its caller asked for, puts a record under its own id, *)
(* and a listing gives every record once it has ended (the builders of     *)
(* requests, put_record, get_next_page).                                   *)
ClientServes ==
    part = "client" =>
        Client!RequestsAsAsked /\ Client!PutsOwnRecord /\ Client!ListingComplete

(* The runner's channels are those of its configuration, and a job runs in *)
(* the channel of its function (simple_configure, _compute_channel).       *)
ChannelsOfJobs ==
    part = "functions" => Functions!TreeAsConfigured /\ Functions!JobsFollowFunction

(* One job of a key waits, and it serves all who asked for it (enqueue).   *)
CallsShareJobs == part = "identity" => Identity!OneWaits /\ Identity!CallsServed

(* The services of an order are planned once, and what is said to be       *)
(* delivered is done (stock.service.picking).                              *)
ServicesAccounted ==
    part = "services" =>
        Service!DeliveredIsDone /\ Service!NothingTwice /\ Service!NothingLeftOut

(* A log tells of failures, and of no success that there was not           *)
(* (update_status).                                                        *)
LogsTell == part = "logs" => Log!FailuresTold /\ Log!SuccessIsTrue

(* A channel tells of the imports that are under way (is_in_syncing,       *)
(* is_importing_done).                                                     *)
ImportsTold == part = "imports" => Import!FlagTellsImport /\ Import!SuccessTold
=============================================================================
