---------------------------- MODULE OrderImport -----------------------------
(***************************************************************************)
(* Orders from the store to Odoo.                                          *)
(*                                                                         *)
(* A cron queues an import of the orders modified since the watermark and  *)
(* moves the watermark at once.  The import gets the first page of them    *)
(* and, order by order, in a transaction each, queues a job that creates   *)
(* the order or updates it.  If a product is unknown it queues an import   *)
(* of the product and a job that waits for it.  Jobs run at any time and   *)
(* in any order, fail, and are requeued by managers.                       *)
(*                                                                         *)
(* Orders are numbered as the store numbers them.  What an order contains  *)
(* is a function of its number and its version.                            *)
(***************************************************************************)
EXTENDS OrderLines, FiniteSets

CONSTANTS
    Orders,           \* a finite set of numbers
    MaxVersion,       \* [Orders -> Nat]; bound: an order is edited so often
    Accepted,         \* <<order, version>>: status and date pass the settings
    Data(_, _),       \* order, version: what the order contains
    Product(_),       \* order: the product it needs
    Listed,           \* the products that have a listing from the start
    AllowUpdate,      \* the channel's allow_update_order
    PageSize,
    MaxRetries,       \* of the jobs (the code: 15)
    MaxJobs,          \* bound: at most so many jobs of orders exist at once
    MaxTime,          \* bound: the clock stops here
    MaxImports,       \* bound: at most so many imports exist at once
    Disturbances, MaxDisturbances,   \* what may go wrong, and how often
    None

Products == {Product(o) : o \in Orders}
Reasons == {"page", "refused", "unlink", "reconnect"}
Sales == [version : Nat, state : {"draft", "sale", "cancel"}]

ASSUME OrderImportAssumption ==
    /\ IsFiniteSet(Orders) /\ Orders \subseteq Nat
    /\ MaxVersion \in [Orders -> Nat]
    /\ Accepted \subseteq Orders \X Nat
    /\ Listed \subseteq Products
    /\ AllowUpdate \in BOOLEAN
    /\ PageSize \in Nat \ {0} /\ MaxRetries \in Nat \ {0}
    /\ MaxJobs \in Nat /\ MaxTime \in Nat /\ MaxImports \in Nat /\ MaxDisturbances \in Nat
    /\ None \notin Nat \cup Reasons /\ None \notin Sales

VARIABLES
    now,       \* the clock
    store,     \* [Orders -> version, modified]: the store; version 0: not placed
    channel,   \* active, watermark (last_sync_order)
    sale,      \* [Orders -> version, state, or None]: sale.order
    lines,     \* [Orders -> the lines it has]: sale.order.line
    listed,    \* the products that have a listing in Odoo
    jobs,      \* the jobs in queue_job that are not done
    errors,    \* orders whose newest version is in a failed entry of omni.log
    disturbed, \* counts what went wrong
    reached,   \* history: the newest version of an order ever written
    excused    \* history: [Orders -> why the last change is left behind, or None]

vars == <<now, store, channel, sale, lines, listed, jobs, errors,
          disturbed, reached, excused>>

(* n tells apart jobs that are otherwise equal.  A wait job and the job    *)
(* for the product that it waits for, if there is one, are one record:     *)
(* need is "pending", "done", "gone" once that job is deleted, or "failed" *)
(* if there is none or it failed.                                          *)
ImportJob(from, ids) ==
    [n |-> 1, kind |-> "import", state |-> "pending", from |-> from, ids |-> ids,
     fetched |-> FALSE, page |-> {}]
SyncJob(o, v, update) ==
    [n |-> 1, kind |-> "sync", state |-> "pending", order |-> o, version |-> v,
     update |-> update, retry |-> 0]
WaitJob(o, v, need) ==
    [n |-> 1, kind |-> "wait", state |-> "pending", order |-> o, version |-> v,
     need |-> need, retry |-> 0]

Imports == {j \in jobs : j.kind = "import"}
Room(js) == Cardinality({j \in js : j.kind # "import"}) < MaxJobs
Pending(kind) == {j \in jobs : j.kind = kind /\ j.state = "pending"}

Put(js, job) ==
    js \cup {[job EXCEPT !.n = CHOOSE n \in 1..(Cardinality(js) + 1) :
                 /\ [job EXCEPT !.n = n] \notin js
                 /\ \A k \in 1..(n - 1) : [job EXCEPT !.n = k] \in js]}
Becomes(j, job) == jobs' = Put(jobs \ {j}, job)

(* Mutant of Matching: the date is taken to be exclusive.                *)
MatchingAfter(job) ==
    {o \in job.ids : store[o].version > 0 /\ (job.from # None => store[o].modified > job.from)}

(* The store's answer to a request for orders: the first of them in the    *)
(* order of their ids, backwards if no date is given.                      *)
Matching(job) ==
    {o \in job.ids : store[o].version > 0 /\ (job.from # None => store[o].modified >= job.from)}
UpTo(job, p, o) == IF job.from = None THEN p >= o ELSE p <= o
Place(job, o) == Cardinality({p \in Matching(job) : UpTo(job, p, o)})
PageOf(job) ==
    {<<o, store[o].version>> : o \in {p \in Matching(job) : Place(job, p) \in
                                        1..PageSize}}
LeftOut(job) == {o \in Matching(job) : Place(job, o) > PageSize}
Excuse(os, why) == [o \in Orders |-> IF o \in os THEN why ELSE excused[o]]

(* _search_mapping_product: all the products of the order have a listing.  *)
HasListing(o) == Product(o) \in listed

Exists(o) == sale[o] # None
Cancelled(o) == Exists(o) /\ sale[o].state = "cancel"

(* _check_imported_order_data.                                             *)
Wanted(o, v) == <<o, v>> \in Accepted /\ ~Cancelled(o)

Init ==
    /\ now = 0
    /\ store = [o \in Orders |-> [version |-> 0, modified |-> 0]]
    /\ channel = [active |-> TRUE, watermark |-> 0]
    /\ sale = [o \in Orders |-> None]
    /\ lines = [o \in Orders |-> <<>>]
    /\ listed = Listed
    /\ jobs = {}
    /\ errors = {}
    /\ disturbed = 0
    /\ reached = [o \in Orders |-> 0]
    /\ excused = [o \in Orders |-> None]

Disturb(kind) ==
    kind \in Disturbances /\ disturbed < MaxDisturbances /\ disturbed' = disturbed + 1

-----------------------------------------------------------------------------
(* The world.                                                              *)

Tick ==
    /\ now < MaxTime
    /\ now' = now + 1
    /\ UNCHANGED <<store, channel, sale, lines, listed, jobs, errors, disturbed, reached, excused>>

(* A customer places an order or the store changes it.                     *)
Change(o) ==
    /\ store[o].version < MaxVersion[o]
    /\ store' = [store EXCEPT ![o] = [version |-> @.version + 1, modified |-> now]]
    /\ excused' = [excused EXCEPT ![o] = None] /\ errors' = errors \ {o}
    /\ UNCHANGED <<now, channel, sale, lines, listed, jobs, disturbed, reached>>

-----------------------------------------------------------------------------
(* The import.                                                             *)

NewImport(from, ids) ==
    /\ Cardinality(Imports) < MaxImports
    /\ jobs' = Put(jobs, ImportJob(from, ids))

(* channel_import_order: the import asks for what changed since the        *)
(* watermark, which becomes the present time in the same transaction.      *)
CheckNewOrders ==
    /\ channel.active
    /\ NewImport(channel.watermark, Orders)
    /\ channel' = [channel EXCEPT !.watermark = now]
    /\ UNCHANGED <<now, store, sale, lines, listed, errors, disturbed, reached, excused>>

(* The wizard, and the button "retry" of a failed log: orders by the       *)
(* range of their ids, and no watermark.                                   *)
ImportManually ==
    /\ Disturb("manual")
    /\ \E low, high \in Orders : NewImport(None, Orders \cap low..high)
    /\ UNCHANGED <<now, store, channel, sale, lines, listed, errors, reached, excused>>

(* The composite that get_order_products returns has no response, so that  *)
(* get_next_page finds no request to continue: there is no second page.    *)
FetchPage(j) ==
    /\ ~j.fetched
    /\ Becomes(j, [j EXCEPT !.fetched = TRUE, !.page = PageOf(j)])
    /\ excused' = Excuse(LeftOut(j), "page")
    /\ UNCHANGED <<now, store, channel, sale, lines, listed, errors, disturbed, reached>>

(* For the same reason an answer that is an error is an empty page: ok()   *)
(* of a composite without a response is true, and nothing is disconnected. *)
FetchRefused(j) ==
    /\ ~j.fetched
    /\ Disturb("refused")
    /\ Becomes(j, [j EXCEPT !.fetched = TRUE])
    /\ excused' = Excuse(Matching(j), "refused")
    /\ UNCHANGED <<now, store, channel, sale, lines, listed, errors, reached>>

EndImport(j) ==
    /\ j.fetched /\ j.page = {}
    /\ jobs' = jobs \ {j}
    /\ UNCHANGED <<now, store, channel, sale, lines, listed, errors, disturbed, reached, excused>>

(* Anything else that goes wrong, and the death of the worker.             *)
FetchFails(j) ==
    /\ Disturb("fails")
    /\ Becomes(j, [j EXCEPT !.state = "failed", !.page = {}, !.fetched = FALSE])
    /\ UNCHANGED <<now, store, channel, sale, lines, listed, errors, reached, excused>>

(* create_jobs_for_synching for one order; noWait: do not wait for         *)
(* products again.  js: the jobs as the transaction has them so far.       *)
CreateJobs(js, o, v, update, noWait) ==
    \/ /\ (update /\ ~AllowUpdate) \/ ~Wanted(o, v)
       /\ jobs' = js /\ UNCHANGED errors
    \/ /\ ~update \/ AllowUpdate
       /\ Wanted(o, v)
       /\ \/ /\ HasListing(o)
             /\ Room(js)
             /\ jobs' = Put(js, SyncJob(o, v, update))
             /\ UNCHANGED errors
          \/ /\ ~HasListing(o)   \* and no product of that SKU, or an error
             /\ jobs' = js
             /\ errors' = IF v = store[o].version THEN errors \cup {o} ELSE errors
          \/ /\ ~HasListing(o) /\ ~noWait
             /\ Room(js)
             /\ \E need \in {"failed", "pending"} : jobs' = Put(js, WaitJob(o, v, need))
             /\ UNCHANGED errors

(* The next order of the page: created or updated, by what is in Odoo now. *)
ImportOrder(j) ==
    /\ \E p \in j.page :
         /\ \A q \in j.page : UpTo(j, p[1], q[1])
         /\ CreateJobs(Put(jobs \ {j}, [j EXCEPT !.page = @ \ {p}]),
                       p[1], p[2], Exists(p[1]), FALSE)
    /\ UNCHANGED <<now, store, channel, sale, lines, listed, disturbed, reached, excused>>

-----------------------------------------------------------------------------
(* The jobs of an order.                                                   *)

Retried(j) ==
    Becomes(j, IF j.retry + 1 < MaxRetries THEN [j EXCEPT !.retry = @ + 1]
                                           ELSE [j EXCEPT !.state = "failed"])

(* waiting_product.  If one of the jobs it waits for is gone it starts     *)
(* again; it goes on without the product once they have all ended.         *)
WaitingProduct(j) ==
    /\ \/ /\ j.need = "pending"
          /\ Retried(j)
          /\ UNCHANGED errors
       \/ /\ j.need # "pending"
          /\ CreateJobs(jobs \ {j}, j.order, j.version, Exists(j.order), j.need # "gone")
    /\ UNCHANGED <<now, store, channel, sale, lines, listed, disturbed, reached, excused>>

(* The import of a product: it ends with a listing, without one (its data  *)
(* are to be merged by hand) or in failure.                                *)
RunProduct(j) ==
    /\ j.need = "pending"
    /\ \/ Becomes(j, [j EXCEPT !.need = "done"]) /\ listed' = listed \cup {Product(j.order)}
       \/ \E s \in {"done", "failed"} : Becomes(j, [j EXCEPT !.need = s]) /\ UNCHANGED listed
    /\ UNCHANGED <<now, store, channel, sale, lines, errors, disturbed, reached, excused>>

(* A done job is deleted before another looks for it.                      *)
Autovacuum(j) ==
    /\ j.need = "done"
    /\ Disturb("vacuum")
    /\ Becomes(j, [j EXCEPT !.need = "gone"])
    /\ UNCHANGED <<now, store, channel, sale, lines, listed, errors, reached, excused>>

Fails(j) ==
    /\ Becomes(j, [j EXCEPT !.state = "failed"])
    /\ UNCHANGED <<sale, lines, reached>>

(* A draft order may be confirmed by its processing rule, or because the   *)
(* store has shipments for it.                                             *)
Writes(j, written, state) ==
    /\ \E s \in {state} \cup (IF state = "draft" THEN {"sale"} ELSE {}) :
         sale' = [sale EXCEPT ![j.order] = [version |-> j.version, state |-> s]]
    /\ lines' = [lines EXCEPT ![j.order] = written]
    /\ reached' = [reached EXCEPT ![j.order] = IF j.version > @ THEN j.version ELSE @]
    /\ jobs' = jobs \ {j}

Imported(j) == Transformed(Data(j.order, j.version))

(* unique(id_on_channel, channel_id).                                      *)
CreateSale(j) ==
    \/ Exists(j.order) /\ Fails(j)
    \/ ~Exists(j.order) /\ Writes(j, Imported(j), "draft")

(* Mutant of UpdateSale: the lines are replaced in every state.           *)
UpdateSaleReplacing(j) ==
    \/ ~Exists(j.order) /\ Fails(j)
    \/ Exists(j.order) /\ Writes(j, Imported(j), sale[j.order].state)

(* A confirmed order keeps its lines and is merged; in other states the    *)
(* lines are replaced.  Without the order, ensure_one fails.               *)
UpdateSale(j) ==
    LET old == lines[j.order]
    IN  \/ ~Exists(j.order) /\ Fails(j)
        \/ /\ Exists(j.order) /\ sale[j.order].state = "sale"
           /\ \/ Ambiguous(old, Imported(j)) /\ Fails(j)
              \/ ~Ambiguous(old, Imported(j)) /\ Writes(j, Merged(old, Imported(j)), "sale")
        \/ /\ Exists(j.order) /\ sale[j.order].state # "sale"
           /\ Writes(j, Imported(j), sale[j.order].state)

RunSync(j) ==
    /\ IF j.update THEN UpdateSale(j) ELSE CreateSale(j)
    /\ UNCHANGED <<now, store, channel, listed, errors, disturbed, excused>>

(* A serialization failure: the job is retried, up to its limit.           *)
SyncConflicts(j) ==
    /\ Disturb("conflict")
    /\ Retried(j)
    /\ UNCHANGED <<now, store, channel, sale, lines, listed, errors, reached, excused>>

-----------------------------------------------------------------------------
(* People.                                                                 *)

(* A failed job starts from its arguments again.                           *)
Requeue(j) ==
    /\ j.state = "failed"
    /\ Disturb("requeue")
    /\ Becomes(j, IF j.kind = "import" THEN ImportJob(j.from, j.ids)
                  ELSE [j EXCEPT !.state = "pending", !.retry = 0])
    /\ UNCHANGED <<now, store, channel, sale, lines, listed, errors, reached, excused>>

Cancel(o) ==
    /\ Exists(o) /\ ~Cancelled(o)
    /\ Disturb("cancel")
    /\ sale' = [sale EXCEPT ![o].state = "cancel"]
    /\ UNCHANGED <<now, store, channel, lines, listed, jobs, errors, reached, excused>>

Unlink(o) ==
    /\ Exists(o) /\ sale[o].state \in {"draft", "cancel"}
    /\ Disturb("unlink")
    /\ sale' = [sale EXCEPT ![o] = None]
    /\ lines' = [lines EXCEPT ![o] = <<>>]
    /\ excused' = Excuse({o}, "unlink")
    /\ UNCHANGED <<now, store, channel, listed, jobs, errors, reached>>

Disconnect ==
    /\ channel.active
    /\ Disturb("disconnect")
    /\ channel' = [channel EXCEPT !.active = FALSE]
    /\ UNCHANGED <<now, store, sale, lines, listed, jobs, errors, reached, excused>>

Reconnect ==
    /\ ~channel.active
    /\ channel' = [active |-> TRUE, watermark |-> now]
    /\ excused' = Excuse({o \in Orders : store[o].modified \in channel.watermark..(now - 1)}, "reconnect")
    /\ UNCHANGED <<now, store, sale, lines, listed, jobs, errors, disturbed, reached>>

Import(j) == FetchPage(j) \/ ImportOrder(j) \/ EndImport(j)

Next ==
    \/ Tick \/ CheckNewOrders \/ ImportManually \/ Disconnect \/ Reconnect
    \/ \E o \in Orders : Change(o) \/ Cancel(o) \/ Unlink(o)
    \/ \E j \in Pending("import") : Import(j) \/ FetchRefused(j) \/ FetchFails(j)
    \/ \E j \in Pending("wait") : WaitingProduct(j) \/ RunProduct(j) \/ Autovacuum(j)
    \/ \E j \in Pending("sync") : RunSync(j) \/ SyncConflicts(j)
    \/ \E j \in jobs : Requeue(j)

Spec == Init /\ [][Next]_vars

-----------------------------------------------------------------------------
(* Properties.                                                             *)

TypeOK ==
    /\ now \in 0..MaxTime
    /\ store \in [Orders -> [version : Nat, modified : 0..now]]
    /\ channel \in [active : BOOLEAN, watermark : 0..now]
    /\ sale \in [Orders -> Sales \cup {None}]
    /\ \A o \in Orders : Exists(o) => sale[o].version \in 1..store[o].version
    /\ listed \subseteq Products
    /\ errors \subseteq Orders
    /\ Cardinality(Imports) <= MaxImports /\ Cardinality(jobs \ Imports) <= MaxJobs
    /\ \A j \in jobs : j.state \in {"pending", "failed"}

(* The store's newest version of the order never was in Odoo, although it  *)
(* should be.                                                              *)
Missing(o) ==
    /\ store[o].version > reached[o]
    /\ Wanted(o, store[o].version) /\ (Exists(o) => AllowUpdate)

(* Something that a person can see or that will still happen: the next     *)
(* import asks for the order, an import will come to it or has failed, a   *)
(* job has its data, or a failed entry of the log has them.                *)
Accounted(o) ==
    LET v == store[o].version
    IN  \/ store[o].modified >= channel.watermark
        \/ \E j \in jobs : /\ j.kind = "import" /\ o \in Matching(j)
                          /\ (~j.fetched \/ <<o, v>> \in j.page)
        \/ \E j \in jobs \ Imports : j.order = o /\ j.version = v
        \/ o \in errors

(* No change of an order that an import gets is lost without a trace:      *)
(* while the watermark runs ahead of the imports, imports fail and overlap *)
(* what changes, and jobs wait, fail and are deleted                       *)
(* (channel_import_order, bigcommerce_import_orders, waiting_product).     *)
NoChangeLost == \A o \in Orders : Missing(o) /\ excused[o] = None => Accounted(o)

(* However an order was created, confirmed, merged or replaced, its lines  *)
(* are those of the version it has, with one exception that the code makes *)
(* (_process_update_order_line): a discount or coupon that was taken away  *)
(* and came back stays at a quantity of 0.  Orders that mix discounts and  *)
(* coupons, which an update confuses, are left out.                        *)
LinesMatch ==
    \A o \in Orders :
        Exists(o) /\ ~(\E v, w \in 1..MaxVersion[o] : Data(o, v).discounts # <<>> /\ Data(o, w).coupons # <<>>)
          => LET data == Effective(Transformed(Data(o, sale[o].version)))
             IN  /\ Effective(lines[o]) \subseteq data
                 /\ \A d \in data \ Effective(lines[o]) : Stranded(lines[o], d)

(* Deliveries and invoices hang on the lines of a confirmed order: while   *)
(* it is confirmed no import removes one or makes it another product       *)
(* (_process_update_order_line).                                           *)
ConfirmedLinesStay ==
    [][\A o \in Orders :
        Exists(o) /\ sale[o].state = "sale" /\ Exists(o)' =>
            /\ Len(lines[o]) <= Len(lines'[o])
            /\ \A i \in DOMAIN lines[o] : lines'[o][i].product = lines[o][i].product]_vars
=============================================================================
