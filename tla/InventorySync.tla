--------------------------- MODULE InventorySync ----------------------------
(***************************************************************************)
(* Stock levels from Odoo to the stores.                                   *)
(*                                                                         *)
(* A synchronisation is one transaction: it reads which products changed,  *)
(* by the dates of the stock moves or from an audit table that a trigger   *)
(* fills, reads their quantities, queues jobs that send them in chunks,    *)
(* and forgets the changes: it moves a date or empties the table.  Crons,  *)
(* a bulk job, a button and the export of a listing start one, each for    *)
(* other channels and products.  Stock moves go on meanwhile.              *)
(*                                                                         *)
(* Of two synchronisations at once the second fails, because both write    *)
(* the parameter with the date; so there is one at a time here.  Odoo's    *)
(* transactions are REPEATABLE READ: two that write a row do not both      *)
(* commit.                                                                 *)
(***************************************************************************)
EXTENDS Integers, FiniteSets, FiniteSetsExt

CONSTANTS
    Channels,
    Products,         \* a finite set of numbers
    Listings,         \* <<channel, product>>: listed, tracked and not excluded
    ByVariant,        \* those of them whose level goes in a request of their own
    Quantities,       \* of stock
    Settings,         \* the settings a channel may have, [percentage, maximum, minimum]
    InitialSetting,
    AuditModes,       \* the values of audit.stock.quant.table
    ChunkSize,        \* products of a request (the code: 9)
    MaxJobs,          \* bound: at most so many jobs but bulk jobs are pending at a start
    MaxTime,          \* bound: the clock stops here
    MaxChanges,       \* bound: stock and settings change so often
    Disturbances, MaxDisturbances,   \* what may go wrong, and how often
    None

SettingRecords == [percentage : Nat, maximum : Nat \cup {None}, minimum : Nat \cup {None}]
BulkJobs == [kind : {"bulk"}, channel : Channels, state : {"pending"}]
ChunkJobs(S) == [kind : {"chunk"}, run : Nat, channel : Channels, state : {"pending", "failed"},
                 levels : [S -> Int]]
NotifyJobs == [kind : {"notify"}, run : Nat, channel : Channels, state : {"pending", "failed"},
               lost : BOOLEAN, chunks : Nat]
Syncs == [channels : SUBSET Channels, all : BOOLEAN, ids : (SUBSET Products) \cup {None},
          noDelay : BOOLEAN, nightly : BOOLEAN, job : BulkJobs \cup {None}, at : Nat,
          stock : [Products -> Quantities], setting : [Channels -> Settings],
          products : SUBSET Products, touched : SUBSET Products, conflicts : SUBSET Channels]

ASSUME InventorySyncAssumption ==
    /\ IsFiniteSet(Channels) /\ IsFiniteSet(Products) /\ Products \subseteq Nat
    /\ Listings \subseteq Channels \X Products /\ ByVariant \subseteq Listings
    /\ Quantities \subseteq Nat /\ 0 \in Quantities
    /\ Settings \subseteq SettingRecords /\ InitialSetting \in Settings
    /\ AuditModes \subseteq BOOLEAN
    /\ ChunkSize \in Nat \ {0}
    /\ MaxJobs \in Nat /\ MaxTime \in Nat \ {0} /\ MaxChanges \in Nat /\ MaxDisturbances \in Nat
    /\ None \notin Nat /\ None \notin NotifyJobs
    /\ \A S \in SUBSET Products : None \notin ChunkJobs(S)

VARIABLES
    now,        \* the clock
    audited,    \* whether the audit table is used; does not change
    stock,      \* [Products -> committed free quantity]
    moving,     \* [Products -> None or the transaction that changes it: since, qty]
    wrote,      \* [Products -> write_date of its last move]
    audit,      \* the products in stock_quant_audit
    watermark,  \* ob.last_sync_inventory
    setting,    \* [Channels -> Settings]
    warning,    \* channels with "Changes will be applied in the next inventory sync."
    running,    \* channels with is_running_bulk_inventory_sync
    sync,       \* None or the open synchronisation
    jobs,       \* bulk jobs, chunks and notifications that are not done
    level,      \* [Listings -> the level that the store has]
    changes, disturbed,   \* count, for the bounds
    excused     \* history: listings whose last change a known hole swallows

stocks == <<stock, moving, wrote, audit>>
flags == <<setting, warning, running>>
counts == <<now, audited, changes, disturbed>>
vars == <<stocks, flags, counts, watermark, sync, jobs, level, excused>>

(* _compute_available_qty and free_qty: a share, then at most or else at   *)
(* least so much, rounded down.                                            *)
Level(s, qty) ==
    LET share == (qty * s.percentage) \div 100
    IN  CASE s.maximum # None /\ share > s.maximum -> s.maximum
          [] s.minimum # None /\ share < s.minimum -> s.minimum
          [] OTHER -> share

Right(l) == Level(setting[l[1]], stock[l[2]])

(* What the next synchronisation of everything takes for changed.          *)
Due(p) == IF audited THEN p \in audit ELSE wrote[p] >= watermark

Chunks == {j \in jobs : j.kind = "chunk"}
Pending == {j \in jobs : j.state = "pending"}
Covers(j, l) == j.channel = l[1] /\ l[2] \in DOMAIN j.levels

Disturb(kind) ==
    kind \in Disturbances /\ disturbed < MaxDisturbances /\ disturbed' = disturbed + 1

Init ==
    /\ now = 1 /\ watermark = 1 /\ changes = 0 /\ disturbed = 0
    /\ audited \in AuditModes
    /\ stock = [p \in Products |-> 0]
    /\ moving = [p \in Products |-> None]
    /\ wrote = [p \in Products |-> 0]
    /\ audit = {}
    /\ setting = [c \in Channels |-> InitialSetting]
    /\ warning = {} /\ running = {}
    /\ sync = None
    /\ jobs = {}
    /\ level = [l \in Listings |-> Level(InitialSetting, 0)]
    /\ excused = {}

-----------------------------------------------------------------------------
(* Stock and settings.                                                     *)

Tick ==
    /\ now < MaxTime
    /\ now' = now + 1
    /\ UNCHANGED <<stocks, flags, audited, changes, disturbed, watermark, sync, jobs, level, excused>>

(* What an open synchronisation will meet: stock that moves, and rows of   *)
(* channels that others write.                                             *)
Meets(ps, cs) ==
    sync' = IF sync = None THEN None
            ELSE [sync EXCEPT !.touched = @ \cup ps, !.conflicts = @ \cup cs]

(* A transaction that moves stock.  Its dates are those of its beginning.  *)
BeginMove(p) ==
    /\ moving[p] = None /\ changes < MaxChanges
    /\ changes' = changes + 1
    /\ \E q \in Quantities \ {stock[p]} : moving' = [moving EXCEPT ![p] = [since |-> now, qty |-> q]]
    /\ Meets({p}, {})
    /\ UNCHANGED <<stock, wrote, audit, flags, now, audited, disturbed, watermark, jobs, level, excused>>

CommitMove(p) ==
    /\ moving[p] # None
    /\ stock' = [stock EXCEPT ![p] = moving[p].qty]
    /\ wrote' = [wrote EXCEPT ![p] = moving[p].since]
    /\ audit' = IF audited THEN audit \cup {p} ELSE audit
    /\ moving' = [moving EXCEPT ![p] = None]
    /\ excused' = IF audited \/ moving[p].since >= watermark THEN {l \in excused : l[2] # p} ELSE excused
    /\ UNCHANGED <<flags, counts, watermark, sync, jobs, level>>

(* EcommerceChannel.write.  The levels that this makes wrong are excused.  *)
ChangeSettings(c) ==
    /\ changes < MaxChanges /\ changes' = changes + 1
    /\ \E s \in Settings \ {setting[c]} : setting' = [setting EXCEPT ![c] = s]
    /\ warning' = warning \cup {c}
    /\ excused' = excused \cup {l \in Listings : l[1] = c}
    /\ Meets({}, {c})
    /\ UNCHANGED <<stocks, running, now, audited, disturbed, watermark, jobs, level>>

-----------------------------------------------------------------------------
(* The synchronisation.                                                    *)

(* Mutant of Changed: a change of that second is left out.                 *)
ChangedAfter(all, ids) ==
    {p \in Products : /\ ids # None => p \in ids
                      /\ IF audited THEN p \in audit
                         ELSE wrote[p] > IF all \/ ids # None THEN 0 ELSE watermark}

(* _get_products_to_sync_inventory: with ids, or with all, the date does   *)
(* not matter.                                                             *)
Changed(all, ids) ==
    {p \in Products : /\ ids # None => p \in ids
                      /\ IF audited THEN p \in audit
                         ELSE wrote[p] >= IF all \/ ids # None THEN 0 ELSE watermark}

(* inventory_sync, as far as it reads.                                     *)
Start(channels, all, ids, noDelay, nightly, job) ==
    /\ sync = None
    /\ Cardinality({j \in Pending : j.kind # "bulk"}) <= MaxJobs
    /\ sync' = [channels |-> channels, all |-> all, ids |-> ids,
                noDelay |-> noDelay, nightly |-> nightly, job |-> job,
                at |-> now, stock |-> stock, setting |-> setting,
                products |-> Changed(all, ids),
                touched |-> {p \in Products : moving[p] # None},
                conflicts |-> {}]
    /\ UNCHANGED <<stocks, flags, now, audited, changes, watermark, jobs, level, excused>>

(* The two crons, at intervals of minutes and of a day.                    *)
Cron == Start(Channels, FALSE, None, FALSE, FALSE, None) /\ UNCHANGED disturbed
Nightly == Start(Channels, TRUE, None, FALSE, TRUE, None) /\ UNCHANGED disturbed

(* button_manually_sync_inventory: meant for one product, it takes them    *)
(* all, because update_inventory adds every product of the channel.        *)
ListingButton(c, p) == Start({c}, TRUE, {p}, TRUE, FALSE, None) /\ Disturb("button")

(* _post_to_channel, when the product has been listed.                     *)
ExportListing(l) == Start({l[1]}, FALSE, {l[2]}, FALSE, FALSE, None) /\ Disturb("export")

(* bulk_inventory_sync and its job.                                        *)
BulkButton(c) ==
    /\ c \notin running
    /\ Disturb("bulk")
    /\ running' = running \cup {c}
    /\ warning' = warning \ {c}
    /\ jobs' = jobs \cup {[kind |-> "bulk", channel |-> c, state |-> "pending"]}
    /\ Meets({}, {c})
    /\ UNCHANGED <<stocks, setting, now, audited, changes, watermark, level, excused>>

RunBulk(j) ==
    /\ j.kind = "bulk"
    /\ Start({j.channel}, TRUE, None, FALSE, FALSE, j)
    /\ UNCHANGED disturbed

(* Mutant of Sent: a bulk run sends only what changed.                     *)
SentChanged(c) == {p \in Products : <<c, p>> \in Listings /\ p \in sync.products}

(* What is sent to a channel, in chunks.                                   *)
Sent(c) == {p \in Products : <<c, p>> \in Listings /\ (sync.all \/ p \in sync.products)}
Place(S, p) == Cardinality({q \in S : q < p}) \div ChunkSize
Cut(S) == {{p \in S : Place(S, p) = k} : k \in {Place(S, p) : p \in S}}
FreshRun == CHOOSE r \in 1..(Cardinality(jobs) + 1) : \A j \in jobs \ {sync.job} : j.kind = "bulk" \/ j.run # r

Chunk(c, S) == [kind |-> "chunk", run |-> FreshRun, channel |-> c, state |-> "pending",
                levels |-> [p \in S |-> Level(sync.setting[c], sync.stock[p])]]
NewChunks == UNION {{Chunk(c, S) : S \in Cut(Sent(c))} : c \in sync.channels}
NewNotifications ==
    {[kind |-> "notify", run |-> FreshRun, channel |-> c, state |-> "pending", lost |-> FALSE,
      chunks |-> Cardinality(Cut(Sent(c)))] :
        c \in {d \in sync.channels : sync.all /\ ~sync.noDelay /\ Sent(d) # {}}}

(* The holes: stock that moved during the synchronisation, what it did not *)
(* look at but forgets, settings that changed, and jobs that may overtake  *)
(* each other.                                                             *)
Holes ==
    {l \in Listings :
        \/ l[2] \in sync.touched
        \/ l[1] \notin sync.channels
        \/ ~sync.all /\ sync.ids # None /\ l[2] \notin sync.ids
        \/ sync.setting[l[1]] # setting[l[1]]
        \/ \E j \in Chunks : Covers(j, l)}

SendsAny == sync.products # {} \/ sync.all
Awaited == {n.channel : n \in NewNotifications}
WritesRow(c) == c \in sync.channels /\ (~SendsAny \/ sync.nightly \/ c \notin Awaited)
Conflict == \E c \in sync.conflicts : WritesRow(c)


(* The rest of inventory_sync, and the commit.  TRUNCATE waits for the     *)
(* transactions that have written to the table.                            *)
CommitSync ==
    LET forgets == audited /\ ~sync.all
    IN  /\ sync # None
        /\ ~Conflict
        /\ forgets => \A p \in Products : moving[p] = None
        /\ watermark' = sync.at
        /\ audit' = IF forgets THEN {} ELSE audit
        /\ jobs' = (jobs \ {sync.job}) \cup IF SendsAny THEN NewChunks \cup NewNotifications ELSE {}
        /\ running' = IF SendsAny THEN running \ (sync.channels \ Awaited) ELSE running
        /\ warning' = IF sync.nightly \/ ~SendsAny THEN warning \ sync.channels ELSE warning
        /\ excused' = Holes \cup {l \in excused : l[1] \notin sync.channels \/ l[2] \notin Sent(l[1])}
        /\ sync' = None
        /\ UNCHANGED <<stock, moving, wrote, setting, counts, level>>

(* Rolled back: a row was written by another, or an error.  A cron tries   *)
(* at its next time; the bulk job is retried, or fails, and the flag stays.*)
AbortSync ==
    /\ sync # None
    /\ sync' = None
    /\ \/ Conflict /\ UNCHANGED <<jobs, disturbed>>
       \/ Disturb("abort") /\ jobs' = jobs \ {sync.job}
    /\ UNCHANGED <<stocks, flags, now, audited, changes, watermark, level, excused>>

-----------------------------------------------------------------------------
(* The jobs.                                                               *)

Sends(j, ps) == level' = [l \in Listings |-> IF l[1] = j.channel /\ l[2] \in ps
                                              THEN j.levels[l[2]] ELSE level[l]]

RunChunk(j) ==
    /\ j.kind = "chunk" /\ j.state = "pending"
    /\ Sends(j, DOMAIN j.levels)
    /\ jobs' = jobs \ {j}
    /\ UNCHANGED <<stocks, flags, counts, watermark, sync, excused>>

(* The store refuses the batch or some of its products, or answers too     *)
(* late: what it took has been sent, and the job fails.                    *)
ChunkFails(j) ==
    /\ j.kind = "chunk" /\ j.state = "pending"
    /\ Disturb("refused")
    /\ \E ps \in SUBSET DOMAIN j.levels : Sends(j, ps)
    /\ jobs' = (jobs \ {j}) \cup {[j EXCEPT !.state = "failed"]}
    /\ UNCHANGED <<stocks, flags, now, audited, changes, watermark, sync, excused>>

(* _update_inventory_variant does not look at the answer to the level of a *)
(* variant: what is refused or lost there leaves a job that is done.       *)
VariantsRefused(j) ==
    /\ j.kind = "chunk" /\ j.state = "pending"
    /\ Disturb("refused")
    /\ \E ps \in SUBSET {p \in DOMAIN j.levels : <<j.channel, p>> \in ByVariant} :
         /\ ps # {} /\ Sends(j, DOMAIN j.levels \ ps)
         /\ excused' = excused \cup {<<j.channel, p>> : p \in ps}
    /\ jobs' = jobs \ {j}
    /\ UNCHANGED <<stocks, flags, now, audited, changes, watermark, sync>>

Requeue(j) ==
    /\ j.state = "failed"
    /\ jobs' = (jobs \ {j}) \cup {[j EXCEPT !.state = "pending"]}
    /\ UNCHANGED <<stocks, flags, disturbed, now, audited, changes, watermark, sync, level, excused>>

(* done_inventory_sync: every uuid must be a job that is done or failed.   *)
Of(n) == {j \in Chunks : j.run = n.run /\ j.channel = n.channel}
DoneInventorySync(n) ==
    /\ n.kind = "notify"
    /\ ~n.lost /\ \A j \in Of(n) : j.state = "failed"
    /\ running' = running \ {n.channel}
    /\ jobs' = jobs \ {n}
    /\ Meets({}, {n.channel})
    /\ UNCHANGED <<stocks, setting, warning, counts, watermark, level, excused>>

(* It is retried 100 times: in vain if a job has been deleted, and perhaps *)
(* not for long enough if one has not ended.  Then it fails, and the flag  *)
(* stays.                                                                  *)
NotifyGivesUp(n) ==
    /\ n.kind = "notify"
    /\ \/ n.lost /\ UNCHANGED disturbed
       \/ ~n.lost /\ (\E j \in Of(n) : j.state = "pending") /\ Disturb("patience")
    /\ jobs' = (jobs \ {n}) \cup {[n EXCEPT !.state = "failed"]}
    /\ UNCHANGED <<stocks, flags, now, audited, changes, watermark, sync, level, excused>>

Autovacuum(n) ==
    /\ n.kind = "notify" /\ ~n.lost
    /\ Cardinality(Of(n)) < n.chunks
    /\ Disturb("vacuum")
    /\ jobs' = (jobs \ {n}) \cup {[n EXCEPT !.lost = TRUE]}
    /\ UNCHANGED <<stocks, flags, now, audited, changes, watermark, sync, level, excused>>

Next ==
    \/ Tick \/ Cron \/ Nightly \/ CommitSync \/ AbortSync
    \/ \E p \in Products : BeginMove(p) \/ CommitMove(p)
    \/ \E c \in Channels : ChangeSettings(c) \/ BulkButton(c) \/ \E p \in Products : ListingButton(c, p)
    \/ \E l \in Listings : ExportListing(l)
    \/ \E j \in Pending : RunBulk(j) \/ RunChunk(j) \/ ChunkFails(j) \/ VariantsRefused(j)
    \/ \E n \in Pending : DoneInventorySync(n) \/ NotifyGivesUp(n) \/ Autovacuum(n)
    \/ \E j \in jobs : Requeue(j)

Spec == Init /\ [][Next]_vars

(* Transactions end, the nightly cron gets its turn, jobs run.             *)
Fairness ==
    /\ WF_vars(CommitSync \/ AbortSync \/ \E p \in Products : CommitMove(p))
    /\ SF_vars(Nightly)
    /\ SF_vars(\E j \in Pending : RunBulk(j) \/ RunChunk(j))
    /\ SF_vars(\E n \in Pending : DoneInventorySync(n))
    /\ SF_vars(\E n \in Pending : NotifyGivesUp(n))

FairSpec == Spec /\ Fairness

-----------------------------------------------------------------------------
(* Properties.                                                             *)

Types ==
    /\ now \in 1..MaxTime /\ watermark \in 1..now /\ audited \in BOOLEAN
    /\ stock \in [Products -> Quantities]
    /\ moving \in [Products -> [since : 1..now, qty : Quantities] \cup {None}]
    /\ wrote \in [Products -> 0..now]
    /\ audit \subseteq Products /\ (~audited => audit = {})
    /\ setting \in [Channels -> Settings]
    /\ warning \subseteq Channels /\ running \subseteq Channels
    /\ sync \in Syncs \cup {None} /\ (sync # None => sync.at \in 1..now)
    /\ IsFiniteSet(jobs)
    /\ \A j \in jobs : j \in BulkJobs \cup NotifyJobs \/ \E S \in SUBSET Products : j \in ChunkJobs(S)
    /\ level \in [Listings -> Int]
    /\ changes \in 0..MaxChanges /\ disturbed \in 0..MaxDisturbances
    /\ excused \subseteq Listings

(* The types, and a notification waits for no more jobs than its run made. *)
TypeOK == Types /\ \A n \in jobs : n.kind = "notify" => Cardinality(Of(n)) <= n.chunks

(* A wrong level on a store is never forgotten: the next synchronisation   *)
(* takes the product for changed, or a job (failed, maybe) has the right   *)
(* level.  The exceptions are stock that moves while a synchronisation is  *)
(* open, synchronisations of some channels or products only, that forget   *)
(* the changes of all, changed settings, jobs that may overtake others,    *)
(* and levels of variants whose refusal the job does not notice            *)
(* (inventory_sync, _get_products_to_sync_inventory,                       *)
(* _bigcommerce_sync_inventory).                                           *)
NoLevelForgotten ==
    \A l \in Listings \ excused :
        level[l] # Right(l) =>
            Due(l[2]) \/ \E j \in Chunks : Covers(j, l) /\ j.levels[l[2]] = Right(l)

(* Whatever was forgotten, a nightly synchronisation repairs it.           *)
StoresCatchUp == <>[](\A l \in Listings : level[l] = Right(l))

=============================================================================
