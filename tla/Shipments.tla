----------------------------- MODULE Shipments ------------------------------
(***************************************************************************)
(* The deliveries of one order, in Odoo and on the store.                  *)
(*                                                                         *)
(* A delivery that is validated in Odoo is posted to the store by a job:   *)
(* the store answers with an id, and the job's transaction then writes it  *)
(* to the delivery.  Shipments that the store has and Odoo does not know   *)
(* by their id are imported with the order: each validates the delivery    *)
(* that is open.  A delivery that changes later is sent again by a button, *)
(* which shows if the change is newer than the last synchronisation.       *)
(*                                                                         *)
(* A transaction sees the rows as they were when it began, and fails if it *)
(* writes a row that another has written since (REPEATABLE READ).  What a  *)
(* transaction has done on the store stays when it is rolled back.         *)
(***************************************************************************)
EXTENDS Integers, Sequences, FiniteSets, FiniteSetsExt, SequencesExt

CONSTANTS
    Lines,            \* the order's lines, 1..n
    Ordered,          \* [Lines -> quantity]
    Product(_),       \* the product of a line
    MaxPickings,      \* bound: so many deliveries
    MaxShipments,     \* bound: the store's staff make so many shipments
    MaxImports,       \* bound: the order is imported so often
    Disturbances, MaxDisturbances,   \* what may happen, and how often
    None

ASSUME ShipmentsAssumption ==
    /\ Lines = 1..Cardinality(Lines) /\ IsFiniteSet(Lines)
    /\ Ordered \in [Lines -> Nat]
    /\ MaxPickings \in Nat /\ MaxShipments \in Nat /\ MaxImports \in Nat /\ MaxDisturbances \in Nat

VARIABLES
    pickings,   \* stock.picking, in the order of creation
    locked,     \* the order is done (locked)
    jobs,       \* the jobs that post, and are not done
    import,     \* None, or the snapshot of an import that is going on
    store,      \* the shipments on the store, by id
    export,     \* auto_export_shipment_to_store
    imports, disturbed,   \* count, for the bounds
    orphans,    \* history: ids that a job got and did not write before its end or
                \* before an import took them for new
    unseen,     \* history: deliveries changed in the second they were synchronised
    skipped     \* history: deliveries whose job found the setting off

counts == <<imports, disturbed>>
vars == <<pickings, locked, jobs, import, store, export, counts, orphans, unseen, skipped>>

Quantities == [Lines -> 0..Max({Ordered[l] : l \in Lines} \cup {0})]
Nothing == [l \in Lines |-> 0]
Total(q, ls) == MapThenSumSet(LAMBDA l : q[l], ls)
SameProduct(l) == {m \in Lines : Product(m) = Product(l)}

(* Of the dates move_line_changed_at, shipping_info_changed_at and         *)
(* channel_synching_at only their order matters: whether the first, or the *)
(* second, is after the third, and whether the third is this second.       *)
Picking(demand) ==
    [state |-> "open", demand |-> demand, done |-> Nothing, id |-> None, info |-> 0,
     lineChanged |-> FALSE, infoChanged |-> FALSE, synched |-> FALSE, failed |-> FALSE]

(* mark_synced_with_channel.                                               *)
Synched(row) == [row EXCEPT !.lineChanged = FALSE, !.infoChanged = FALSE, !.synched = TRUE]

Done(rows) == {k \in DOMAIN rows : rows[k].state = "done"}
Opened(rows) == {k \in DOMAIN rows : rows[k].state = "open"}
Delivered(rows, l) == MapThenSumSet(LAMBDA k : rows[k].done[l], Done(rows))
Shipped(rows) == \A l \in Lines : Delivered(rows, l) >= Ordered[l]

(* Another transaction has written the row since it was read.              *)
Overwritten(k, row) == [pickings[k] EXCEPT !.synched = FALSE] # [row EXCEPT !.synched = FALSE]

(* is_update_to_channel_needed.                                            *)
UpdateNeeded(p) == p.id # None /\ (p.lineChanged \/ p.infoChanged)

Disturb(kind) ==
    kind \in Disturbances /\ disturbed < MaxDisturbances /\ disturbed' = disturbed + 1

Init ==
    /\ pickings = <<Picking(Ordered)>>
    /\ locked = FALSE
    /\ jobs = {}
    /\ import = None
    /\ store = <<>>
    /\ export = TRUE
    /\ imports = 0 /\ disturbed = 0
    /\ orphans = {} /\ unseen = {} /\ skipped = {}

(* The second in which deliveries were synchronised is over.               *)
Tick ==
    /\ \E k \in DOMAIN pickings : pickings[k].synched
    /\ pickings' = [k \in DOMAIN pickings |-> [pickings[k] EXCEPT !.synched = FALSE]]
    /\ UNCHANGED <<locked, jobs, import, store, export, counts, orphans, unseen, skipped>>

-----------------------------------------------------------------------------
(* Deliveries in Odoo.                                                     *)

(* Odoo validates a delivery with these quantities; what is left becomes a *)
(* new delivery, or is cancelled.  With none it stays open.                *)
WithDone(rows, k, row, q, backorder) ==
    LET rest == [l \in Lines |-> IF q[l] < row.demand[l] THEN row.demand[l] - q[l] ELSE 0]
    IN  IF q = Nothing THEN [rows EXCEPT ![k] = row]
        ELSE [rows EXCEPT ![k] = [row EXCEPT !.state = "done", !.done = q]]
               \o IF backorder /\ rest # Nothing THEN <<Picking(rest)>> ELSE <<>>

(* _action_done, as a person starts it.  has_been_shipped asks for a       *)
(* method that BigCommerce has not, so the job is always queued.           *)
Validate(k) ==
    /\ pickings[k].state = "open"
    /\ \E q \in Quantities \ {Nothing}, backorder \in BOOLEAN :
         /\ \A l \in Lines : q[l] <= pickings[k].demand[l]
         /\ \/ backorder /\ UNCHANGED disturbed
            \/ ~backorder /\ q # pickings[k].demand /\ Disturb("no_backorder")
         /\ pickings' = WithDone(pickings, k, pickings[k], q, backorder)
         /\ Len(pickings') <= MaxPickings
    /\ jobs' = jobs \cup {[picking |-> k, state |-> "pending", row |-> None, id |-> None]}
    /\ locked' = (locked \/ Shipped(pickings'))
    /\ UNCHANGED <<import, store, export, imports, orphans, unseen, skipped>>

(* A change is after the last synchronisation, or in its second; or there  *)
(* was none.                                                               *)
Changes(k, row, what) ==
    LET after == row.id # None /\ ~row.synched
    IN  /\ pickings' = [pickings EXCEPT ![k] =
              [row EXCEPT !.lineChanged = @ \/ (what = "line" /\ after),
                          !.infoChanged = @ \/ (what = "info" /\ after)]]
        /\ unseen' = IF row.synched THEN unseen \cup {k} ELSE unseen
        /\ UNCHANGED <<locked, jobs, import, store, export, imports, orphans, skipped>>

ChangeTracking(k) ==
    /\ pickings[k].state = "done"
    /\ Disturb("tracking")
    /\ Changes(k, [pickings[k] EXCEPT !.info = @ + 1], "info")

(* A person corrects a delivery that is done: stock.move.line's write.     *)
ChangeQuantity(k) ==
    /\ pickings[k].state = "done"
    /\ Disturb("quantity")
    /\ \E l \in Lines : /\ pickings[k].done[l] > 0
                        /\ Changes(k, [pickings[k] EXCEPT !.done[l] = @ - 1], "line")

ChangeSettings ==
    /\ Disturb("settings")
    /\ export' = ~export
    /\ UNCHANGED <<pickings, locked, jobs, import, store, imports, orphans, unseen, skipped>>

-----------------------------------------------------------------------------
(* To the store.                                                           *)

Live == {i \in DOMAIN store : store[i].live}
OnStore(l) == MapThenSumSet(LAMBDA i : store[i].items[l], Live)
Fits(items) == items # Nothing /\ \A l \in Lines : OnStore(l) + items[l] <= Ordered[l]

(* The store makes a shipment, or refuses quantities that it has not.      *)
NewShipment(items, info, by) ==
    [items |-> items, info |-> info, by |-> by, live |-> TRUE]

StaffShips ==
    /\ Cardinality({i \in DOMAIN store : store[i].by = "store"}) < MaxShipments
    /\ \E items \in Quantities :
         Fits(items) /\ store' = Append(store, NewShipment(items, 0, "store"))
    /\ UNCHANGED <<pickings, locked, jobs, import, export, counts, orphans, unseen, skipped>>

(* _post_shipment_to_channel as far as the answer.  Without the setting it *)
(* does nothing.  The store also refuses an address that is not the        *)
(* order's.                                                                *)
PostRecord(j) ==
    LET row == pickings[j.picking]
        Answered(id) == jobs' = (jobs \ {j}) \cup {[j EXCEPT !.state = "sent", !.row = row, !.id = id]}
    IN  /\ j.state = "pending"
        /\ \/ /\ ~export
              /\ jobs' = jobs \ {j}
              /\ skipped' = skipped \cup {j.picking}
              /\ UNCHANGED store
           \/ /\ export /\ Fits(row.done)
              /\ store' = Append(store, NewShipment(row.done, row.info, "odoo"))
              /\ Answered(Len(store) + 1)
              /\ UNCHANGED skipped
           \/ export /\ Answered(None) /\ UNCHANGED <<store, skipped>>
        /\ UNCHANGED <<pickings, locked, import, export, counts, orphans, unseen>>

(* Mutant of PostCommitted: a refusal is not told.                         *)
PostCommittedQuietly(j) ==
    /\ j.state = "sent" /\ ~Overwritten(j.picking, j.row)
    /\ pickings' = [pickings EXCEPT ![j.picking] =
                      IF j.id = None THEN @ ELSE Synched([@ EXCEPT !.id = j.id])]
    /\ jobs' = jobs \ {j}
    /\ UNCHANGED <<locked, import, store, export, counts, orphans, unseen, skipped>>

(* The id and the time are written, or an exception on the delivery.       *)
PostCommitted(j) ==
    /\ j.state = "sent" /\ ~Overwritten(j.picking, j.row)
    /\ pickings' = [pickings EXCEPT ![j.picking] =
                      IF j.id = None THEN [@ EXCEPT !.failed = TRUE]
                      ELSE Synched([@ EXCEPT !.id = j.id])]
    /\ jobs' = jobs \ {j}
    /\ UNCHANGED <<locked, import, store, export, counts, orphans, unseen, skipped>>

(* The delivery was changed meanwhile, or the worker dies: the job will    *)
(* start again, and post again.                                            *)
PostRolledBack(j) ==
    /\ j.state = "sent"
    /\ \/ Overwritten(j.picking, j.row) /\ UNCHANGED disturbed
       \/ Disturb("dies")
    /\ jobs' = (jobs \ {j}) \cup {[j EXCEPT !.state = "pending", !.row = None, !.id = None]}
    /\ orphans' = IF j.id = None THEN orphans ELSE orphans \cup {j.id}
    /\ UNCHANGED <<pickings, locked, import, store, export, imports, unseen, skipped>>

(* The store does not answer.                                              *)
PostFails(j) ==
    /\ j.state = "pending" /\ export
    /\ Disturb("fails")
    /\ jobs' = (jobs \ {j}) \cup {[j EXCEPT !.state = "failed"]}
    /\ UNCHANGED <<pickings, locked, import, store, export, imports, orphans, unseen, skipped>>

Requeue(j) ==
    /\ j.state = "failed"
    /\ Disturb("requeue")
    /\ jobs' = (jobs \ {j}) \cup {[j EXCEPT !.state = "pending"]}
    /\ UNCHANGED <<pickings, locked, import, store, export, imports, orphans, unseen, skipped>>

(* do_update_shipment_to_channel.  For quantities the shipment is deleted; *)
(* the call that should make the new one lacks its argument, so that the   *)
(* transaction is rolled back.                                             *)
UpdateShipment(k) ==
    LET p == pickings[k]
    IN  /\ UpdateNeeded(p) /\ export
        /\ IF p.lineChanged
           THEN store[p.id].live /\ store' = [store EXCEPT ![p.id].live = FALSE] /\ UNCHANGED pickings
           ELSE IF store[p.id].live
           THEN /\ store' = [store EXCEPT ![p.id].info = p.info]
                /\ pickings' = [pickings EXCEPT ![k] = Synched(@)]
           ELSE UNCHANGED store /\ pickings' = [pickings EXCEPT ![k].failed = TRUE]
        /\ UNCHANGED <<locked, jobs, import, export, counts, orphans, unseen, skipped>>

-----------------------------------------------------------------------------
(* From the store.                                                         *)

(* What a delivery's moves of one product get of an item: the smallest     *)
(* demand first, as much as it asks for, and the last one what is left.    *)
(* A move that gets nothing keeps what it has.                             *)
Moves(demand, l) ==
    SetToSortSeq({m \in SameProduct(l) : demand[m] > 0},
                 LAMBDA a, b : demand[a] < demand[b] \/ (demand[a] = demand[b] /\ a < b))

(* Mutant of Gets: the last move gets no more than it asks for.            *)
GetsAtMost(demand, l, quantity, m) ==
    LET moves == Moves(demand, l)
        i == SelectInSeq(moves, LAMBDA k : k = m)
        left == quantity - Total(demand, {moves[k] : k \in 1..(i - 1)})
    IN  IF left <= 0 THEN 0 ELSE IF left > demand[m] THEN demand[m] ELSE left

Gets(demand, l, quantity, m) ==
    LET moves == Moves(demand, l)
        i == SelectInSeq(moves, LAMBDA k : k = m)
        left == quantity - Total(demand, {moves[k] : k \in 1..(i - 1)})
    IN  IF left <= 0 THEN 0 ELSE IF i < Len(moves) /\ left > demand[m] THEN demand[m] ELSE left

(* Items are taken in turn, and a later one overwrites what an earlier one *)
(* gave.                                                                   *)
Given(demand, items) ==
    [m \in Lines |->
        LET givers == {l \in SameProduct(m) : demand[m] > 0 /\ items[l] > 0 /\ Gets(demand, l, items[l], m) > 0}
        IN  IF givers = {} THEN 0 ELSE Gets(demand, Max(givers), items[Max(givers)], m)]

(* One shipment: it goes to the open delivery.  Without one, an error ends *)
(* the import; what it has done so far stays.                              *)
Accept(st, i) ==
    IF st.failed \/ Opened(st.rows) = {} THEN [st EXCEPT !.failed = TRUE]
    ELSE LET k == Min(Opened(st.rows))
             row == Synched([st.rows[k] EXCEPT !.id = i, !.info = store[i].info])
         IN  [st EXCEPT !.rows = WithDone(@, k, row, Given(row.demand, store[i].items), TRUE)]

(* re_create_physical_transfer: what is neither delivered nor to be, in    *)
(* the open delivery or, without one, in a new one.                        *)
Recreated(rows) ==
    LET planned(l) == Delivered(rows, l) + MapThenSumSet(LAMBDA k : rows[k].demand[l], Opened(rows))
        rest == [l \in Lines |-> IF planned(l) < Ordered[l] THEN Ordered[l] - planned(l) ELSE 0]
    IN  CASE rest = Nothing -> rows
          [] Opened(rows) = {} -> Append(rows, Picking(rest))
          [] OTHER -> [rows EXCEPT ![Min(Opened(rows))].demand = [l \in Lines |-> @[l] + rest[l]]]

Unknown(rows) == {i \in Live : \A k \in DOMAIN rows : rows[k].id # i}

(* Mutant of New: ids that are known are not left out.                     *)
NewAll(rows) == SetToSortSeq(Live, <)

(* _get_new_shipments_for_importing.                                       *)
New(rows) == SetToSortSeq(Unknown(rows), <)

ImportBegins ==
    /\ import = None
    /\ imports < MaxImports /\ imports' = imports + 1
    /\ import' = [rows |-> pickings]
    /\ UNCHANGED <<pickings, locked, jobs, store, export, disturbed, orphans, unseen, skipped>>

(* The store's list of shipments, process_shipment_data_from_channel, and  *)
(* the commit.  A failure is an entry in omni.log.                         *)
Processed(rows) ==
    IF New(rows) = <<>> THEN rows
    ELSE FoldLeft(Accept, [rows |-> Recreated(rows), failed |-> FALSE], New(rows)).rows

ImportEnds ==
    LET base == import.rows
        rows == Processed(base)
        written == {k \in DOMAIN base : rows[k] # base[k]}
    IN  /\ import # None
        /\ \A k \in written : ~Overwritten(k, base[k])
        /\ pickings' = [k \in DOMAIN pickings |-> IF k \in written THEN rows[k] ELSE pickings[k]]
                         \o SubSeq(rows, Len(base) + 1, Len(rows))
        /\ Len(pickings') <= MaxPickings
        /\ locked' = IF written \cup (DOMAIN rows \ DOMAIN base) # {} THEN Shipped(rows)
                     ELSE locked /\ New(base) = <<>>
        /\ import' = None
        /\ orphans' = orphans \cup {i \in Unknown(base) : store[i].by = "odoo"}
        /\ UNCHANGED <<jobs, store, export, counts, unseen, skipped>>

(* Another has written a delivery that the import writes: it starts again. *)
ImportConflicts ==
    LET base == import.rows
    IN  /\ import # None
        /\ \E k \in DOMAIN base : Overwritten(k, base[k]) /\ Processed(base)[k] # base[k]
        /\ import' = [rows |-> pickings]
        /\ UNCHANGED <<pickings, locked, jobs, store, export, counts, orphans, unseen, skipped>>

Next ==
    \/ Tick \/ ChangeSettings \/ StaffShips
    \/ ImportBegins \/ ImportEnds \/ ImportConflicts
    \/ \E k \in DOMAIN pickings :
         Validate(k) \/ ChangeTracking(k) \/ ChangeQuantity(k) \/ UpdateShipment(k)
    \/ \E j \in jobs :
         PostRecord(j) \/ PostCommitted(j) \/ PostRolledBack(j) \/ PostFails(j) \/ Requeue(j)

Spec == Init /\ [][Next]_vars

(* The jobs run.                                                           *)
Fairness == WF_vars(\E j \in jobs : PostRecord(j) \/ PostCommitted(j) \/ PostRolledBack(j))

FairSpec == Spec /\ Fairness

-----------------------------------------------------------------------------
(* Properties.                                                             *)

(* No shipment of the store is taken for two deliveries, and what Odoo has *)
(* shipped there belongs to one, or to a job that is about to write its    *)
(* id, however posts, imports and changes interleave; but for the ids that *)
(* an import met, or a job lost, between the answer and the commit         *)
(* (bigcommerce_post_record, _get_new_shipments_for_importing).            *)
ShipmentsAccounted ==
    \A i \in DOMAIN store \ orphans :
        LET owners == Cardinality({k \in DOMAIN pickings : pickings[k].id = i})
                        + Cardinality({j \in jobs : j.id = i})
        IN  owners <= 1 /\ (store[i].by = "odoo" => owners = 1)

TwoItems(i) == \E l, m \in Lines : l # m /\ Product(l) = Product(m) /\ store[i].items[l] > 0 /\ store[i].items[m] > 0

Agrees(p) ==
    /\ store[p.id].info = p.info
    /\ \A l \in Lines :
         (\E m \in SameProduct(l) : p.demand[m] > 0) =>
            Total(p.done, SameProduct(l)) = Total(store[p.id].items, SameProduct(l))

(* A delivery agrees with its shipment on the store, or Odoo shows that it *)
(* must be sent.  The exceptions are a change in the second of the         *)
(* synchronisation, because dates have no fractions, the orphans, and      *)
(* shipments from the store with two items of a product                    *)
(* (is_update_to_channel_needed, process_shipment_data_from_channel).      *)
StoreAgrees ==
    \A k \in Done(pickings) \ unseen :
        LET p == pickings[k]
        IN  p.id \notin orphans \cup {None} /\ store[p.id].live /\ ~UpdateNeeded(p)
              => Agrees(p) \/ (store[p.id].by = "store" /\ TwoItems(p.id))

Told(k) ==
    /\ k \in DOMAIN pickings
    /\ \/ pickings[k].id # None \/ pickings[k].failed \/ k \in skipped
       \/ \E j \in jobs : j.picking = k /\ j.state = "failed"

(* A delivery that is validated gets to the store, or a person sees why it *)
(* did not: an exception on the delivery or a failed job.                  *)
Arrives == \A k \in 1..MaxPickings : k \in Done(pickings) ~> Told(k)
=============================================================================
