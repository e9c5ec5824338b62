---------------------------- MODULE ProductImport ----------------------------
(***************************************************************************)
(* The import of products: which product of Odoo a variant of the store    *)
(* is linked to, and from when the next import lists the store again.      *)
(*                                                                         *)
(* A pull lists the products that changed since last_sync_product, the     *)
(* watermark, or all, or some; it queues a job for each and commits.  When *)
(* all of them are done or failed, a last job moves the watermark to the   *)
(* time when the newest of them was made.  The job of a product finds the  *)
(* products of Odoo (masters) by SKU, makes those that are missing if it   *)
(* may, and links the mapping and its variants to them.  It is one         *)
(* transaction that sees the tables as they were when it began.            *)
(*                                                                         *)
(* Times are counts of the edits on the store: an edit lies before a time  *)
(* if it was made before it.                                               *)
(***************************************************************************)
EXTENDS Integers, Sequences, FiniteSets, FiniteSetsExt, SequencesExt

CONSTANTS
    Products,        \* of the store
    Offers(_),       \* what the staff of the store may make of a product
    NoSku,           \* less than any SKU; SKUs are numbers, in the order of the search
    Plain,           \* the options of the variant of a product that has none
    MaxSku, MaxMasters,   \* bound: SKUs the user gives, masters there may be
    Workers,         \* so many transactions at once
    MaxEdits,        \* bound: the staff edit so often
    MaxPulls,        \* bound: the store is listed so often
    Disturbances, MaxDisturbances,   \* what else may happen, and how often
    None

Offered == UNION {Offers(p) : p \in Products}
JobRecords ==
    [pull : Nat, product : Products, version : Nat, offer : Offered, auto : BOOLEAN]

(* SKUs are numbers; a product of the store that has no options has one    *)
(* variant.                                                                *)
WellFormed(offer) ==
    /\ offer.sku \in Int
    /\ IsFiniteSet(DOMAIN offer.variants) /\ DOMAIN offer.variants \subseteq Nat
    /\ \A s \in DOMAIN offer.variants :
          /\ offer.variants[s].sku \in Int
          /\ offer.variants[s].opts = Plain => DOMAIN offer.variants = {s}

(* What a master may be.                                                   *)
Options == {Plain} \cup UNION {{offer.variants[s].opts : s \in DOMAIN offer.variants} : offer \in Offered}
MasterRecords == [tmpl : Nat, sku : Int, opts : Options]

ASSUME ProductImportAssumption ==
    /\ None \notin JobRecords /\ None \notin MasterRecords
    /\ IsFiniteSet(Products)
    /\ MaxMasters \in Nat /\ MaxSku \in Int /\ NoSku \in Int
    /\ \A offer \in Offered : WellFormed(offer)

VARIABLES
    store,       \* [Products -> offer, version]; version: the edit that made it
    master,      \* [Masters -> tmpl, sku, opts, or None]: product.product
    mapping,     \* [Products -> tmpl, says, variants, or None]: product.channel
    watermark,   \* last_sync_product
    pull,        \* the listing under way, or None
    jobs,        \* jobs of products that are pending
    runs,        \* [Workers -> the job that runs, or None]
    views,       \* [Workers -> ms, m: what its transaction sees, or None]
    ends,        \* jobs done_synching
    failed,      \* <<product, version>> that a failed job had: its log tells
    edits, pulls, disturbed,   \* count, for the bounds
    reached,     \* history: the newest version of a product ever imported
    passed       \* history: <<product, version>> that a listing passed over: made after
                 \* the product was listed and before the last job was queued, or on a
                 \* page that the store refused

counts == <<edits, pulls, disturbed>>
odoo == <<master, mapping>>
queue == <<watermark, pull, jobs, ends, failed>>
histories == <<reached, passed>>
workers == <<runs, views>>
vars == <<store, odoo, queue, workers, counts, histories>>

Masters == 1..MaxMasters
Always == -1     \* the date of a listing that is given none

Disturb(kind) ==
    kind \in Disturbances /\ disturbed < MaxDisturbances /\ disturbed' = disturbed + 1

-----------------------------------------------------------------------------
(* What a job makes of the data of a product.  ms are the masters it sees. *)

Known(ms) == {v \in Masters : ms[v] # None}
SkusOf(offer) == {offer.variants[s].sku : s \in DOMAIN offer.variants}
Of(ms, t) == {v \in Known(ms) : ms[v].tmpl = t}

(* _search_product_variant_by_default_code, in the order of default_code.  *)
Matching(ms, offer) == {v \in Known(ms) : ms[v].sku # NoSku /\ ms[v].sku \in SkusOf(offer)}
FirstOf(ms, vs) == CHOOSE v \in vs : \A u \in vs : ms[v].sku < ms[u].sku \/ (ms[v].sku = ms[u].sku /\ v >= u)

(* check_unique_default_code: a search, so it knows what the job sees.     *)
Taken(ms, sku) == sku # NoSku /\ \E v \in Known(ms) : ms[v].sku = sku

(* What was found for a variant: a master of the chosen template only.     *)
Found(ms, t, variant) == {v \in Of(ms, t) : ms[v].sku = variant.sku /\ variant.sku # NoSku}

(* The work of a job: masters, links of the variants, SKUs told of in the  *)
(* log, and whether it goes on.  gone: the last variant was unlinked, and  *)
(* the mapping with it (unlink_if_no_variants).                            *)
Fails(work) == [work EXCEPT !.ok = FALSE]
Unlinked(work, s) ==
    LET left == Restrict(work.links, DOMAIN work.links \ {s})
    IN  [work EXCEPT !.links = left, !.gone = s \in DOMAIN work.links /\ DOMAIN left = {}]
Told(work, s) == [work EXCEPT !.told = @ \cup {s}]
Linked(work, s, variant, v) ==
    LET link == [sku |-> variant.sku, as |-> variant.sku, product |-> v, crossed |-> FALSE]
    IN  [work EXCEPT !.links = [x \in DOMAIN @ \cup {s} |-> IF x = s THEN link ELSE @[x]]]

(* Mutant of Create: the options are enough to link a variant.             *)
CreateByOptions(work, t, s, variant, auto) ==
    LET same == {v \in Of(work.ms, t) : work.ms[v].opts = variant.opts}
        new  == {v \in work.free : work.ms[v] = None}
    IN  IF same # {}
        THEN Linked(work, s, variant, Min(same))
        ELSE IF ~auto
        THEN Told(work, s)
        ELSE IF Taken(work.ms, variant.sku)
        THEN Fails(work)
        ELSE Linked([work EXCEPT !.ms[Min(new)] = [tmpl |-> t, sku |-> variant.sku, opts |-> variant.opts]],
                    s, variant, Min(new))

(* _create_product_product and what is done with its result.  A variant    *)
(* without options is the first of the template.  A master with the        *)
(* options and another SKU is a mismatch; one with the same (neither has   *)
(* any) cannot be made twice.                                              *)
Create(work, t, s, variant, auto) ==
    LET same == {v \in Of(work.ms, t) : work.ms[v].opts = variant.opts}
        new  == {v \in work.free : work.ms[v] = None}
    IN  IF variant.opts = Plain
        THEN Linked([work EXCEPT !.ms[Min(Of(work.ms, t))].sku = variant.sku],
                    s, variant, Min(Of(work.ms, t)))
        ELSE IF \E v \in same : work.ms[v].sku # variant.sku
        THEN Unlinked(Told(work, s), s)
        ELSE IF ~auto
        THEN IF same = {} THEN Told(work, s) ELSE Linked(work, s, variant, Min(same))
        ELSE IF same # {} \/ Taken(work.ms, variant.sku)
        THEN Fails(work)
        ELSE Linked([work EXCEPT !.ms[Min(new)] = [tmpl |-> t, sku |-> variant.sku, opts |-> variant.opts]],
                    s, variant, Min(new))

(* _process_mapping_variant.  A variant that is linked already is left as  *)
(* it is when a master is found, whichever it is.                          *)
Process(work, t, s, variant, auto) ==
    LET found == Found(work.ms, t, variant)
    IN  IF ~work.ok THEN work
        ELSE IF work.gone THEN Fails(work)
        ELSE IF s \in DOMAIN work.links
        THEN IF found # {} THEN work
             ELSE IF ~auto THEN Unlinked(Told(work, s), s)
             ELSE Create(work, t, s, variant, auto)
        ELSE IF found # {} THEN Linked(work, s, variant, FirstOf(work.ms, found))
             ELSE Create(work, t, s, variant, auto)

(* _sync_in_queue_job_with_manage_variants, for a job that finds something *)
(* or may make a template, fresh.  One that is made has a variant at once  *)
(* only if the product is plain.  Variants are processed in the order of   *)
(* their ids, which the greatest ends.                                     *)
(* Writing the SKU of the product to the mapping writes it to the variant, *)
(* if there is one (_set_default_code).  Variants that the product has no  *)
(* more are unlinked first.                                                *)
Import(ms, m, offer, auto, free, fresh) ==
    LET found  == Matching(ms, offer)
        plain  == \E s \in DOMAIN offer.variants : offer.variants[s].opts = Plain
        t      == IF found # {} THEN ms[FirstOf(ms, found)].tmpl ELSE fresh
        made   == IF found = {} /\ plain
                  THEN [ms EXCEPT ![Min(free)] = [tmpl |-> t, sku |-> offer.sku, opts |-> Plain]]
                  ELSE ms
        old    == IF m = None THEN <<>> ELSE m.variants
        named  == IF Cardinality(DOMAIN old) = 1 THEN [s \in DOMAIN old |-> [old[s] EXCEPT !.sku = offer.sku]]
                                                ELSE old
        kept   == Restrict(named, DOMAIN old \cap DOMAIN offer.variants)
        start  == [ms |-> made, free |-> free, links |-> kept, told |-> {}, ok |-> TRUE,
                   gone |-> DOMAIN old # {} /\ DOMAIN kept = {}, tmpl |-> t]
    IN  IF found = {} /\ ~auto THEN Fails(start)
        ELSE MapThenFoldSet(LAMBDA s, work : Process(work, t, s, offer.variants[s], auto),
                            start, LAMBDA s : s, Max, DOMAIN offer.variants)

-----------------------------------------------------------------------------
(* The world.                                                              *)

Init ==
    /\ store \in [Products -> UNION {[offer : Offers(p), version : {0}] : p \in Products}]
    /\ \A p \in Products : store[p].offer \in Offers(p)
    /\ \A p, q \in Products : p # q => SkusOf(store[p].offer) \cap SkusOf(store[q].offer) \subseteq {NoSku}
    /\ master = [v \in Masters |-> None]
    /\ mapping = [p \in Products |-> None]
    /\ watermark = Always
    /\ pull = None
    /\ jobs = {} /\ ends = {} /\ failed = {}
    /\ runs = [w \in Workers |-> None] /\ views = [w \in Workers |-> None]
    /\ edits = 0 /\ pulls = 0 /\ disturbed = 0
    /\ reached = [p \in Products |-> Always]
    /\ passed = {}

(* The staff of the store edit a product.  The store keeps SKUs unique.    *)
StaffEdits(p) ==
    /\ edits < MaxEdits
    /\ edits' = edits + 1
    /\ \E offer \in Offers(p) \ {store[p].offer} :
          /\ \A q \in Products \ {p} : SkusOf(offer) \cap SkusOf(store[q].offer) \subseteq {NoSku}
          /\ store' = [store EXCEPT ![p] = [offer |-> offer, version |-> edits + 1]]
    /\ UNCHANGED <<odoo, queue, workers, pulls, disturbed, histories>>

FreshTemplate ==
    1 + Max({0} \cup {master[v].tmpl : v \in Known(master)}
               \cup {mapping[p].tmpl : p \in {q \in Products : mapping[q] # None}})

StoreSkus == UNION {SkusOf(offer) : offer \in Offered} \ {NoSku}

(* The user makes a product without options.                               *)
UserCreates(sku) ==
    /\ Disturb("creates")
    /\ ~Taken(master, sku)
    /\ \E v \in Masters : master[v] = None
    /\ master' = [master EXCEPT ![Min(Masters \ Known(master))] =
                     [tmpl |-> FreshTemplate, sku |-> sku, opts |-> Plain]]
    /\ UNCHANGED <<store, mapping, queue, workers, edits, pulls, histories>>

(* The user gives a product another SKU.  The variants that are mapped to  *)
(* it are unlinked, and a mapping that has no others (remove_mapping).     *)
LinksWithout(m, v) ==
    LET left == {s \in DOMAIN m.variants : m.variants[s].product # v}
    IN  IF left = {} /\ DOMAIN m.variants # {} THEN None
        ELSE [m EXCEPT !.variants = Restrict(m.variants, left)]
UserChangesSku(v, sku) ==
    /\ Disturb("changes")
    /\ master[v].sku # sku
    /\ ~Taken(master, sku)
    /\ master' = [master EXCEPT ![v].sku = sku]
    /\ mapping' = [p \in Products |-> IF mapping[p] = None THEN None ELSE LinksWithout(mapping[p], v)]
    /\ UNCHANGED <<store, queue, workers, edits, pulls, histories>>

-----------------------------------------------------------------------------
(* The listing of the store: one job, which commits with every job that it *)
(* queues.                                                                 *)

(* import_product and the wizard: what changed since the watermark, or all;*)
(* both move it.  _import_product of a log: one product again, which does  *)
(* not.                                                                    *)
NewPull(from, ps, moves) ==
    /\ pull = None /\ pulls < MaxPulls
    /\ \E auto \in BOOLEAN :
          pull' = [n |-> pulls + 1, from |-> from, left |-> ps, auto |-> auto, moves |-> moves,
                   held |-> None, seen |-> [p \in Products |-> Always], last |-> None]
    /\ pulls' = pulls + 1
    /\ UNCHANGED <<store, odoo, watermark, jobs, ends, failed, workers, edits, disturbed, histories>>
ImportSinceLast == NewPull(watermark, Products, TRUE)
ImportAll == NewPull(Always, Products, TRUE)
ImportAgain(p) == (\E v \in 0..MaxEdits : <<p, v>> \in failed) /\ NewPull(Always, {p}, FALSE)

(* The store answers for a product, with its data if it changed since the  *)
(* date that was asked for.                                                *)
FetchProduct(p) ==
    /\ pull # None /\ pull.held = None /\ p \in pull.left
    /\ pull' = [pull EXCEPT !.left = @ \ {p}, !.seen[p] = store[p].version,
                   !.held = IF store[p].version > pull.from
                            THEN [pull |-> pull.n, product |-> p, version |-> store[p].version,
                                  offer |-> store[p].offer, auto |-> pull.auto]
                            ELSE None]
    /\ UNCHANGED <<store, odoo, watermark, jobs, ends, failed, workers, counts, histories>>

(* create_jobs_for_synching, for one product, to its commit.               *)
Passed == {<<p, store[p].version>> : p \in {q \in Products : pull.seen[q] \in 0..(store[q].version - 1)}}
QueueJob ==
    /\ pull # None /\ pull.held # None
    /\ jobs' = jobs \cup {pull.held}
    /\ pull' = [pull EXCEPT !.held = None, !.last = edits]
    /\ passed' = IF pull.moves THEN passed \cup Passed ELSE passed
    /\ UNCHANGED <<store, odoo, watermark, ends, failed, workers, counts, reached>>

(* The listing ends, with a job done_synching if any job was queued.       *)
ListingEnds ==
    /\ pull # None /\ pull.held = None
    /\ ends' = IF pull.last = None THEN ends
               ELSE ends \cup {[pull |-> pull.n, last |-> pull.last, moves |-> pull.moves]}
    /\ pull' = None
    /\ UNCHANGED <<store, odoo, watermark, jobs, failed, workers, edits, pulls, reached>>
EndPull == ListingEnds /\ pull.left = {} /\ UNCHANGED <<disturbed, passed>>

(* A page that is refused, or not answered, is empty, and an empty page is *)
(* the last: the listing ends as if nothing were left.                     *)
LeftOut == {<<p, store[p].version>> : p \in {q \in pull.left : store[q].version \in (pull.from + 1)..pull.last}}
RefusePage ==
    /\ ListingEnds /\ pull.left # {}
    /\ Disturb("refused")
    /\ passed' = IF pull.moves /\ pull.last # None THEN passed \cup LeftOut ELSE passed

(* The server dies, or an answer cannot be read: what was queued stays.    *)
BreakPull ==
    /\ Disturb("breaks")
    /\ pull # None
    /\ pull' = None
    /\ UNCHANGED <<store, odoo, watermark, jobs, ends, failed, workers, edits, pulls, histories>>

(* A job of the listing is neither done nor failed.                        *)
Waits(end) ==
    \/ \E j \in jobs : j.pull = end.pull
    \/ \E w \in Workers : runs[w] # None /\ runs[w].pull = end.pull

(* Mutant of DoneSynching: the watermark is the present time.              *)
DoneSynchingNow(end) ==
    /\ ~Waits(end)
    /\ ends' = ends \ {end}
    /\ watermark' = IF end.moves THEN edits ELSE watermark
    /\ UNCHANGED <<store, odoo, pull, jobs, failed, workers, counts, histories>>

(* done_synching, which is retried until every job is done or failed: the  *)
(* first of them in the order of queue.job is the newest.                  *)
DoneSynching(end) ==
    /\ ~Waits(end)
    /\ ends' = ends \ {end}
    /\ watermark' = IF end.moves THEN end.last ELSE watermark
    /\ UNCHANGED <<store, odoo, pull, jobs, failed, workers, counts, histories>>

-----------------------------------------------------------------------------
(* The job of a product: _sync_in_queue_job.                               *)

StartJob(w, j) ==
    /\ runs[w] = None
    /\ jobs' = jobs \ {j}
    /\ runs' = [runs EXCEPT ![w] = j]
    /\ views' = [views EXCEPT ![w] = [ms |-> master, m |-> mapping[j.product]]]
    /\ UNCHANGED <<store, odoo, watermark, pull, ends, failed, counts, histories>>

(* A run: the job with what its transaction sees.                          *)
RunOf(w) == [job |-> runs[w], ms |-> views[w].ms, m |-> views[w].m]

Free == Masters \ Known(master)
WorkOf(run) == Import(run.ms, run.m, run.job.offer, run.job.auto, Free, FreshTemplate)

(* Rows that the job writes and that somebody else wrote since it began.   *)
Row(m) == IF m = None THEN None ELSE [tmpl |-> m.tmpl, says |-> m.says]
LinkOf(m, s) == IF m # None /\ s \in DOMAIN m.variants THEN m.variants[s] ELSE None
NewRow(run, work) == [tmpl |-> work.tmpl, says |-> run.job.version]
TouchesRow(run, work) == work.gone \/ NewRow(run, work) # Row(run.m)
Touches(run, work, s) ==
    LinkOf(run.m, s) # (IF s \in DOMAIN work.links THEN work.links[s] ELSE None)
OldLinks(run) == IF run.m = None THEN {} ELSE DOMAIN run.m.variants
Conflict(run, work) ==
    LET live == mapping[run.job.product]
    IN  /\ run.m # None
        /\ \/ TouchesRow(run, work) /\ Row(live) # Row(run.m)
           \/ \E s \in OldLinks(run) : Touches(run, work, s) /\ LinkOf(live, s) # LinkOf(run.m, s)

(* The job fails: what it does cannot be done, the mapping was made by     *)
(* another (uniq_channel), or was removed with nothing of it rewritten.    *)
Doomed(run, work) ==
    LET live == mapping[run.job.product]
    IN  \/ ~work.ok
        \/ run.m = None /\ live # None
        \/ run.m # None /\ live = None /\ ~DOMAIN work.links \subseteq OldLinks(run)

(* A link to a master whose SKU was changed meanwhile is crossed.          *)
Crossed(run, link) ==
    [link EXCEPT !.crossed = @ \/ /\ link.product \in Known(run.ms)
                                  /\ master[link.product].sku # run.ms[link.product].sku]
NewLinks(run, work) ==
    LET p    == run.job.product
        kept == {s \in OldLinks(run) : ~Touches(run, work, s) /\ LinkOf(mapping[p], s) # None}
        own  == {s \in DOMAIN work.links : Touches(run, work, s)}
    IN  [s \in kept \cup own |-> IF s \in kept THEN mapping[p].variants[s] ELSE Crossed(run, work.links[s])]

Ends(w) ==
    /\ runs' = [runs EXCEPT ![w] = None] /\ views' = [views EXCEPT ![w] = None]
    /\ UNCHANGED <<store, watermark, pull, ends, edits, pulls>>

CommitJob(w) ==
    /\ runs[w] # None
    /\ Cardinality(Free) >= Cardinality(DOMAIN runs[w].offer.variants)
    /\ LET run == RunOf(w) IN LET job == runs[w] IN LET work == WorkOf(run)
       IN  /\ Ends(w)
           /\ \/ /\ Conflict(run, work) /\ work.ok
                 /\ jobs' = jobs \cup {job}
                 /\ UNCHANGED <<odoo, failed, reached>>
              \/ /\ Doomed(run, work) /\ ~(work.ok /\ Conflict(run, work))
                 /\ failed' = failed \cup {<<job.product, job.version>>}
                 /\ UNCHANGED <<odoo, jobs, reached>>
              \/ /\ ~Doomed(run, work) /\ ~Conflict(run, work)
                 /\ master' = [v \in Masters |-> IF run.ms[v] = None /\ work.ms[v] # None
                                                THEN work.ms[v] ELSE master[v]]
                 /\ mapping' = [mapping EXCEPT ![job.product] =
                                  IF work.gone \/ (run.m # None /\ mapping[job.product] = None) THEN None
                                  ELSE [tmpl |-> work.tmpl, says |-> run.job.version,
                                        variants |-> NewLinks(run, work)]]
                 /\ reached' = [reached EXCEPT ![job.product] = Max({@, job.version})]
                 /\ UNCHANGED <<jobs, failed>>
    /\ UNCHANGED <<disturbed, passed>>

(* The server dies or the request does: nothing of it stays, and the job   *)
(* is pending again.                                                       *)
LoseJob(w) ==
    /\ runs[w] # None
    /\ jobs' = jobs \cup {runs[w]}
    /\ Ends(w)
    /\ UNCHANGED <<odoo, failed, disturbed, histories>>

Next ==
    \/ \E p \in Products : StaffEdits(p) \/ ImportAgain(p) \/ FetchProduct(p)
    \/ \E sku \in StoreSkus : UserCreates(sku)
    \/ \E sku \in 1..MaxSku, v \in Known(master) : UserChangesSku(v, sku)
    \/ ImportSinceLast \/ ImportAll \/ QueueJob \/ EndPull \/ RefusePage \/ BreakPull
    \/ \E end \in ends : DoneSynching(end)
    \/ \E w \in Workers : (\E j \in jobs : StartJob(w, j)) \/ CommitJob(w) \/ LoseJob(w)

Spec == Init /\ [][Next]_vars

-----------------------------------------------------------------------------
(* A variant of a listing is linked to a product that has the SKU by which *)
(* it was linked, unless the user changed it while the job ran: orders of  *)
(* the variant are orders of that product (_prepare_mapping_skus,          *)
(* _create_product_product, remove_mapping).                               *)
LinkedBySku ==
    \A p \in Products : mapping[p] # None =>
        \A s \in DOMAIN mapping[p].variants :
            LET link == mapping[p].variants[s]
            IN  link.crossed \/ (master[link.product] # None /\ master[link.product].sku = link.as)

(* What the staff did to a product reaches Odoo: it was imported, is on    *)
(* its way, is told of by a failed job, or lies after the watermark so     *)
(* that the next import lists it (done_synching).  It may have been passed *)
(* over when it happened while the listing ran, or when its page was       *)
(* refused: the code moves the watermark beyond both.                      *)
OnItsWay(p) ==
    \/ \E j \in jobs : j.product = p /\ j.version = store[p].version
    \/ \E w \in Workers : runs[w] # None /\ runs[w].product = p /\ runs[w].version = store[p].version
    \/ pull # None /\ pull.held # None /\ pull.held.product = p /\ pull.held.version = store[p].version
EditsFollowed ==
    \A p \in Products :
        \/ reached[p] = store[p].version
        \/ OnItsWay(p)
        \/ <<p, store[p].version>> \in failed \cup passed
        \/ store[p].version > watermark
=============================================================================
