------------------------------ MODULE Listings ------------------------------
(***************************************************************************)
(* The mapping of one product (a product.channel) and the store's products.*)
(*                                                                         *)
(* A mapping is made by an export of the master product, or by an import.  *)
(* Its state tells the user whether the store has what Odoo has: an edit   *)
(* makes a published mapping "updated", and an export publishes it again.  *)
(* An export is one transaction with many calls to the store: it reads the *)
(* product, puts it, deletes and posts variants, and reads it again to     *)
(* learn the ids.  What it did on the store stays when it is rolled back.  *)
(*                                                                         *)
(* A transaction sees the row as it was when it began, and fails if it     *)
(* writes the row after another has (REPEATABLE READ).                     *)
(***************************************************************************)
EXTENDS Integers, Sequences, FiniteSets, FiniteSetsExt, SequencesExt

CONSTANTS
    Variants,        \* the variants of the product, named by their options
    Workers,         \* so many transactions at once
    MaxContents,     \* bound: so many versions of what the product says
    MaxProducts,     \* bound: so many products are ever made on the store
    MaxIds,          \* bound: ids of variants in use at one time
    MaxJobs,         \* bound: jobs in the queue at one time
    MaxRequests,     \* bound: the user asks so often for an export or a removal
    MaxImports,      \* bound: the product is imported so often
    Disturbances, MaxDisturbances,   \* what may happen, and how often
    None

Jobs == 1..MaxJobs
Exports == {"mapping", "update", "create"}

(* The values of the variables.  A variant of the mapping has an id once   *)
(* the store has it; a variant of the store always has one.                *)
Ids == 1..MaxIds
IdMaps == UNION {[vs -> Ids \cup {None}] : vs \in SUBSET Variants}
StoredIds == UNION {[vs -> Ids] : vs \in SUBSET Variants}
Contents == 0..MaxContents
Rows == [id : (1..MaxProducts) \cup {None}, state : {"draft", "updated", "published", "error"},
         content : Contents, ids : IdMaps]
Products == [content : Contents, ids : StoredIds]
Fetched == [id : 1..MaxProducts, content : Contents, ids : StoredIds]
JobRows == [kind : Exports \cup {"import", "gone"}, state : {"pending", "started", "failed"},
            product : Fetched \cup {None}]
RunRecords ==
    [job : 0..MaxJobs, kind : Exports \cup {"remove"},
     step : {"fetch", "put", "variants", "read", "post", "delete", "commit", "drop"},
     now : Rows, remote : StoredIds, stale : BOOLEAN, gone : BOOLEAN, touched : BOOLEAN]

ASSUME ListingsAssumption ==
    /\ IsFiniteSet(Variants) /\ Variants # {} /\ IsFiniteSet(Workers)
    /\ {MaxContents, MaxProducts, MaxIds, MaxJobs, MaxRequests, MaxImports, MaxDisturbances} \subseteq Nat
    /\ MaxProducts > 0 /\ MaxIds > 0
    /\ None \notin Nat \cup Rows \cup Products \cup Fetched \cup JobRows \cup RunRecords

VARIABLES
    listing,     \* the mapping, or None
    jobs,        \* the queue: exports and imports that are not done
    runs,        \* transactions that talk to the store
    store,       \* the products the store has had, by id; None when deleted
    contents, requests, imports, disturbed,   \* count, for the bounds
    shown,       \* history: the contents the store has had
    misled       \* history: a creation was repeated, refused, and taken for a success

counts == <<contents, requests, imports, disturbed>>
vars == <<listing, jobs, runs, store, counts, shown, misled>>

Alive(p) == p # None /\ store[p] # None
Names(row) == DOMAIN row.ids

Disturb(kind) ==
    kind \in Disturbances /\ disturbed < MaxDisturbances /\ disturbed' = disturbed + 1

(* The store numbers variants anew: no id that anything mentions.          *)
IdsIn(row) == IF row = None THEN {} ELSE Range(row.ids)
IdsInUse ==
    IdsIn(listing)
      \cup UNION {IdsIn(store[p]) : p \in DOMAIN store}
      \cup UNION {IdsIn(jobs[j].product) : j \in {k \in Jobs : jobs[k] # None}}
      \cup UNION {IdsIn(runs[w].now) \cup Range(runs[w].remote) : w \in {u \in Workers : runs[u] # None}}
FreeIds == (1..MaxIds) \ IdsInUse
Numberings(vs) == {f \in [vs -> FreeIds] : IsInjective(f)}
NewIds(vs) == CHOOSE f \in Numberings(vs) : TRUE
CanNumber(vs) == Numberings(vs) # {}     \* the bound MaxIds
Joined(new, old) ==
    [v \in DOMAIN new \cup DOMAIN old |-> IF v \in DOMAIN new THEN new[v] ELSE old[v]]

NoIds == [v \in {} |-> None]

Init ==
    /\ listing = None
    /\ jobs = [j \in Jobs |-> None]
    /\ runs = [w \in Workers |-> None]
    /\ store = <<[content |-> 0, ids |-> [v \in {CHOOSE u \in Variants : TRUE} |-> 1]]>>
    /\ contents = 0 /\ requests = 0 /\ imports = 0 /\ disturbed = 0
    /\ shown = {0}
    /\ misled = FALSE

-----------------------------------------------------------------------------
(* Helpers.                                                                *)

(* The other transactions that began before now find the row overwritten,  *)
(* or gone.                                                                *)
Overtaken == [w \in Workers |-> IF runs[w] = None THEN None ELSE [runs[w] EXCEPT !.stale = TRUE]]
Orphaned ==
    [w \in Workers |-> IF runs[w] = None THEN None ELSE [runs[w] EXCEPT !.stale = TRUE, !.gone = TRUE]]

(* A product has changed on the store under those that export it.          *)
Touched(rs, p) ==
    [w \in Workers |-> IF rs[w] # None /\ rs[w].now.id = p THEN [rs[w] EXCEPT !.touched = TRUE] ELSE rs[w]]
TouchedBy(w, p, run) == [Touched(runs, p) EXCEPT ![w] = run]

(* What was queued for a mapping that is removed fails.                    *)
Unlinked(js) ==
    [j \in Jobs |-> IF js[j] # None /\ js[j].kind \in Exports THEN [js[j] EXCEPT !.kind = "gone"] ELSE js[j]]

Queued(kind, product) ==
    LET free == {j \in Jobs : jobs[j] = None}
    IN  /\ free # {}
        /\ jobs' = [jobs EXCEPT ![Min(free)] = [kind |-> kind, state |-> "pending", product |-> product]]

Run(job, kind, step, row) ==
    [job |-> job, kind |-> kind, step |-> step, now |-> row,
     remote |-> NoIds, stale |-> FALSE, gone |-> FALSE, touched |-> FALSE]

FirstStep(kind) == IF kind = "create" THEN "post" ELSE "fetch"

(* The job of a transaction that has ended: done, to be retried, failed.   *)
JobAfter(w, state) ==
    IF runs[w].job = 0 THEN jobs
    ELSE [jobs EXCEPT ![runs[w].job] = IF state = "done" THEN None ELSE [@ EXCEPT !.state = state]]

-----------------------------------------------------------------------------
(* What the user does.                                                     *)

(* Mutant of Flagged: an error starts anew, whether there is an id or not. *)
FlaggedDraft(row) ==
    CASE row.state = "published" -> "updated"
      [] row.state = "error" -> "draft"
      [] OTHER -> row.state

(* The state that write gives a mapping that is edited.                    *)
Flagged(row) ==
    CASE row.state = "published" -> "updated"
      [] row.state = "error" -> IF row.id = None THEN "draft" ELSE "updated"
      [] OTHER -> row.state

Edit ==
    /\ listing # None
    /\ contents < MaxContents /\ contents' = contents + 1
    /\ listing' = [listing EXCEPT !.content = contents', !.state = Flagged(listing)]
    /\ runs' = Overtaken
    /\ UNCHANGED <<jobs, store, requests, imports, disturbed, shown, misled>>

Asks == requests < MaxRequests /\ requests' = requests + 1

(* "Export to Store" on the form, or on one of a list.                     *)
ExportToStore(w) ==
    /\ listing # None /\ listing.state \in {"updated", "error"}
    /\ runs[w] = None
    /\ Asks
    /\ runs' = [runs EXCEPT ![w] = Run(0, "mapping", "fetch", listing)]
    /\ UNCHANGED <<listing, jobs, store, contents, imports, disturbed, shown, misled>>

(* The same on a list of several.                                          *)
QueueExport ==
    /\ listing # None /\ listing.state \in {"updated", "error"}
    /\ Asks
    /\ Queued("mapping", None)
    /\ UNCHANGED <<listing, runs, store, contents, imports, disturbed, shown, misled>>

(* The mapping with the values of the master product and these variants.   *)
FromMaster(names, content) ==
    IF listing = None
    THEN [id |-> None, state |-> "draft", content |-> content, ids |-> [v \in names |-> None]]
    ELSE [listing EXCEPT !.content = content,
                         !.ids = [v \in names |-> IF v \in Names(listing) THEN @[v] ELSE None]]

(* Two transactions that make a mapping each: the second mapping is not    *)
(* followed here, so neither is this.                                      *)
NoneBeingMade(others) == listing = None => \A w \in others : runs[w] # None => runs[w].kind # "create"

(* The wizard that exports a master product.  It takes the mapping if the  *)
(* master has all its variants (and makes another one if not, which is not *)
(* followed here), writes it without a look at its state, and exports it   *)
(* at once, or with jobs when it is one of several.                        *)
ExportMaster(names) ==
    LET row == FromMaster(names, contents + 1)
        kind == IF row.id = None THEN "create" ELSE "update"
    IN  /\ listing # None => Names(listing) \subseteq names
        /\ NoneBeingMade(Workers)
        /\ contents < MaxContents /\ contents' = contents + 1
        /\ Asks
        /\ \/ /\ Queued(kind, None)
              /\ listing' = row
              /\ runs' = Overtaken
           \/ /\ \E w \in Workers :
                   /\ runs[w] = None
                   /\ runs' = [runs EXCEPT ![w] = Run(0, kind, FirstStep(kind), row)]
              /\ UNCHANGED <<listing, jobs>>
        /\ UNCHANGED <<store, imports, disturbed, shown, misled>>

(* "Delete on Store" (remove_online_and_mapping).                          *)
RemoveOnline(w) ==
    /\ listing # None
    /\ runs[w] = None
    /\ Asks
    /\ runs' = [runs EXCEPT ![w] =
           Run(0, "remove", IF listing.id # None /\ listing.state # "draft" THEN "delete" ELSE "commit", listing)]
    /\ UNCHANGED <<listing, jobs, store, contents, imports, disturbed, shown, misled>>

-----------------------------------------------------------------------------
(* An export, from one call of the store to the next.                      *)

Start(j, w) ==
    /\ jobs[j] # None /\ jobs[j].state = "pending" /\ jobs[j].kind \in Exports
    /\ runs[w] = None
    /\ jobs' = [jobs EXCEPT ![j].state = "started"]
    /\ runs' = [runs EXCEPT ![w] = Run(j, jobs[j].kind, FirstStep(jobs[j].kind), listing)]
    /\ UNCHANGED <<listing, store, counts, shown, misled>>

(* A call that the store refuses, whatever the reason.                     *)
Refuse == Disturb("refused")

(* Mutant of WithError: a refused call leaves the state alone. *)
WithErrorLogged(run) == [run EXCEPT !.step = IF run.kind = "mapping" THEN "commit" ELSE "read"]

(* _bigcommerce_write_errors.  An export from the mapping then stops; one  *)
(* from the master goes on and reads the product.                          *)
WithError(run) ==
    [run EXCEPT !.now.state = "error", !.step = IF run.kind = "mapping" THEN "commit" ELSE "read"]

(* _fetch_current_product_info.                                            *)
Fetch(w) ==
    LET run == runs[w]
    IN  /\ run.step = "fetch"
        /\ \/ /\ Alive(run.now.id)
              /\ runs' = [runs EXCEPT ![w].step = "put"]
              /\ UNCHANGED disturbed
           \/ /\ (~Alive(run.now.id) /\ UNCHANGED disturbed) \/ Refuse
              /\ runs' = [runs EXCEPT ![w] = WithError(run)]
        /\ UNCHANGED <<listing, jobs, store, contents, requests, imports, shown, misled>>

(* What an export says of a product.                                       *)
Said(row, ids) == [content |-> row.content, ids |-> ids]

(* _export_mapping_variant_options: options that Odoo has not are deleted, *)
(* and the store deletes their variants.                                   *)
OptionsExported(p, row) == Restrict(store[p].ids, Names(store[p]) \cap Names(row))

(* _export_mapping_template: the product is put.  Whether an option was    *)
(* refused nobody looks.                                                   *)
Put(w) ==
    LET run == runs[w]
        p == run.now.id
        left == OptionsExported(p, run.now)
        Taken(ids) ==
            /\ store' = [store EXCEPT ![p] = Said(run.now, ids)]
            /\ shown' = shown \cup {run.now.content}
            /\ runs' = TouchedBy(w, p, [run EXCEPT !.step = "variants", !.remote = ids])
    IN  /\ run.step = "put"
        /\ \/ Alive(p) /\ Taken(left) /\ UNCHANGED disturbed
           \/ Alive(p) /\ left # store[p].ids /\ Taken(store[p].ids) /\ Refuse
           \/ /\ Alive(p) /\ Refuse
              /\ store' = [store EXCEPT ![p].ids = left]
              /\ runs' = TouchedBy(w, p, WithError(run))
              /\ UNCHANGED shown
           \/ /\ ~Alive(p)
              /\ runs' = [runs EXCEPT ![w] = WithError(run)]
              /\ UNCHANGED <<store, shown, disturbed>>
        /\ UNCHANGED <<listing, jobs, contents, requests, imports, misled>>

(* _save_post_export_data.                                                 *)
Saved(run) == [run EXCEPT !.now.state = "published", !.step = "read"]

(* _export_mapping_variants, then _save_post_export_data.  Variants of the *)
(* store whose id Odoo does not know are deleted, variants of Odoo without *)
(* an id that the store knows are posted.  A refusal to post is written as *)
(* an error, which the save overwrites.                                    *)
PutVariants(w) ==
    LET run == runs[w]
        p == run.now.id
        unknown == {v \in DOMAIN run.remote : run.remote[v] \notin IdsIn(run.now)}
        missing == {v \in Names(run.now) : run.now.ids[v] \notin Range(run.remote)}
    IN  /\ run.step = "variants"
        /\ \/ /\ Alive(p)
              /\ \E refused \in SUBSET (unknown \cup missing) :
                   LET ids == store[p].ids
                       kept == {v \in DOMAIN ids : ids[v] \notin {run.remote[u] : u \in unknown \ refused}}
                       posted == NewIds(missing \ (refused \cup kept))
                   IN  /\ IF refused = {} THEN UNCHANGED disturbed ELSE Refuse
                       /\ CanNumber(missing \ (refused \cup kept))
                       /\ store' = [store EXCEPT ![p].ids = Joined(posted, Restrict(ids, kept))]
                       /\ runs' = TouchedBy(w, p, [Saved(run) EXCEPT
                              !.now.ids = [v \in Names(run.now) |->
                                  IF v \in DOMAIN posted THEN posted[v] ELSE run.now.ids[v]]])
           \/ /\ ~Alive(p)
              /\ runs' = [runs EXCEPT ![w] = Saved(run)]
              /\ UNCHANGED <<store, disturbed>>
        /\ UNCHANGED <<listing, jobs, contents, requests, imports, shown, misled>>

(* Mutant of Learnt: variants that the store has not stay in Odoo. *)
LearntKeeping(row, ids, kind) ==
    [row EXCEPT !.ids = Joined(ids, row.ids), !.state = IF kind = "mapping" THEN "published" ELSE @]

(* _update_data after a request of Odoo's: variants that the store has not *)
(* are removed, those that Odoo has not are made, the others get their id. *)
Learnt(row, ids, kind) ==
    [row EXCEPT !.ids = ids, !.state = IF kind = "mapping" THEN "published" ELSE @]

(* The end of a transaction that raises.                                   *)
Raises(w) ==
    /\ runs' = [runs EXCEPT ![w] = None]
    /\ jobs' = JobAfter(w, "failed")

(* get_data_from_channel.  When no variant is left the mapping is removed  *)
(* with the last (unless the master is exported), and then written.        *)
Read(w) ==
    LET run == runs[w]
        ids == store[run.now.id].ids
        nothingLeft == run.kind = "mapping" /\ Names(run.now) \cap DOMAIN ids = {}
    IN  /\ run.step = "read"
        /\ \/ /\ Alive(run.now.id) /\ ~nothingLeft
              /\ runs' = [runs EXCEPT ![w] = [run EXCEPT
                     !.now = Learnt(run.now, ids, run.kind), !.step = "commit"]]
              /\ UNCHANGED <<jobs, disturbed>>
           \/ Alive(run.now.id) /\ nothingLeft /\ Raises(w) /\ UNCHANGED disturbed
           \/ /\ (~Alive(run.now.id) /\ UNCHANGED disturbed) \/ Refuse
              /\ runs' = [runs EXCEPT ![w] = [run EXCEPT !.now.state = "error", !.step = "commit"]]
              /\ UNCHANGED jobs
        /\ UNCHANGED <<listing, store, contents, requests, imports, shown, misled>>

(* _push_to_channel, bigcommerce_post_record.  Whether the store takes a   *)
(* second product that it cannot tell from the first is the store's choice.*)
Post(w) ==
    LET run == runs[w]
        new == Said(run.now, NewIds(Names(run.now)))
    IN  /\ run.step = "post"
        /\ \/ /\ Len(store) < MaxProducts /\ CanNumber(Names(run.now))
              /\ store' = Append(store, new)
              /\ shown' = shown \cup {new.content}
              /\ runs' = [runs EXCEPT ![w] = [run EXCEPT !.step = "commit", !.now =
                     [run.now EXCEPT !.id = Len(store'), !.ids = new.ids, !.state = "published"]]]
              /\ UNCHANGED <<disturbed, misled>>
           \/ /\ \/ \E p \in DOMAIN store : Alive(p) /\ store[p].content # 0 /\ UNCHANGED disturbed
                 \/ Refuse
              /\ runs' = [runs EXCEPT ![w] =
                     IF run.now.id = None THEN [run EXCEPT !.step = "drop"]
                     ELSE [run EXCEPT !.step = "commit", !.now.state = "published"]]
              /\ misled' = (misled \/ run.now.id # None)
              /\ UNCHANGED <<store, shown>>
        /\ UNCHANGED <<listing, jobs, contents, requests, imports>>

(* delete_record_on_channel.  The mapping goes even if the store refuses.  *)
Delete(w) ==
    LET run == runs[w]
    IN  /\ run.step = "delete"
        /\ \/ /\ store' = [store EXCEPT ![run.now.id] = None]
              /\ runs' = TouchedBy(w, run.now.id, [run EXCEPT !.step = "commit"])
              /\ UNCHANGED disturbed
           \/ /\ Alive(run.now.id) /\ Refuse
              /\ runs' = [runs EXCEPT ![w].step = "commit"]
              /\ UNCHANGED store
        /\ UNCHANGED <<listing, jobs, contents, requests, imports, shown, misled>>

(* A request that meets an overwritten row is run again from its start; if *)
(* the row is gone it fails, unless it looks the mapping up by its master. *)
Again(w) ==
    LET run == runs[w] IN
    CASE run.kind = "remove" /\ ~run.gone ->
           Run(0, "remove", IF listing.id # None /\ listing.state # "draft" THEN "delete" ELSE "commit", listing)
      [] run.kind = "mapping" /\ ~run.gone -> Run(0, "mapping", "fetch", listing)
      [] /\ run.kind \in {"create", "update"}
         /\ listing # None => Names(listing) \subseteq Names(run.now)
         /\ NoneBeingMade(Workers \ {w}) ->
           LET row == FromMaster(Names(run.now), run.now.content)
               kind == IF row.id = None THEN "create" ELSE "update"
           IN  Run(0, kind, FirstStep(kind), row)
      [] OTHER -> None

(* The transaction ends: with a mapping written, or removed.               *)
Commit(w) ==
    LET run == runs[w]
        removes == run.step = "drop" \/ run.kind = "remove"
    IN  /\ run.step \in {"commit", "drop"}
        /\ \/ /\ run.stale
              /\ runs' = [runs EXCEPT ![w] = IF run.job = 0 THEN Again(w) ELSE None]
              /\ jobs' = JobAfter(w, "pending")
              /\ UNCHANGED listing
           \/ /\ ~run.stale
              /\ listing' = IF removes THEN None ELSE run.now
              /\ runs' = [IF removes THEN Orphaned ELSE Overtaken EXCEPT ![w] = None]
              /\ jobs' = IF removes THEN Unlinked(JobAfter(w, "done")) ELSE JobAfter(w, "done")
        /\ UNCHANGED <<store, counts, shown, misled>>

(* The job of a mapping that is gone fails, and nothing helps.             *)
GoneFails(j) ==
    /\ jobs[j] # None /\ jobs[j].kind = "gone" /\ jobs[j].state # "started"
    /\ jobs' = [jobs EXCEPT ![j] = None]
    /\ UNCHANGED <<listing, runs, store, counts, shown, misled>>

(* The process dies, or a transaction raises (a category is refused, the   *)
(* network fails); a manager has a failed job run again.                   *)
Dies(w) ==
    /\ Disturb("dies")
    /\ runs[w] # None
    /\ runs' = [runs EXCEPT ![w] = None]
    /\ jobs' = JobAfter(w, "pending")
    /\ UNCHANGED <<listing, store, contents, requests, imports, shown, misled>>

Fails(w) ==
    /\ Disturb("fails")
    /\ runs[w] # None
    /\ Raises(w)
    /\ UNCHANGED <<listing, store, contents, requests, imports, shown, misled>>

Requeue(j) ==
    /\ jobs[j] # None /\ jobs[j].state = "failed"
    /\ Asks
    /\ jobs' = [jobs EXCEPT ![j].state = "pending"]
    /\ UNCHANGED <<listing, runs, store, contents, imports, disturbed, shown, misled>>

-----------------------------------------------------------------------------
(* Imports, and the store's staff.                                         *)

(* create_jobs_for_synching: a job holds the product as it was fetched.    *)
Import(p) ==
    /\ Alive(p)
    /\ imports < MaxImports /\ imports' = imports + 1
    /\ Queued("import", [id |-> p, content |-> store[p].content, ids |-> store[p].ids])
    /\ UNCHANGED <<listing, runs, store, contents, requests, disturbed, shown, misled>>

(* prepare_product_channel: the mapping as the product's data say.         *)
AsImported(product) ==
    [id |-> product.id, state |-> "published", content |-> product.content, ids |-> product.ids]

(* _remove_invalid_product_mapping_variant removes every variant.          *)
NothingLeft(product) == IdsIn(listing) \cap Range(product.ids) = {}

(* _sync_in_queue_job.  A mapping that loses its last variant is removed   *)
(* with it, and then written: the job fails.  The product of a mapping     *)
(* other than this one does not matter here.                               *)
RunImport(j) ==
    LET product == jobs[j].product
        known == listing # None /\ listing.id = product.id
        nothingLeft == known /\ NothingLeft(product)
    IN  /\ jobs[j] # None /\ jobs[j].kind = "import" /\ jobs[j].state = "pending"
        /\ NoneBeingMade(Workers)
        /\ jobs' = [jobs EXCEPT ![j] = IF nothingLeft THEN [@ EXCEPT !.state = "failed"] ELSE None]
        /\ IF (known /\ ~nothingLeft) \/ listing = None
           THEN listing' = AsImported(product) /\ runs' = Overtaken
           ELSE UNCHANGED <<listing, runs>>
        /\ UNCHANGED <<store, counts, shown, misled>>

StaffEdits(p) ==
    /\ Alive(p)
    /\ contents < MaxContents /\ contents' = contents + 1
    /\ Disturb("edited")
    /\ store' = [store EXCEPT ![p].content = contents']
    /\ shown' = shown \cup {contents'}
    /\ runs' = Touched(runs, p)
    /\ UNCHANGED <<listing, jobs, requests, imports, misled>>

StaffDeletes(p) ==
    /\ Alive(p)
    /\ Disturb("deleted")
    /\ store' = [store EXCEPT ![p] = None]
    /\ runs' = Touched(runs, p)
    /\ UNCHANGED <<listing, jobs, contents, requests, imports, shown, misled>>

(* The staff replace, add or remove variants.                              *)
StaffSetsVariants(p) ==
    /\ Alive(p)
    /\ Disturb("variants")
    /\ \E names \in SUBSET Variants \ {{}}, kept \in SUBSET Names(store[p]) :
         /\ kept \subseteq names /\ CanNumber(names \ kept)
         /\ store' = [store EXCEPT ![p].ids = Joined(NewIds(names \ kept), Restrict(@, kept))]
    /\ runs' = Touched(runs, p)
    /\ UNCHANGED <<listing, jobs, contents, requests, imports, shown, misled>>

-----------------------------------------------------------------------------
Step(w) ==
    /\ runs[w] # None
    /\ Fetch(w) \/ Put(w) \/ PutVariants(w) \/ Read(w) \/ Post(w) \/ Delete(w) \/ Commit(w)

RunJob(j) == RunImport(j) \/ GoneFails(j) \/ \E w \in Workers : Start(j, w)

UserActs ==
    \/ Edit \/ QueueExport
    \/ \E names \in SUBSET Variants \ {{}} : ExportMaster(names)
    \/ \E w \in Workers : ExportToStore(w) \/ RemoveOnline(w)
    \/ \E j \in Jobs : Requeue(j)
    \/ \E p \in DOMAIN store : Import(p)

StaffActs == \E p \in DOMAIN store : StaffEdits(p) \/ StaffDeletes(p) \/ StaffSetsVariants(p)

Next ==
    \/ UserActs
    \/ StaffActs
    \/ \E w \in Workers : Step(w) \/ Dies(w) \/ Fails(w)
    \/ \E j \in Jobs : RunJob(j)

Spec == Init /\ [][Next]_vars

-----------------------------------------------------------------------------
(* Types; besides, an id that anything mentions is that of a product that  *)
(* the store has or had, and a job that is started has exactly one         *)
(* transaction, an unfinished one.                                         *)
IdKnown(id) == id \in DOMAIN store \cup {None}
TypeOK ==
    /\ listing \in Rows \cup {None} /\ (listing # None => IdKnown(listing.id))
    /\ jobs \in [Jobs -> JobRows \cup {None}]
    /\ runs \in [Workers -> RunRecords \cup {None}]
    /\ store \in Seq(Products \cup {None}) /\ Len(store) <= MaxProducts
    /\ {contents, requests, imports, disturbed} \subseteq Nat /\ contents <= MaxContents
    /\ shown \subseteq Contents
    /\ misled \in BOOLEAN
    /\ \A j \in Jobs : jobs[j] # None =>
         /\ (jobs[j].kind = "import") => (jobs[j].product # None /\ IdKnown(jobs[j].product.id))
         /\ (jobs[j].state = "started") <=> (\E w \in Workers : runs[w] # None /\ runs[w].job = j)
    /\ \A w \in Workers : runs[w] # None =>
         /\ IdKnown(runs[w].now.id)
         /\ runs[w].job # 0 => jobs[runs[w].job] # None
         /\ \A u \in Workers \ {w} : runs[u] # None /\ runs[u].job = runs[w].job => runs[w].job = 0

(* A mapping that the user believes to be on the store has an id there,    *)
(* and one that was never published has none: the state that the edits,    *)
(* exports, imports and their failures leave decides whether the next      *)
(* export creates a product or updates one.                                *)
StateTellsId ==
    listing # None => (listing.state = "draft") = (listing.id = None)

(* No edit is forgotten: what a published mapping says the store has had,  *)
(* or an export of it is queued, running or failed.  (A creation that was  *)
(* queued twice breaks it: the second, refused, calls the mapping          *)
(* published, whatever it says by then.)                                   *)
ExportPending == \E j \in Jobs : jobs[j] # None /\ jobs[j].kind \in Exports
EditsAccounted ==
    listing # None /\ listing.state = "published" /\ ~misled /\ ~ExportPending => listing.content \in shown

(* When an export ends with the mapping published, and nobody else changed *)
(* the product meanwhile, the store has the mapping's content, and the     *)
(* same variants with the same ids, whatever an earlier export that was    *)
(* rolled back left there.                                                 *)
PublishedIsThere ==
    [][\A w \in Workers :
         LET run == runs[w]
         IN  run # None /\ run.kind \in {"mapping", "update"} /\ run.step = "commit" /\ ~run.touched
               /\ Commit(w) /\ listing' = run.now /\ ~run.stale /\ run.now.state = "published"
               => /\ Alive(run.now.id)
                  /\ store[run.now.id].content = listing'.content
                  /\ store[run.now.id].ids = listing'.ids]_vars
=============================================================================
