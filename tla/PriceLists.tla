------------------------------ MODULE PriceLists ------------------------------
(***************************************************************************)
(* Price lists of a channel (channel.pricelist) and of its store.          *)
(*                                                                         *)
(* A list says which rules it has and which groups of customers it is for. *)
(* need_to_export tells the user that the store has something else, and    *)
(* is_sync_in_progress that a job will export it.  The job is one          *)
(* transaction with five requests: the list itself, its rules removed and  *)
(* put, its assignments removed and posted.  A request that is refused or  *)
(* gets no answer ends the export with an activity; if the process dies it *)
(* is rolled back.  In each case the store keeps what was done.  An import *)
(* reads a list in two requests and saves it in a job of its own.          *)
(*                                                                         *)
(* A transaction sees a row as it was when it began, and cannot write it   *)
(* after another has (REPEATABLE READ); writing what is there already is   *)
(* no write.                                                               *)
(***************************************************************************)
EXTENDS Integers, Sequences, FiniteSets, FiniteSetsExt

CONSTANTS
    MaxRecords,      \* bound: so many lists in Odoo
    MaxLists,        \* bound: so many lists are ever made on the store
    Workers,         \* so many transactions at once
    MaxVersions,     \* bound: the user or the staff of the store edit so often
    MaxJobs,         \* bound: jobs in the queue at one time
    MaxRequests,     \* bound: the user asks so often for an export
    MaxImports,      \* bound: a list is read from the store so often
    Disturbances, MaxDisturbances,   \* what may go wrong, and how often
    None

Records == 1..MaxRecords
Jobs == 1..MaxJobs
Ids == 1..MaxLists
Says == [rules : (0..MaxVersions) \cup {None}, groups : (0..MaxVersions) \cup {None}]
RecordType ==
    [id : Ids \cup {None}, says : Says, need : BOOLEAN, busy : BOOLEAN, linked : BOOLEAN]
JobType ==
    [kind : {"export", "import"}, record : Records \cup {None}, list : Ids \cup {None}, says : Says,
     state : {"pending", "started", "failed"}]
Steps == {"list", "clear", "rules", "unassign", "assign", "done", "refused", "read", "save"}
RunType ==
    [job : Jobs \cup {None}, step : Steps, record : Records \cup {None}, row : RecordType \cup {None},
     list : Ids \cup {None}, says : Says, posted : SUBSET Ids, stale : BOOLEAN, crossed : BOOLEAN]

ASSUME PriceListsAssumption ==
    /\ IsFiniteSet(Workers)
    /\ {MaxRecords, MaxLists, MaxVersions, MaxJobs, MaxRequests, MaxImports, MaxDisturbances} \subseteq Nat
    /\ MaxRecords > 0 /\ MaxLists > 0
    /\ None \notin Nat /\ None \notin Says /\ None \notin RecordType
    /\ None \notin JobType /\ None \notin RunType

VARIABLES
    record,      \* the lists of Odoo
    jobs,        \* the queue: exports and imports that are not done
    runs,        \* open transactions of jobs and of imports
    store,       \* what the lists of the store say, by id; None when deleted
    warned,      \* lists with an activity "Cannot export pricelist"
    versions, requests, imports, disturbed,   \* count, for the bounds
    crossed,     \* history: lists whose list on the store changed behind them
    orphans      \* history: lists of the store made by exports rolled back, or unanswered

counts == <<versions, requests, imports, disturbed>>
vars == <<record, jobs, runs, store, warned, counts, crossed, orphans>>

Whole(v) == [rules |-> v, groups |-> v]

Disturb(kind) ==
    kind \in Disturbances /\ disturbed < MaxDisturbances /\ disturbed' = disturbed + 1

(* One list, made by the staff of the store, has been imported.            *)
Init ==
    /\ record = [r \in Records |->
          IF r = 1 THEN [id |-> 1, says |-> Whole(0), need |-> FALSE, busy |-> FALSE, linked |-> FALSE]
          ELSE None]
    /\ jobs = [j \in Jobs |-> None]
    /\ runs = [w \in Workers |-> None]
    /\ store = <<Whole(0)>>
    /\ warned = {}
    /\ versions = 0 /\ requests = 0 /\ imports = 0 /\ disturbed = 0
    /\ crossed = {} /\ orphans = {}

-----------------------------------------------------------------------------
(* Helpers.                                                                *)

Exists(r) == record[r] # None
WithId(p) == {r \in Records : Exists(r) /\ record[r].id = p}
FreeRecords == {r \in Records : ~Exists(r)}

(* The open transactions that know the list r find its row overwritten.    *)
Overtaken(r) ==
    [w \in Workers |->
        IF runs[w] # None /\ runs[w].record = r THEN [runs[w] EXCEPT !.stale = TRUE] ELSE runs[w]]

Queued(job) ==
    LET free == {j \in Jobs : jobs[j] = None}
    IN  free # {} /\ jobs' = [jobs EXCEPT ![Min(free)] = job]

ExportJob(r) == [kind |-> "export", record |-> r, list |-> None, says |-> Whole(None), state |-> "pending"]
ImportJob(p, says) == [kind |-> "import", record |-> None, list |-> p, says |-> says, state |-> "pending"]

(* The list p of the store is changed for the list r of Odoo by the        *)
(* transactions ws.  Other exports of p, and other lists of Odoo that      *)
(* stand for p, are crossed.                                               *)
CrossedRuns(p, ws) ==
    [w \in Workers |->
        IF w \notin ws /\ runs[w] # None /\ runs[w].list = p THEN [runs[w] EXCEPT !.crossed = TRUE] ELSE runs[w]]
CrossedRecords(p, r) == crossed \cup (WithId(p) \ {r})

-----------------------------------------------------------------------------
(* What the user does.                                                     *)

NewVersion == versions < MaxVersions /\ versions' = versions + 1
Asks == requests < MaxRequests /\ requests' = requests + 1

NewRecord(says, need, linked) ==
    [id |-> None, says |-> says, need |-> need, busy |-> FALSE, linked |-> linked]

(* A list typed in by hand: create leaves the flag alone.                  *)
Create ==
    /\ FreeRecords # {}
    /\ NewVersion
    /\ record' = [record EXCEPT ![Min(FreeRecords)] = NewRecord(Whole(versions'), FALSE, FALSE)]
    /\ UNCHANGED <<jobs, runs, store, warned, requests, imports, disturbed, crossed, orphans>>

(* Mutant of Edited: an edit that raises no flag.                          *)
EditedQuietly(row, v) == [row EXCEPT !.says = Whole(v)]

(* write.                                                                  *)
Edited(row, v) == [row EXCEPT !.says = Whole(v), !.need = TRUE]

Edit(r) ==
    /\ Exists(r)
    /\ NewVersion
    /\ record' = [record EXCEPT ![r] = Edited(@, versions')]
    /\ runs' = Overtaken(r)
    /\ UNCHANGED <<jobs, store, warned, requests, imports, disturbed, crossed, orphans>>

(* "Export to Store" on the form, whether an export is in progress or not. *)
ExportToStore(r) ==
    /\ Exists(r)
    /\ Asks
    /\ record' = [record EXCEPT ![r].busy = TRUE]
    /\ runs' = IF record[r].busy THEN runs ELSE Overtaken(r)
    /\ Queued(ExportJob(r))
    /\ UNCHANGED <<store, warned, versions, imports, disturbed, crossed, orphans>>

(* The export of a price list of Odoo: the list of the channel that is     *)
(* linked to it, or a new one, gets its items.                             *)
ExportFromMaster ==
    LET linked == {r \in Records : Exists(r) /\ record[r].linked}
        r == Min(IF linked # {} THEN linked ELSE FreeRecords)
        row == IF linked # {} THEN record[r] ELSE NewRecord(Whole(None), TRUE, TRUE)
    IN  /\ linked \cup FreeRecords # {}
        /\ Asks /\ NewVersion
        /\ record' = [record EXCEPT ![r] = [Edited(row, versions') EXCEPT !.busy = TRUE]]
        /\ runs' = Overtaken(r)
        /\ Queued(ExportJob(r))
        /\ UNCHANGED <<store, warned, imports, disturbed, crossed, orphans>>

-----------------------------------------------------------------------------
(* The export.                                                             *)

Run(job, step, r, list) ==
    [job |-> job, step |-> step, record |-> r, row |-> IF r = None THEN None ELSE record[r],
     list |-> list, says |-> Whole(None), posted |-> {}, stale |-> FALSE, crossed |-> FALSE]

Starts(w, j, kind) ==
    /\ runs[w] = None
    /\ jobs[j] # None /\ jobs[j].kind = kind /\ jobs[j].state = "pending"
    /\ jobs' = [jobs EXCEPT ![j].state = "started"]

StartExport(w, j) ==
    /\ Starts(w, j, "export")
    /\ runs' = [runs EXCEPT ![w] = Run(j, "list", jobs[j].record, record[jobs[j].record].id)]
    /\ UNCHANGED <<record, store, warned, counts, crossed, orphans>>

At(w, step) == runs[w] # None /\ runs[w].step = step
OnStore(p) == p # None /\ store[p] # None

(* PUT, when the list has an id.                                           *)
PutList(w) ==
    /\ At(w, "list") /\ OnStore(runs[w].list)
    /\ runs' = [runs EXCEPT ![w].step = "clear"]
    /\ UNCHANGED <<record, jobs, store, warned, counts, crossed, orphans>>

(* POST, when it has none or PUT answered that the store knows it not.  If *)
(* the answer is lost, the list is made and Odoo does not get its id.      *)
PostList(w) ==
    /\ At(w, "list") /\ ~OnStore(runs[w].list)
    /\ Len(store) < MaxLists
    /\ store' = Append(store, Whole(None))
    /\ \/ /\ runs' = [runs EXCEPT ![w].step = "clear", ![w].list = Len(store'), ![w].posted = {Len(store')}]
          /\ UNCHANGED <<disturbed, orphans>>
       \/ /\ Disturb("unanswered")
          /\ runs' = [runs EXCEPT ![w].step = "refused"]
          /\ orphans' = orphans \cup {Len(store')}
    /\ UNCHANGED <<record, jobs, warned, versions, requests, imports, crossed>>

(* The next request, while the store still has the list: part becomes      *)
(* this.  If the answer is lost it was sent all the same.                  *)
Sends(w, step, next, part, value) ==
    LET p == runs[w].list
    IN  /\ At(w, step) /\ OnStore(p)
        /\ store' = [store EXCEPT ![p][part] = value]
        /\ crossed' = CrossedRecords(p, runs[w].record)
        /\ \E reached \in {next, "refused"} :
              /\ runs' = [CrossedRuns(p, {w}) EXCEPT ![w].step = reached]
              /\ IF reached = next THEN UNCHANGED disturbed ELSE Disturb("unanswered")
        /\ UNCHANGED <<record, jobs, warned, versions, requests, imports, orphans>>

RemoveRules(w)  == Sends(w, "clear", "rules", "rules", None)
UpsertRules(w)  == Sends(w, "rules", "unassign", "rules", runs[w].row.says.rules)
RemoveGroups(w) == Sends(w, "unassign", "assign", "groups", None)
AssignGroups(w) == Sends(w, "assign", "done", "groups", runs[w].row.says.groups)

(* The store refuses a request, has the list no more, or is not reached.   *)
(* HTTPError, which the export logs and swallows.                          *)
Refuses(w) ==
    /\ runs[w] # None /\ runs[w].step \in {"list", "clear", "rules", "unassign", "assign"}
    /\ \/ Disturb("refused")
       \/ runs[w].step # "list" /\ ~OnStore(runs[w].list) /\ UNCHANGED disturbed
    /\ runs' = [runs EXCEPT ![w].step = "refused"]
    /\ UNCHANGED <<record, jobs, store, warned, versions, requests, imports, crossed, orphans>>

(* Mutants of Exported: the id is saved only by an export that succeeds;   *)
(* an export that got no id saves the one it had expected.                 *)
ExportedIfDone(run) ==
    [run.row EXCEPT !.id = IF run.step = "done" THEN run.list ELSE @,
                    !.need = @ /\ run.step # "done", !.busy = FALSE]
(* The row that an export leaves: _save_pricelist.                         *)
Exported(run) ==
    [run.row EXCEPT !.id = run.list, !.need = @ /\ run.step # "done", !.busy = FALSE]

(* The transaction commits, unless it would write a row another has        *)
(* written since: then all is rolled back and the job waits for its turn.  *)
FinishExport(w) ==
    LET run == runs[w]
        r == run.record
        writes == Exported(run) # run.row
        behind == run.crossed \/ run.stale
    IN  /\ run # None /\ run.step \in {"done", "refused"}
        /\ IF writes /\ run.stale
           THEN /\ jobs' = [jobs EXCEPT ![run.job].state = "pending"]
                /\ runs' = [runs EXCEPT ![w] = None]
                /\ orphans' = orphans \cup run.posted
                /\ UNCHANGED <<record, warned, crossed>>
           ELSE /\ record' = IF writes THEN [record EXCEPT ![r] = Exported(run)] ELSE record
                /\ jobs' = [jobs EXCEPT ![run.job] = None]
                /\ runs' = [(IF writes THEN Overtaken(r) ELSE runs) EXCEPT ![w] = None]
                /\ warned' = IF run.step = "refused" THEN warned \cup {r} ELSE warned
                /\ crossed' = IF behind THEN crossed \cup {r}
                              ELSE IF run.step = "done" THEN crossed \ {r} ELSE crossed
                /\ UNCHANGED orphans
        /\ UNCHANGED <<store, counts>>

(* An error that no answer explains, or the death of the process: all is   *)
(* rolled back, and the job fails, or it is found dead and waits again.    *)
Breaks(w) ==
    /\ runs[w] # None /\ runs[w].job # None
    /\ Disturb("breaks")
    /\ \E state \in {"pending", "failed"} : jobs' = [jobs EXCEPT ![runs[w].job].state = state]
    /\ orphans' = orphans \cup runs[w].posted
    /\ runs' = [runs EXCEPT ![w] = None]
    /\ UNCHANGED <<record, store, warned, versions, requests, imports, crossed>>

(* A manager requeues a job that has failed.                               *)
Requeue(j) ==
    /\ jobs[j] # None /\ jobs[j].state = "failed"
    /\ jobs' = [jobs EXCEPT ![j].state = "pending"]
    /\ UNCHANGED <<record, runs, store, warned, counts, crossed, orphans>>

-----------------------------------------------------------------------------
(* The import.                                                             *)

(* The list and its assignments are read.                                  *)
ReadList(w, p) ==
    /\ runs[w] = None /\ OnStore(p)
    /\ imports < MaxImports /\ imports' = imports + 1
    /\ runs' = [runs EXCEPT ![w] = [Run(None, "read", None, p) EXCEPT !.says.groups = store[p].groups]]
    /\ UNCHANGED <<record, jobs, store, warned, versions, requests, disturbed, crossed, orphans>>

(* Then its rules, and a job is queued; if the list is gone, nothing is.   *)
ReadRules(w) ==
    /\ At(w, "read")
    /\ LET p == runs[w].list
       IN  IF OnStore(p)
           THEN Queued(ImportJob(p, [runs[w].says EXCEPT !.rules = store[p].rules]))
           ELSE UNCHANGED jobs
    /\ runs' = [runs EXCEPT ![w] = None]
    /\ UNCHANGED <<record, store, warned, counts, crossed, orphans>>

(* The job looks for the list that has the id.                             *)
StartSave(w, j) ==
    /\ Starts(w, j, "import")
    /\ LET found == WithId(jobs[j].list)
           r == IF found = {} THEN None ELSE Min(found)
       IN  runs' = [runs EXCEPT ![w] = [Run(j, "save", r, None) EXCEPT !.says = jobs[j].says]]
    /\ UNCHANGED <<record, store, warned, counts, crossed, orphans>>

(* The row that an import leaves: OVERRIDDEN_VALUES.                       *)
Imported(row, p, says) ==
    [(IF row = None THEN NewRecord(says, FALSE, FALSE) ELSE row) EXCEPT
        !.id = p, !.says = says, !.need = FALSE, !.busy = FALSE]

(* It is updated or made.  What cannot be saved (a variant or a group is   *)
(* missing, the row was overwritten since) is logged, and the job is done. *)
FinishSave(w) ==
    LET run == runs[w]
        p == jobs[run.job].list
        r == IF run.record = None THEN Min(FreeRecords) ELSE run.record
    IN  /\ At(w, "save")
        /\ jobs' = [jobs EXCEPT ![run.job] = None]
        /\ \/ /\ ~run.stale
              /\ run.record # None \/ FreeRecords # {}
              /\ record' = [record EXCEPT ![r] = Imported(run.row, p, run.says)]
              /\ runs' = [Overtaken(r) EXCEPT ![w] = None]
              /\ crossed' = IF run.says = store[p] THEN crossed \ {r} ELSE crossed \cup {r}
              /\ UNCHANGED disturbed
           \/ /\ \/ run.stale /\ UNCHANGED disturbed
                 \/ Disturb("missing")
              /\ runs' = [runs EXCEPT ![w] = None]
              /\ UNCHANGED <<record, crossed>>
        /\ UNCHANGED <<store, warned, versions, requests, imports, orphans>>

-----------------------------------------------------------------------------
(* The staff of the store.                                                 *)

StaffEdits(p) ==
    /\ OnStore(p) /\ NewVersion
    /\ Disturb("staff")
    /\ store' = [store EXCEPT ![p] = Whole(versions')]
    /\ runs' = CrossedRuns(p, {}) /\ crossed' = CrossedRecords(p, None)
    /\ UNCHANGED <<record, jobs, warned, requests, imports, orphans>>

StaffDeletes(p) ==
    /\ OnStore(p)
    /\ Disturb("staff")
    /\ store' = [store EXCEPT ![p] = None]
    /\ runs' = CrossedRuns(p, {}) /\ crossed' = CrossedRecords(p, None)
    /\ UNCHANGED <<record, jobs, warned, versions, requests, imports, orphans>>

Next ==
    \/ Create \/ ExportFromMaster
    \/ \E r \in Records : Edit(r) \/ ExportToStore(r)
    \/ \E w \in Workers :
          \/ \E j \in Jobs : StartExport(w, j) \/ StartSave(w, j)
          \/ PutList(w) \/ PostList(w) \/ RemoveRules(w) \/ UpsertRules(w) \/ RemoveGroups(w) \/ AssignGroups(w)
          \/ Refuses(w) \/ FinishExport(w) \/ Breaks(w)
          \/ ReadRules(w) \/ FinishSave(w)
          \/ \E p \in DOMAIN store : ReadList(w, p)
    \/ \E j \in Jobs : Requeue(j)
    \/ \E p \in DOMAIN store : StaffEdits(p) \/ StaffDeletes(p)

Spec == Init /\ [][Next]_vars

-----------------------------------------------------------------------------
(* Properties.                                                             *)

Made == 1..Len(store)
Types ==
    /\ store \in Seq(Says \cup {None}) /\ Len(store) \in Ids
    /\ record \in [Records -> RecordType \cup {None}]
    /\ \A r \in Records : Exists(r) => record[r].id \in Made \cup {None}
    /\ jobs \in [Jobs -> JobType \cup {None}]
    /\ \A j \in Jobs : jobs[j] # None =>
          IF jobs[j].kind = "export" THEN jobs[j].record \in Records /\ Exists(jobs[j].record)
          ELSE jobs[j].record = None /\ jobs[j].list \in Made
    /\ runs \in [Workers -> RunType \cup {None}]
    /\ \A w \in Workers : runs[w] # None =>
          /\ runs[w].list \in Made \cup {None} /\ runs[w].posted \subseteq Made
          /\ runs[w].job \in {j \in Jobs : jobs[j] # None} \cup {None}
    /\ warned \subseteq Records /\ crossed \subseteq Records /\ orphans \subseteq Made
    /\ versions \in 0..MaxVersions /\ requests \in 0..MaxRequests
    /\ imports \in 0..MaxImports /\ disturbed \in 0..MaxDisturbances

(* Every variable has its type: an id is that of a list the store has made, *)
(* and a job that has started, and no other, has one transaction.          *)
RunsOf(j) == {w \in Workers : runs[w] # None /\ runs[w].job = j}
TypeOK ==
    /\ Types
    /\ \A j \in Jobs : jobs[j] # None => (jobs[j].state = "started" <=> Cardinality(RunsOf(j)) = 1)

(* No export of the list is queued, under way, or has failed.              *)
NoExportOf(r) == \A j \in Jobs : ~(jobs[j] # None /\ jobs[j].record = r)

(* A list that is exported, that need_to_export does not mark, that has no *)
(* activity and no unfinished job is exactly what the store has, whatever  *)
(* edits, exports, imports, refusals and rollbacks came together: unless   *)
(* the list on the store was changed behind it (crossed).                  *)
FlagTold ==
    \A r \in Records :
        Exists(r) /\ record[r].id # None /\ ~record[r].need /\ NoExportOf(r) /\ r \notin warned \cup crossed
          => store[record[r].id] = record[r].says

(* A list that an export has made on the store is known by its id in Odoo, *)
(* however the export ended (PricelistExportWorkflow), unless it was       *)
(* rolled back or the answer that had the id was lost: the code leaves     *)
(* such a list on the store, and the next export makes another.            *)
ListsKnown ==
    \A p \in 2..Len(store) :
        store[p] # None => \/ p \in orphans
                           \/ WithId(p) # {}
                           \/ \E w \in Workers : runs[w] # None /\ p \in runs[w].posted
=============================================================================
