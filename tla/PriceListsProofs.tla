-------------------------- MODULE PriceListsProofs --------------------------
(***************************************************************************)
(* Proofs about PriceLists, for any number of lists, workers, versions and *)
(* jobs: the types, that a list without flag, activity and job is what the *)
(* store has, and that Odoo knows the lists its exports made.              *)
(*                                                                         *)
(* The invariant says how far an open transaction has come with its list   *)
(* and what of the rows it has read is still there.  Its parts take the    *)
(* values they speak of as arguments, so that they can be used of a state  *)
(* and of the next one alike.                                              *)
(***************************************************************************)
EXTENDS PriceLists, SequenceTheorems, FiniteSetTheorems, WellFoundedInduction, TLAPS

USE PriceListsAssumption DEF Records, Jobs, Ids

-----------------------------------------------------------------------------
(* The invariant.                                                          *)

Exports == {"list", "clear", "rules", "unassign", "assign", "done", "refused"}
Writing == {"clear", "rules", "unassign", "assign", "done"}

(* A transaction by itself: an import that reads has no job yet, and only  *)
(* exports have posted anything.                                           *)
Whose(run) ==
    /\ run.step = "read" <=> run.job = None
    /\ run.step = "read" => run.list # None /\ run.record = None
    /\ run.step \in Exports => run.record # None
    /\ run.step \in {"read", "save"} => run.posted = {}
    /\ run.posted \subseteq {run.list}
    /\ run.record # None <=> run.row # None

(* And its job.                                                            *)
Works(run, jbs) ==
    run.job # None =>
        /\ jbs[run.job] # None /\ jbs[run.job].state = "started"
        /\ run.step = "save" <=> jbs[run.job].kind = "import"
        /\ run.step # "save" => jbs[run.job].record = run.record
        /\ run.step = "save" /\ run.row # None => run.row.id = jbs[run.job].list

(* And the row that it has read.                                           *)
Knows(run, rows) ==
    run.record # None => /\ rows[run.record] # None
                         /\ ~run.stale => rows[run.record] = run.row

(* And the lists of the store: the one it posted is new, and the one that  *)
(* the row had before is gone.                                             *)
Reaches(run, lists) ==
    /\ run.list \in DOMAIN lists \cup {None}
    /\ run.row # None => run.row.id \in DOMAIN lists \cup {None}
    /\ run.step = "list" => run.list = run.row.id /\ run.posted = {}
    /\ run.step \in Writing => run.list # None
    /\ run.step \in Exports /\ run.posted # {} => run.row.id # run.list
    /\ run.step \in Exports /\ run.row.id \notin {run.list, None} => lists[run.row.id] = None

(* And what it has written, if nobody else wrote it.                       *)
HasWritten(run, lists) ==
    run.step \in Writing /\ ~run.crossed =>
        /\ lists[run.list] # None
        /\ run.step \in {"unassign", "assign", "done"} => lists[run.list].rules = run.row.says.rules
        /\ run.step = "done" => lists[run.list].groups = run.row.says.groups

Fine(run, jbs, rows, lists) ==
    Whose(run) /\ Works(run, jbs) /\ Knows(run, rows) /\ Reaches(run, lists) /\ HasWritten(run, lists)

RunsFine == \A w \in Workers : runs[w] # None => Fine(runs[w], jobs, record, store)

(* No job has two transactions, and none that has started has no one.      *)
Apart(rns) ==
    \A v, w \in Workers : rns[v] # None /\ rns[w] # None /\ rns[v].job # None /\ rns[v].job = rns[w].job => v = w
Manned(rns, jbs) ==
    \A j \in Jobs : jbs[j] # None /\ jbs[j].state = "started" => \E w \in Workers : rns[w] # None /\ rns[w].job = j

IInv == Types /\ RunsFine /\ Apart(runs) /\ Manned(runs, jobs) /\ FlagTold /\ ListsKnown

(* The two properties, of a list of Odoo and of one of the store.          *)
NoExport(r, jbs) == \A j \in Jobs : ~(jbs[j] # None /\ jbs[j].record = r)
ToldOf(r, row, jbs, lists, marks) ==
    row # None /\ row.id # None /\ ~row.need /\ NoExport(r, jbs) /\ r \notin marks => lists[row.id] = row.says
KnownAt(p, lists, lost, rows, rns) ==
    lists[p] # None => \/ p \in lost
                       \/ \E r \in Records : rows[r] # None /\ rows[r].id = p
                       \/ \E w \in Workers : rns[w] # None /\ p \in rns[w].posted

LEMMA PropertiesByParts ==
    /\ FlagTold <=> \A r \in Records : ToldOf(r, record[r], jobs, store, warned \cup crossed)
    /\ FlagTold' <=> \A r \in Records : ToldOf(r, record'[r], jobs', store', warned' \cup crossed')
    /\ ListsKnown <=> \A p \in 2..Len(store) : KnownAt(p, store, orphans, record, runs)
    /\ ListsKnown' <=> \A p \in 2..Len(store') : KnownAt(p, store', orphans', record', runs')
BY DEF FlagTold, ListsKnown, ToldOf, KnownAt, NoExport, NoExportOf, Exists, WithId

-----------------------------------------------------------------------------
(* What the helpers do.                                                    *)

(* The smallest of some numbers is one of them.                            *)
LEMMA MinIsOne ==
    ASSUME NEW S \in SUBSET Nat, S # {}
    PROVE  Min(S) \in S
<1>1. IsWellFoundedOn(OpToRel(<, Nat), Nat)
  BY NatLessThanWellFounded
<1>2. PICK m \in S : \A n \in S : <<n, m>> \notin OpToRel(<, Nat)
  BY <1>1, WFMin
<1>3. OpToRel(<, Nat) = {p \in Nat \X Nat : p[1] < p[2]}
  BY Zenon DEF OpToRel
<1>4. \A n \in S : ~(n < m)
  BY <1>2, <1>3
<1>5. \A n \in S : m <= n
  BY <1>4
<1> QED
  BY <1>5 DEF Min

(* A transaction that is told of another's write, of its row or its list.  *)
Same(a, b) ==
    /\ b.job = a.job /\ b.step = a.step /\ b.record = a.record /\ b.row = a.row
    /\ b.list = a.list /\ b.says = a.says /\ b.posted = a.posted
    /\ (a.stale => b.stale) /\ (a.crossed => b.crossed)

LEMMA Marks ==
    ASSUME NEW run \in RunType
    PROVE  /\ [run EXCEPT !.stale = TRUE] \in RunType /\ Same(run, [run EXCEPT !.stale = TRUE])
           /\ [run EXCEPT !.stale = TRUE].stale
           /\ [run EXCEPT !.crossed = TRUE] \in RunType /\ Same(run, [run EXCEPT !.crossed = TRUE])
           /\ [run EXCEPT !.crossed = TRUE].crossed
           /\ Same(run, run) /\ run # None
BY DEF RunType, Same

(* The transactions told are the others' equals, but for what they know.   *)
Told(rns, new) ==
    /\ new \in [Workers -> RunType \cup {None}]
    /\ \A w \in Workers : rns[w] = None => new[w] = None
    /\ \A w \in Workers : rns[w] # None => new[w] \in RunType /\ Same(rns[w], new[w])

LEMMA OvertakenTells ==
    ASSUME Types, NEW r
    PROVE  /\ Told(runs, Overtaken(r))
           /\ \A w \in Workers : runs[w] # None /\ runs[w].record = r => Overtaken(r)[w].stale
<1>1. runs \in [Workers -> RunType \cup {None}]
  BY DEF Types
<1>2. \A w \in Workers : Overtaken(r)[w] = IF runs[w] # None /\ runs[w].record = r
                                           THEN [runs[w] EXCEPT !.stale = TRUE] ELSE runs[w]
  BY DEF Overtaken
<1>3. \A w \in Workers : runs[w] # None => runs[w] \in RunType
  BY <1>1
<1>4. \A w \in Workers : runs[w] # None => Overtaken(r)[w] \in RunType /\ Same(runs[w], Overtaken(r)[w])
  BY <1>2, <1>3, Marks
<1>5. \A w \in Workers : runs[w] = None => Overtaken(r)[w] = None
  BY <1>2
<1>6. Overtaken(r) \in [Workers -> RunType \cup {None}]
  <2>1. \A w \in Workers : Overtaken(r)[w] \in RunType \cup {None}
    BY <1>4, <1>5
  <2>2. Overtaken(r) = [w \in Workers |-> Overtaken(r)[w]]
    BY DEF Overtaken
  <2> QED
    BY <2>1, <2>2
<1>7. \A w \in Workers : runs[w] # None /\ runs[w].record = r => Overtaken(r)[w].stale
  BY <1>2, <1>3, Marks
<1> QED
  BY <1>4, <1>5, <1>6, <1>7 DEF Told

LEMMA CrossedTells ==
    ASSUME Types, NEW p, NEW ws
    PROVE  /\ Told(runs, CrossedRuns(p, ws))
           /\ \A w \in Workers \ ws : runs[w] # None /\ runs[w].list = p => CrossedRuns(p, ws)[w].crossed
           /\ \A w \in ws \cap Workers : CrossedRuns(p, ws)[w] = runs[w]
<1>1. runs \in [Workers -> RunType \cup {None}]
  BY DEF Types
<1>2. \A w \in Workers : CrossedRuns(p, ws)[w] = IF w \notin ws /\ runs[w] # None /\ runs[w].list = p
                                                 THEN [runs[w] EXCEPT !.crossed = TRUE] ELSE runs[w]
  BY DEF CrossedRuns
<1>3. \A w \in Workers : runs[w] # None => runs[w] \in RunType
  BY <1>1
<1>4. \A w \in Workers : runs[w] # None => CrossedRuns(p, ws)[w] \in RunType /\ Same(runs[w], CrossedRuns(p, ws)[w])
  BY <1>2, <1>3, Marks
<1>5. \A w \in Workers : runs[w] = None => CrossedRuns(p, ws)[w] = None
  BY <1>2
<1>6. CrossedRuns(p, ws) \in [Workers -> RunType \cup {None}]
  <2>1. \A w \in Workers : CrossedRuns(p, ws)[w] \in RunType \cup {None}
    BY <1>4, <1>5
  <2>2. CrossedRuns(p, ws) = [w \in Workers |-> CrossedRuns(p, ws)[w]]
    BY DEF CrossedRuns
  <2> QED
    BY <2>1, <2>2
<1>7. /\ \A w \in Workers \ ws : runs[w] # None /\ runs[w].list = p => CrossedRuns(p, ws)[w].crossed
      /\ \A w \in ws \cap Workers : CrossedRuns(p, ws)[w] = runs[w]
  BY <1>2, <1>3, Marks
<1> QED
  BY <1>4, <1>5, <1>6, <1>7 DEF Told

(* A job is put in a free place.                                           *)
LEMMA QueuedPuts ==
    ASSUME Types, NEW job \in JobType, Queued(job)
    PROVE  \E j \in Jobs : /\ jobs[j] = None /\ jobs' = [jobs EXCEPT ![j] = job]
                           /\ jobs' \in [Jobs -> JobType \cup {None}] /\ jobs'[j] = job /\ job # None
                           /\ \A i \in Jobs : i # j => jobs'[i] = jobs[i]
<1> DEFINE free == {j \in Jobs : jobs[j] = None}
<1>1. free # {} /\ jobs' = [jobs EXCEPT ![Min(free)] = job]
  BY DEF Queued
<1>2. Min(free) \in free
  BY <1>1, MinIsOne
<1>3. jobs \in [Jobs -> JobType \cup {None}]
  BY DEF Types
<1> DEFINE j == Min(free)
<1>4. j \in Jobs /\ jobs[j] = None /\ jobs' = [jobs EXCEPT ![j] = job]
  BY <1>1, <1>2
<1> HIDE DEF j
<1> QED
  BY <1>3, <1>4

LEMMA FreeRecord == FreeRecords # {} => Min(FreeRecords) \in FreeRecords
<1>1. FreeRecords \in SUBSET Nat
  BY DEF FreeRecords
<1> QED
  BY <1>1, MinIsOne

-----------------------------------------------------------------------------
(* What a step leaves of the invariant, for what it does not touch.        *)

(* A transaction is told of what changes under it.                         *)
Bears(a, b, jbs, rows, lists, jbs2, rows2, lists2) ==
    /\ a \in RunType /\ b \in RunType /\ Same(a, b)
    /\ (a.job # None => jbs2[a.job] = jbs[a.job])
    /\ (a.record # None => rows2[a.record] # None /\ (rows2[a.record] = rows[a.record] \/ b.stale))
    /\ DOMAIN lists \subseteq DOMAIN lists2 /\ None \notin DOMAIN lists
    /\ (\A p \in DOMAIN lists : lists[p] = None => lists2[p] = None)
    /\ (a.list # None => lists2[a.list] = lists[a.list] \/ b.crossed)

LEMMA FineKept ==
    ASSUME NEW a, NEW b, NEW jbs, NEW rows, NEW lists, NEW jbs2, NEW rows2, NEW lists2,
           Fine(a, jbs, rows, lists), Bears(a, b, jbs, rows, lists, jbs2, rows2, lists2)
    PROVE  Fine(b, jbs2, rows2, lists2)
<1>1. /\ b.job = a.job /\ b.step = a.step /\ b.record = a.record /\ b.row = a.row
      /\ b.list = a.list /\ b.posted = a.posted
      /\ (a.stale => b.stale) /\ (a.crossed => b.crossed)
  BY DEF Same, Bears
<1>2. Whose(b)
  BY <1>1 DEF Fine, Whose
<1>3. Works(b, jbs2)
  BY <1>1 DEF Fine, Works, Bears
<1>4. Knows(b, rows2)
  BY <1>1 DEF Fine, Knows, Bears
<1>5. Reaches(b, lists2)
  <2>1. Reaches(a, lists)
    BY DEF Fine
  <2>2. a.step \in Exports => a.row.id \in DOMAIN lists \cup {None}
    BY <2>1 DEF Fine, Whose, Reaches
  <2> QED
    BY <1>1, <2>1, <2>2 DEF Reaches, Bears
<1>6. HasWritten(b, lists2)
  <2>1. a.step \in Writing => a.list # None
    BY DEF Fine, Reaches
  <2> QED
    BY <1>1, <2>1 DEF Fine, HasWritten, Bears
<1> QED
  BY <1>2, <1>3, <1>4, <1>5, <1>6 DEF Fine

(* The same transactions, and no more jobs that have started.              *)
LEMMA CrewSame ==
    ASSUME NEW rns, NEW jbs, NEW rns2, NEW jbs2, Apart(rns), Manned(rns, jbs),
           \A w \in Workers : (rns2[w] # None <=> rns[w] # None) /\ (rns[w] # None => rns2[w].job = rns[w].job),
           \A j \in Jobs : jbs2[j] # None /\ jbs2[j].state = "started" => jbs[j] # None /\ jbs[j].state = "started"
    PROVE  Apart(rns2) /\ Manned(rns2, jbs2)
BY DEF Apart, Manned

(* One more transaction, with a job that had not started or with none.     *)
Joins(w, rns, jbs, rns2, jbs2) ==
    /\ rns[w] = None /\ rns2[w] # None
    /\ \A v \in Workers : v # w => rns2[v] = rns[v]
    /\ rns2[w].job # None => \A v \in Workers : rns[v] # None => rns[v].job # rns2[w].job
    /\ \A j \in Jobs : j # rns2[w].job /\ jbs2[j] # None /\ jbs2[j].state = "started"
                       => jbs[j] # None /\ jbs[j].state = "started"

LEMMA CrewJoins ==
    ASSUME NEW rns, NEW jbs, NEW rns2, NEW jbs2, Apart(rns), Manned(rns, jbs),
           NEW w \in Workers, Joins(w, rns, jbs, rns2, jbs2)
    PROVE  Apart(rns2) /\ Manned(rns2, jbs2)
<1>1. Apart(rns2)
  BY DEF Apart, Joins
<1>2. Manned(rns2, jbs2)
  BY DEF Manned, Joins
<1> QED
  BY <1>1, <1>2

(* One transaction less, and its job has not started any more.             *)
Leaves(w, rns, jbs, rns2, jbs2) ==
    /\ rns2[w] = None
    /\ \A v \in Workers : v # w => (rns2[v] # None <=> rns[v] # None)
    /\ \A v \in Workers : v # w /\ rns[v] # None => rns2[v].job = rns[v].job
    /\ \A j \in Jobs : jbs2[j] # None /\ jbs2[j].state = "started"
                       => jbs[j] # None /\ jbs[j].state = "started" /\ (rns[w] # None => rns[w].job # j)

LEMMA CrewLeaves ==
    ASSUME NEW rns, NEW jbs, NEW rns2, NEW jbs2, Apart(rns), Manned(rns, jbs),
           NEW w \in Workers, Leaves(w, rns, jbs, rns2, jbs2)
    PROVE  Apart(rns2) /\ Manned(rns2, jbs2)
<1>1. Apart(rns2)
  <2> SUFFICES ASSUME NEW u \in Workers, NEW v \in Workers, rns2[u] # None, rns2[v] # None,
                      rns2[u].job # None, rns2[u].job = rns2[v].job
               PROVE  u = v
    BY DEF Apart
  <2>1. u # w /\ v # w
    BY DEF Leaves
  <2> QED
    BY <2>1 DEF Apart, Leaves
<1>2. Manned(rns2, jbs2)
  <2> SUFFICES ASSUME NEW j \in Jobs, jbs2[j] # None, jbs2[j].state = "started"
               PROVE  \E v \in Workers : rns2[v] # None /\ rns2[v].job = j
    BY DEF Manned
  <2>1. PICK v \in Workers : rns[v] # None /\ rns[v].job = j
    BY DEF Manned, Leaves
  <2>2. v # w
    BY <2>1 DEF Leaves
  <2> QED
    BY <2>1, <2>2 DEF Leaves
<1> QED
  BY <1>1, <1>2

(* What the types say, in the form that the steps use.                     *)
LEMMA TypesSay ==
    ASSUME Types
    PROVE  /\ DOMAIN store = Made /\ Made \subseteq Ids /\ None \notin Made
           /\ \A p \in Made : store[p] \in Says \cup {None}
           /\ \A w \in Workers : runs[w] # None => runs[w] \in RunType
           /\ \A r \in Records : record[r] # None => record[r] \in RecordType /\ record[r].id \in Made \cup {None}
           /\ \A j \in Jobs : jobs[j] # None => jobs[j] \in JobType
           /\ None \notin Records /\ None \notin Jobs /\ None \notin Ids
<1>1. store \in Seq(Says \cup {None}) /\ Len(store) \in Ids
  BY DEF Types
<1>2. \A p \in Made : store[p] \in Says \cup {None}
  BY <1>1, ElementOfSeq DEF Made
<1>3. DOMAIN store = Made /\ Made \subseteq Ids /\ None \notin Made
  BY <1>1 DEF Made
<1>4. \A w \in Workers : runs[w] # None => runs[w] \in RunType
  BY DEF Types
<1>5. \A r \in Records : record[r] # None => record[r] \in RecordType /\ record[r].id \in Made \cup {None}
  BY DEF Types, Exists
<1>6. \A j \in Jobs : jobs[j] # None => jobs[j] \in JobType
  BY DEF Types
<1> QED
  BY <1>2, <1>3, <1>4, <1>5, <1>6

-----------------------------------------------------------------------------
(* What users and staff do.                                                *)

LEMMA InvByParts ==
    /\ RunsFine <=> \A w \in Workers : runs[w] # None => Fine(runs[w], jobs, record, store)
    /\ RunsFine' <=> \A w \in Workers : runs'[w] # None => Fine(runs'[w], jobs', record', store')
    /\ IInv' <=> /\ Types' /\ RunsFine' /\ Apart(runs') /\ Manned(runs', jobs')
                /\ FlagTold' /\ ListsKnown'
BY DEF RunsFine, IInv

(* The types after a step that makes a job, edits a row, or changes no     *)
(* rows at all.                                                            *)
LEMMA ExportJobTyped ==
    ASSUME NEW r \in Records
    PROVE  /\ ExportJob(r) \in JobType /\ ExportJob(r).kind = "export"
           /\ ExportJob(r).record = r /\ ExportJob(r).state = "pending"
BY DEF ExportJob, JobType, Says, Whole

(* A row is written and perhaps an export of it asked for.                 *)
LEMMA UserStep ==
    ASSUME IInv, NEW r \in Records, NEW row \in RecordType,
           record' = [record EXCEPT ![r] = row],
           row.id \in Made \cup {None}, record[r] # None => row.id = record[r].id,
           Told(runs, runs'),
           row = record[r] \/ \A w \in Workers : runs[w] # None /\ runs[w].record = r => runs'[w].stale,
           jobs' = jobs \/ Queued(ExportJob(r)),
           ToldOf(r, row, jobs', store, warned \cup crossed),
           UNCHANGED <<store, warned, crossed, orphans, imports, disturbed>>,
           versions' \in 0..MaxVersions, requests' \in 0..MaxRequests
    PROVE  IInv'
<1>1. Types /\ RunsFine /\ Apart(runs) /\ Manned(runs, jobs) /\ FlagTold /\ ListsKnown
  BY DEF IInv
<1>2. Made' = Made
  BY DEF Made
<1>3. /\ record' \in [Records -> RecordType \cup {None}] /\ record'[r] = row /\ row # None
      /\ \A q \in Records : q # r => record'[q] = record[q]
  BY <1>1 DEF Types
<1>4. /\ jobs' \in [Jobs -> JobType \cup {None}]
      /\ \A j \in Jobs : jobs[j] # None => jobs'[j] = jobs[j]
      /\ \A j \in Jobs : jobs[j] = None => jobs'[j] = None \/ jobs'[j] = ExportJob(r)
  <2>1. CASE jobs' = jobs
    BY <1>1, <2>1 DEF Types
  <2>2. CASE Queued(ExportJob(r))
    BY <1>1, <2>2, QueuedPuts, ExportJobTyped
  <2> QED
    BY <2>1, <2>2
<1>5. Types'
  <2>1. \A q \in Records : Exists(q)' => record'[q].id \in Made \cup {None}
    BY <1>1, <1>3 DEF Types, Exists
  <2>2. \A j \in Jobs : jobs'[j] # None =>
          IF jobs'[j].kind = "export" THEN jobs'[j].record \in Records /\ record'[jobs'[j].record] # None
          ELSE jobs'[j].record = None /\ jobs'[j].list \in Made
    <3> SUFFICES ASSUME NEW j \in Jobs, jobs'[j] # None
                 PROVE  IF jobs'[j].kind = "export" THEN jobs'[j].record \in Records /\ record'[jobs'[j].record] # None
                        ELSE jobs'[j].record = None /\ jobs'[j].list \in Made
      OBVIOUS
    <3>1. CASE jobs[j] # None
      BY <1>1, <1>3, <1>4, <3>1 DEF Types, Exists
    <3>2. CASE jobs[j] = None
      BY <1>3, <1>4, <3>2, ExportJobTyped
    <3> QED
      BY <3>1, <3>2
  <2>3. runs' \in [Workers -> RunType \cup {None}]
    BY DEF Told
  <2>4. \A w \in Workers : runs'[w] # None =>
          /\ runs'[w].list \in Made \cup {None} /\ runs'[w].posted \subseteq Made
          /\ runs'[w].job \in {j \in Jobs : jobs'[j] # None} \cup {None}
    <3> SUFFICES ASSUME NEW w \in Workers, runs'[w] # None
                 PROVE  /\ runs'[w].list \in Made \cup {None} /\ runs'[w].posted \subseteq Made
                        /\ runs'[w].job \in {j \in Jobs : jobs'[j] # None} \cup {None}
      OBVIOUS
    <3>1. runs[w] # None /\ Same(runs[w], runs'[w])
      BY DEF Told
    <3>2. /\ runs[w].list \in Made \cup {None} /\ runs[w].posted \subseteq Made
          /\ runs[w].job \in {j \in Jobs : jobs[j] # None} \cup {None}
      BY <1>1, <3>1 DEF Types
    <3> QED
      BY <1>4, <3>1, <3>2 DEF Same
  <2> QED
    BY <1>1, <1>2, <1>3, <1>4, <2>1, <2>2, <2>3, <2>4 DEF Types, Exists
<1>6. RunsFine'
  <2> SUFFICES ASSUME NEW w \in Workers, runs'[w] # None
               PROVE  Fine(runs'[w], jobs', record', store')
    BY InvByParts
  <2>1. runs[w] # None /\ Same(runs[w], runs'[w]) /\ runs[w] \in RunType /\ runs'[w] \in RunType
    BY <1>1, TypesSay DEF Told
  <2>2. Fine(runs[w], jobs, record, store)
    BY <1>1, <2>1, InvByParts
  <2>3. runs[w].job # None => jobs'[runs[w].job] = jobs[runs[w].job]
    BY <1>4, <2>1, <2>2 DEF Fine, Works, RunType
  <2>4. runs[w].record # None =>
          record'[runs[w].record] # None /\ (record'[runs[w].record] = record[runs[w].record] \/ runs'[w].stale)
    BY <1>3, <2>1, <2>2 DEF Fine, Knows, RunType
  <2>5. DOMAIN store \subseteq DOMAIN store' /\ None \notin DOMAIN store
    BY <1>1, TypesSay
  <2>6. /\ \A p \in DOMAIN store : store[p] = None => store'[p] = None
        /\ runs[w].list # None => store'[runs[w].list] = store[runs[w].list] \/ runs'[w].crossed
    OBVIOUS
  <2>7. Bears(runs[w], runs'[w], jobs, record, store, jobs', record', store')
    BY <2>1, <2>3, <2>4, <2>5, <2>6 DEF Bears
  <2> QED
    BY <2>2, <2>7, FineKept
<1>7. Apart(runs') /\ Manned(runs', jobs')
  <2>1. \A w \in Workers : (runs'[w] # None <=> runs[w] # None) /\ (runs[w] # None => runs'[w].job = runs[w].job)
    <3>1. \A w \in Workers : runs[w] # None => runs'[w] # None
      BY DEF Told
    <3> QED
      BY <3>1 DEF Told, Same
  <2>2. \A j \in Jobs : jobs'[j] # None /\ jobs'[j].state = "started" => jobs[j] # None /\ jobs[j].state = "started"
    BY <1>4, ExportJobTyped
  <2> QED
    BY <1>1, <2>1, <2>2, CrewSame
<1>8. FlagTold'
  <2> SUFFICES ASSUME NEW q \in Records PROVE ToldOf(q, record'[q], jobs', store', warned' \cup crossed')
    BY PropertiesByParts
  <2>1. CASE q = r
    BY <1>3, <2>1
  <2>2. CASE q # r
    <3>1. ToldOf(q, record[q], jobs, store, warned \cup crossed)
      BY <1>1, PropertiesByParts
    <3>2. NoExport(q, jobs') => NoExport(q, jobs)
      BY <1>4 DEF NoExport
    <3> QED
      BY <1>3, <2>2, <3>1, <3>2 DEF ToldOf
  <2> QED
    BY <2>1, <2>2
<1>9. ListsKnown'
  <2> SUFFICES ASSUME NEW p \in 2..Len(store) PROVE KnownAt(p, store', orphans', record', runs')
    BY PropertiesByParts
  <2>1. KnownAt(p, store, orphans, record, runs)
    BY <1>1, PropertiesByParts
  <2>2. \A q \in Records : record[q] # None => record'[q] # None /\ record'[q].id = record[q].id
    BY <1>3
  <2>3. \A w \in Workers : runs[w] # None => runs'[w] # None /\ runs'[w].posted = runs[w].posted
    BY DEF Told, Same
  <2> QED
    BY <2>1, <2>2, <2>3 DEF KnownAt
<1> QED
  BY <1>5, <1>6, <1>7, <1>8, <1>9, InvByParts

LEMMA ToldNothing == Types => Told(runs, runs)
<1> SUFFICES ASSUME Types PROVE Told(runs, runs)
  OBVIOUS
<1>1. runs \in [Workers -> RunType \cup {None}]
  BY DEF Types
<1> QED
  BY <1>1 DEF Told, Same

LEMMA VersionTyped ==
    ASSUME Types, NewVersion
    PROVE  versions' \in 0..MaxVersions /\ Whole(versions') \in Says
BY DEF Types, NewVersion, Whole, Says

(* The rows that users make.                                               *)
LEMMA RowsMade ==
    /\ \A says \in Says, need \in BOOLEAN, linked \in BOOLEAN :
          /\ NewRecord(says, need, linked) \in RecordType /\ NewRecord(says, need, linked).id = None
    /\ Whole(None) \in Says
    /\ \A row \in RecordType : \A v : Whole(v) \in Says =>
          /\ Edited(row, v) \in RecordType /\ Edited(row, v).id = row.id /\ Edited(row, v).need
          /\ [Edited(row, v) EXCEPT !.busy = TRUE] \in RecordType
          /\ [Edited(row, v) EXCEPT !.busy = TRUE].id = row.id
    /\ \A row \in RecordType :
          /\ [row EXCEPT !.busy = TRUE] \in RecordType /\ [row EXCEPT !.busy = TRUE].id = row.id
          /\ row.busy => [row EXCEPT !.busy = TRUE] = row
BY DEF NewRecord, Edited, RecordType, Whole, Says

LEMMA CreateKeeps == IInv /\ Create => IInv'
<1> SUFFICES ASSUME IInv, Create PROVE IInv'
  OBVIOUS
<1> DEFINE r == Min(FreeRecords)
           row == NewRecord(Whole(versions'), FALSE, FALSE)
<1>1. Types
  BY DEF IInv
<1>2. r \in Records /\ record[r] = None
  BY FreeRecord DEF Create, FreeRecords, Exists
<1>3. row \in RecordType /\ row.id = None /\ versions' \in 0..MaxVersions
  BY <1>1, VersionTyped, RowsMade DEF Create
<1>4. record' = [record EXCEPT ![r] = row] /\ runs' = runs /\ jobs' = jobs
  BY DEF Create
<1>5. Told(runs, runs')
  BY <1>1, <1>4, ToldNothing
<1>6. \A w \in Workers : runs[w] # None => runs[w].record # r
  <2> SUFFICES ASSUME NEW w \in Workers, runs[w] # None, runs[w].record = r PROVE FALSE
    OBVIOUS
  <2>1. Fine(runs[w], jobs, record, store)
    BY InvByParts DEF IInv
  <2>2. r # None
    BY <1>1, <1>2, TypesSay
  <2> HIDE DEF r
  <2> QED
    BY <1>2, <2>1, <2>2 DEF Fine, Knows
<1>7. requests' \in 0..MaxRequests
  BY <1>1 DEF Create, Types
<1>8. UNCHANGED <<store, warned, crossed, orphans, imports, disturbed>>
  BY DEF Create
<1> HIDE DEF r, row
<1>9. ToldOf(r, row, jobs', store, warned \cup crossed)
  BY <1>3 DEF ToldOf
<1> QED
  BY <1>2, <1>3, <1>4, <1>5, <1>6, <1>7, <1>8, <1>9, UserStep

LEMMA EditKeeps == \A r \in Records : IInv /\ Edit(r) => IInv'
<1> SUFFICES ASSUME NEW r \in Records, IInv, Edit(r) PROVE IInv'
  OBVIOUS
<1> DEFINE row == Edited(record[r], versions')
<1>1. Types
  BY DEF IInv
<1>2. record[r] \in RecordType /\ record[r].id \in Made \cup {None} /\ record[r] # None
  BY <1>1, TypesSay DEF Edit, Exists
<1>3. row \in RecordType /\ row.id = record[r].id /\ row.need /\ versions' \in 0..MaxVersions
  BY <1>1, <1>2, VersionTyped, RowsMade DEF Edit
<1>4. record' = [record EXCEPT ![r] = row] /\ runs' = Overtaken(r) /\ jobs' = jobs
  BY DEF Edit, Edited
<1>5. Told(runs, runs') /\ \A w \in Workers : runs[w] # None /\ runs[w].record = r => runs'[w].stale
  BY <1>1, <1>4, OvertakenTells
<1>6. requests' \in 0..MaxRequests
  BY <1>1 DEF Edit, Types
<1>7. UNCHANGED <<store, warned, crossed, orphans, imports, disturbed>>
  BY DEF Edit
<1> HIDE DEF row
<1>8. ToldOf(r, row, jobs', store, warned \cup crossed)
  BY <1>3 DEF ToldOf
<1> QED
  BY <1>2, <1>3, <1>4, <1>5, <1>6, <1>7, <1>8, UserStep

(* A list whose export is queued is not spoken of.                         *)
LEMMA QueuedIsTold ==
    ASSUME Types, NEW r \in Records, Queued(ExportJob(r)), NEW row, NEW lists, NEW marks
    PROVE  ToldOf(r, row, jobs', lists, marks)
<1>1. PICK j \in Jobs : jobs'[j] = ExportJob(r) /\ ExportJob(r) # None
  BY ExportJobTyped, QueuedPuts
<1> QED
  BY <1>1, ExportJobTyped DEF ToldOf, NoExport

LEMMA ExportToStoreKeeps == \A r \in Records : IInv /\ ExportToStore(r) => IInv'
<1> SUFFICES ASSUME NEW r \in Records, IInv, ExportToStore(r) PROVE IInv'
  OBVIOUS
<1> DEFINE row == [record[r] EXCEPT !.busy = TRUE]
<1>1. Types
  BY DEF IInv
<1>2. record[r] \in RecordType /\ record[r].id \in Made \cup {None} /\ record[r] # None
  BY <1>1, TypesSay DEF ExportToStore, Exists
<1>3. row \in RecordType /\ row.id = record[r].id /\ (record[r].busy => row = record[r])
  BY <1>2, RowsMade
<1>4. record' = [record EXCEPT ![r] = row]
  BY <1>1 DEF ExportToStore, Types
<1>5. /\ Told(runs, runs')
      /\ row = record[r] \/ \A w \in Workers : runs[w] # None /\ runs[w].record = r => runs'[w].stale
  <2>1. CASE record[r].busy
    <3>1. runs' = runs
      BY <2>1 DEF ExportToStore
    <3> QED
      BY <1>1, <1>3, <2>1, <3>1, ToldNothing
  <2>2. CASE ~record[r].busy
    <3>1. runs' = Overtaken(r)
      BY <2>2 DEF ExportToStore
    <3> QED
      BY <1>1, <3>1, OvertakenTells
  <2> QED
    BY <2>1, <2>2
<1>6. Queued(ExportJob(r))
  BY DEF ExportToStore
<1>7. requests' \in 0..MaxRequests /\ versions' \in 0..MaxVersions
  BY <1>1 DEF ExportToStore, Asks, Types
<1>8. UNCHANGED <<store, warned, crossed, orphans, imports, disturbed>>
  BY DEF ExportToStore
<1> HIDE DEF row
<1>9. ToldOf(r, row, jobs', store, warned \cup crossed)
  BY <1>1, <1>6, QueuedIsTold
<1> QED
  BY <1>2, <1>3, <1>4, <1>5, <1>6, <1>7, <1>8, <1>9, UserStep

LEMMA ExportFromMasterKeeps == IInv /\ ExportFromMaster => IInv'
<1> SUFFICES ASSUME IInv, ExportFromMaster PROVE IInv'
  OBVIOUS
<1> DEFINE linked == {q \in Records : Exists(q) /\ record[q].linked}
           r == Min(IF linked # {} THEN linked ELSE FreeRecords)
           before == IF linked # {} THEN record[r] ELSE NewRecord(Whole(None), TRUE, TRUE)
           row == [Edited(before, versions') EXCEPT !.busy = TRUE]
<1>1. Types
  BY DEF IInv
<1>2. r \in IF linked # {} THEN linked ELSE FreeRecords
  <2>1. CASE linked # {}
    <3>1. linked \in SUBSET Nat
      OBVIOUS
    <3> HIDE DEF linked
    <3> QED
      BY <2>1, <3>1, MinIsOne
  <2>2. CASE linked = {}
    BY <2>2, FreeRecord DEF ExportFromMaster
  <2> QED
    BY <2>1, <2>2
<1>3. r \in Records /\ (linked # {} => record[r] # None) /\ (linked = {} => record[r] = None)
  BY <1>2 DEF FreeRecords, Exists
<1>4. Whole(versions') \in Says /\ versions' \in 0..MaxVersions /\ requests' \in 0..MaxRequests
  <2>1. NewVersion /\ Asks
    BY DEF ExportFromMaster
  <2>2. requests' \in 0..MaxRequests
    BY <1>1, <2>1 DEF Asks, Types
  <2> QED
    BY <1>1, <2>1, <2>2, VersionTyped
<1>5. /\ record' = [record EXCEPT ![r] = row] /\ runs' = Overtaken(r) /\ Queued(ExportJob(r))
      /\ UNCHANGED <<store, warned, crossed, orphans, imports, disturbed>>
  BY DEF ExportFromMaster
<1> HIDE DEF linked, r
<1>6. /\ before \in RecordType /\ before.id \in Made \cup {None}
      /\ record[r] # None => before.id = record[r].id
  BY <1>1, <1>3, TypesSay, RowsMade
<1> HIDE DEF before
<1>7. row \in RecordType /\ row.id = before.id
  BY <1>4, <1>6, RowsMade
<1> HIDE DEF row
<1>8. Told(runs, runs') /\ \A w \in Workers : runs[w] # None /\ runs[w].record = r => runs'[w].stale
  BY <1>1, <1>5, OvertakenTells
<1>9. ToldOf(r, row, jobs', store, warned \cup crossed)
  BY <1>1, <1>3, <1>5, QueuedIsTold
<1> QED
  BY <1>3, <1>4, <1>5, <1>6, <1>7, <1>8, <1>9, UserStep

(* The staff of the store changes a list that is there, or deletes it.     *)
LEMMA StaffStep ==
    ASSUME IInv, NEW p \in Made, store[p] # None, NEW value \in Says \cup {None},
           store' = [store EXCEPT ![p] = value],
           runs' = CrossedRuns(p, {}), crossed' = CrossedRecords(p, None),
           versions' \in 0..MaxVersions, disturbed' \in 0..MaxDisturbances,
           UNCHANGED <<record, jobs, warned, requests, imports, orphans>>
    PROVE  IInv'
<1>1. Types /\ RunsFine /\ Apart(runs) /\ Manned(runs, jobs) /\ FlagTold /\ ListsKnown
  BY DEF IInv
<1>2. DOMAIN store = Made /\ None \notin Made
  BY <1>1, TypesSay
<1>3. /\ store' \in Seq(Says \cup {None}) /\ Len(store') = Len(store)
      /\ \A q \in Made : q # p => store'[q] = store[q]
  BY <1>1, ExceptSeq DEF Types, Made
<1>4. Made' = Made /\ DOMAIN store' = DOMAIN store
  BY <1>3 DEF Made
<1>5. /\ Told(runs, runs')
      /\ \A w \in Workers : runs[w] # None /\ runs[w].list = p => runs'[w].crossed
  BY <1>1, CrossedTells
<1>6. /\ crossed \subseteq crossed' /\ crossed' \subseteq Records
      /\ \A r \in Records : record[r] # None /\ record[r].id = p => r \in crossed'
  <2>1. None \notin Records
    OBVIOUS
  <2> QED
    BY <1>1, <2>1 DEF CrossedRecords, WithId, Exists, Types
<1>7. Types'
  <2>1. runs' \in [Workers -> RunType \cup {None}]
    BY <1>5 DEF Told
  <2>2. \A w \in Workers : runs'[w] # None =>
          /\ runs'[w].list \in Made \cup {None} /\ runs'[w].posted \subseteq Made
          /\ runs'[w].job \in {j \in Jobs : jobs[j] # None} \cup {None}
    BY <1>1, <1>5 DEF Types, Told, Same
  <2> QED
    BY <1>1, <1>3, <1>4, <1>6, <2>1, <2>2 DEF Types, Exists
<1>8. RunsFine'
  <2> SUFFICES ASSUME NEW w \in Workers, runs'[w] # None
               PROVE  Fine(runs'[w], jobs', record', store')
    BY InvByParts
  <2>1. runs[w] # None /\ Same(runs[w], runs'[w]) /\ runs[w] \in RunType /\ runs'[w] \in RunType
    BY <1>1, <1>5, TypesSay DEF Told
  <2>2. Fine(runs[w], jobs, record, store)
    BY <1>1, <2>1, InvByParts
  <2>3. runs[w].record # None => record[runs[w].record] # None
    BY <2>2 DEF Fine, Knows
  <2>4. \A q \in Made : store[q] = None => store'[q] = None
    BY <1>3
  <2>5. runs[w].list # None => store'[runs[w].list] = store[runs[w].list] \/ runs'[w].crossed
    <3>1. runs[w].list \in Made \cup {None}
      BY <1>1, <2>1 DEF Types
    <3> QED
      BY <1>3, <1>5, <2>1, <3>1
  <2>6. Bears(runs[w], runs'[w], jobs, record, store, jobs', record', store')
    BY <1>2, <1>4, <2>1, <2>3, <2>4, <2>5 DEF Bears
  <2> QED
    BY <2>2, <2>6, FineKept
<1>9. Apart(runs') /\ Manned(runs', jobs')
  <2>1. \A w \in Workers : (runs'[w] # None <=> runs[w] # None) /\ (runs[w] # None => runs'[w].job = runs[w].job)
    <3>1. \A w \in Workers : runs[w] # None => runs'[w] # None
      BY <1>5 DEF Told
    <3> QED
      BY <1>5, <3>1 DEF Told, Same
  <2> QED
    BY <1>1, <2>1, CrewSame
<1>10. FlagTold'
  <2> SUFFICES ASSUME NEW q \in Records PROVE ToldOf(q, record'[q], jobs', store', warned' \cup crossed')
    BY PropertiesByParts
  <2>1. ToldOf(q, record[q], jobs, store, warned \cup crossed)
    BY <1>1, PropertiesByParts
  <2>2. record[q] # None => record[q].id \in Made \cup {None}
    BY <1>1, TypesSay
  <2> QED
    BY <1>3, <1>6, <2>1, <2>2 DEF ToldOf
<1>11. ListsKnown'
  <2> SUFFICES ASSUME NEW q \in 2..Len(store) PROVE KnownAt(q, store', orphans', record', runs')
    BY <1>3, PropertiesByParts
  <2>1. KnownAt(q, store, orphans, record, runs)
    BY <1>1, PropertiesByParts
  <2>2. store'[q] # None => store[q] # None
    <3>1. q \in Made
      BY <1>1 DEF Made, Types
    <3> QED
      BY <1>3, <3>1
  <2>3. \A w \in Workers : runs[w] # None => runs'[w] # None /\ runs'[w].posted = runs[w].posted
    BY <1>5 DEF Told, Same
  <2> QED
    BY <2>1, <2>2, <2>3 DEF KnownAt
<1> QED
  BY <1>7, <1>8, <1>9, <1>10, <1>11, InvByParts

LEMMA StaffKeeps == \A p \in Made : IInv /\ (StaffEdits(p) \/ StaffDeletes(p)) => IInv'
<1> SUFFICES ASSUME NEW p \in Made, IInv, StaffEdits(p) \/ StaffDeletes(p) PROVE IInv'
  OBVIOUS
<1>1. Types
  BY DEF IInv
<1>2. store[p] # None
  BY DEF StaffEdits, StaffDeletes, OnStore
<1>3. disturbed' \in 0..MaxDisturbances
  BY <1>1 DEF StaffEdits, StaffDeletes, Disturb, Types
<1>4. CASE StaffEdits(p)
  <2>1. versions' \in 0..MaxVersions /\ Whole(versions') \in Says
    BY <1>1, <1>4, VersionTyped DEF StaffEdits
  <2> QED
    BY <1>2, <1>3, <1>4, <2>1, StaffStep DEF StaffEdits
<1>5. CASE StaffDeletes(p)
  <2>1. versions' \in 0..MaxVersions
    BY <1>1, <1>5 DEF StaffDeletes, Types
  <2> QED
    BY <1>2, <1>3, <1>5, <2>1, StaffStep DEF StaffDeletes
<1> QED
  BY <1>4, <1>5


-----------------------------------------------------------------------------
(* What a transaction does.                                                *)

(* The others are told, and nothing else becomes of them.                  *)
OthersTold(w, rns, new) ==
    /\ new \in [Workers -> RunType \cup {None}]
    /\ \A v \in Workers \ {w} : rns[v] = None => new[v] = None
    /\ \A v \in Workers \ {w} : rns[v] # None => new[v] \in RunType /\ Same(rns[v], new[v])

LEMMA OthersKept ==
    ASSUME NEW w \in Workers, OthersTold(w, runs, runs')
    PROVE  \A v \in Workers \ {w} : /\ runs'[v] # None <=> runs[v] # None
                                    /\ runs[v] # None => runs'[v].job = runs[v].job
<1>1. runs' \in [Workers -> RunType \cup {None}]
  BY DEF OthersTold
<1> QED
  BY <1>1 DEF OthersTold, Same

LEMMA OneChanges ==
    ASSUME Types, NEW w \in Workers, NEW run \in RunType \cup {None}, runs' = [runs EXCEPT ![w] = run]
    PROVE  OthersTold(w, runs, runs') /\ runs'[w] = run
<1>1. Told(runs, runs)
  BY ToldNothing
<1> QED
  BY <1>1 DEF Told, OthersTold

(* The types of the transactions, when one has become another.             *)
LEMMA RunsTyped ==
    ASSUME Types, NEW w \in Workers, OthersTold(w, runs, runs'), Made \subseteq Made',
           \A v \in Workers : runs[v] # None /\ v # w /\ runs[v].job # None => jobs'[runs[v].job] # None,
           runs'[w] # None => /\ runs'[w].list \in Made' \cup {None} /\ runs'[w].posted \subseteq Made'
                              /\ runs'[w].job \in {j \in Jobs : jobs'[j] # None} \cup {None}
    PROVE  /\ runs' \in [Workers -> RunType \cup {None}]
           /\ \A v \in Workers : runs'[v] # None =>
                 /\ runs'[v].list \in Made' \cup {None} /\ runs'[v].posted \subseteq Made'
                 /\ runs'[v].job \in {j \in Jobs : jobs'[j] # None} \cup {None}
<1>1. runs' \in [Workers -> RunType \cup {None}]
  BY DEF OthersTold
<1>2. ASSUME NEW v \in Workers, runs'[v] # None
      PROVE  /\ runs'[v].list \in Made' \cup {None} /\ runs'[v].posted \subseteq Made'
             /\ runs'[v].job \in {j \in Jobs : jobs'[j] # None} \cup {None}
  <2>1. CASE v = w
    BY <1>2, <2>1
  <2>2. CASE v # w
    <3>1. runs[v] # None /\ Same(runs[v], runs'[v])
      BY <1>2, <2>2 DEF OthersTold
    <3>2. /\ runs[v].list \in Made \cup {None} /\ runs[v].posted \subseteq Made
          /\ runs[v].job \in {j \in Jobs : jobs[j] # None} \cup {None}
      BY <3>1 DEF Types
    <3> QED
      BY <2>2, <3>1, <3>2 DEF Same
  <2> QED
    BY <2>1, <2>2
<1> QED
  BY <1>1, <1>2

(* A request of an export: the job and the rows stay.                      *)
LEMMA OwnStep ==
    ASSUME IInv, NEW w \in Workers, runs[w] # None,
           NEW run \in RunType, runs'[w] = run, run.job = runs[w].job, runs[w].posted \subseteq run.posted,
           OthersTold(w, runs, runs'),
           store' \in Seq(Says \cup {None}), Len(store') \in Ids, Len(store) <= Len(store'),
           \A p \in Made : store[p] = None => store'[p] = None,
           \A v \in Workers \ {w} : runs[v] # None /\ runs[v].list # None =>
              store'[runs[v].list] = store[runs[v].list] \/ runs'[v].crossed,
           Fine(run, jobs, record, store'), run.posted \subseteq Made',
           \A p \in Made' \ Made : p \in run.posted \cup orphans',
           orphans \subseteq orphans', orphans' \subseteq Made',
           crossed \subseteq crossed', crossed' \subseteq Records,
           \A r \in Records : record[r] # None /\ record[r].id # None =>
              store'[record[r].id] = store[record[r].id] \/ r \in crossed' \/ ~NoExport(r, jobs),
           UNCHANGED <<record, jobs, warned, versions, requests, imports>>,
           disturbed' \in 0..MaxDisturbances
    PROVE  IInv'
<1>1. Types /\ RunsFine /\ Apart(runs) /\ Manned(runs, jobs) /\ FlagTold /\ ListsKnown
  BY DEF IInv
<1>2. /\ DOMAIN store = Made /\ DOMAIN store' = Made' /\ Made \subseteq Made'
      /\ None \notin Made /\ None \notin Made' /\ run # None
  <2>1. Len(store) \in Nat /\ Len(store') \in Nat
    BY <1>1 DEF Types
  <2> QED
    BY <1>1, <2>1, TypesSay, Marks DEF Made
<1>3. Types'
  <2>1. run.list \in Made' \cup {None}
    BY <1>2 DEF Fine, Reaches
  <2>2. run.job \in {j \in Jobs : jobs[j] # None} \cup {None}
    BY <1>1 DEF Types
  <2>3. \A v \in Workers : runs[v] # None /\ v # w /\ runs[v].job # None => jobs'[runs[v].job] # None
    BY <1>1 DEF Types
  <2>4. /\ runs' \in [Workers -> RunType \cup {None}]
        /\ \A v \in Workers : runs'[v] # None =>
              /\ runs'[v].list \in Made' \cup {None} /\ runs'[v].posted \subseteq Made'
              /\ runs'[v].job \in {j \in Jobs : jobs'[j] # None} \cup {None}
    BY <1>1, <1>2, <2>1, <2>2, <2>3, RunsTyped
  <2>5. \A r \in Records : Exists(r)' => record'[r].id \in Made' \cup {None}
    BY <1>1, <1>2 DEF Types, Exists
  <2>6. \A j \in Jobs : jobs'[j] # None =>
          IF jobs'[j].kind = "export" THEN jobs'[j].record \in Records /\ record'[jobs'[j].record] # None
          ELSE jobs'[j].record = None /\ jobs'[j].list \in Made'
    BY <1>1, <1>2 DEF Types, Exists
  <2>7. orphans' \subseteq Made' /\ warned' \subseteq Records
    BY <1>1, <1>2 DEF Types
  <2>8. record' \in [Records -> RecordType \cup {None}] /\ jobs' \in [Jobs -> JobType \cup {None}]
    BY <1>1 DEF Types
  <2>9. versions' \in 0..MaxVersions /\ requests' \in 0..MaxRequests /\ imports' \in 0..MaxImports
    BY <1>1 DEF Types
  <2> QED
    BY <2>4, <2>5, <2>6, <2>7, <2>8, <2>9 DEF Types, Exists
<1>4. RunsFine'
  <2> SUFFICES ASSUME NEW v \in Workers, runs'[v] # None
               PROVE  Fine(runs'[v], jobs', record', store')
    BY InvByParts
  <2>1. CASE v = w
    BY <2>1
  <2>2. CASE v # w
    <3>1. runs[v] # None /\ Same(runs[v], runs'[v]) /\ runs[v] \in RunType /\ runs'[v] \in RunType
      BY <1>1, <2>2, TypesSay DEF OthersTold
    <3>2. Fine(runs[v], jobs, record, store)
      BY <1>1, <3>1, InvByParts
    <3>3. runs[v].record # None => record[runs[v].record] # None
      BY <3>2 DEF Fine, Knows
    <3>4. Bears(runs[v], runs'[v], jobs, record, store, jobs', record', store')
      BY <1>2, <2>2, <3>1, <3>3 DEF Bears
    <3> QED
      BY <3>2, <3>4, FineKept
  <2> QED
    BY <2>1, <2>2
<1>5. Apart(runs') /\ Manned(runs', jobs')
  <2>1. \A v \in Workers : (runs'[v] # None <=> runs[v] # None) /\ (runs[v] # None => runs'[v].job = runs[v].job)
    BY <1>2, OthersKept
  <2> QED
    BY <1>1, <2>1, CrewSame
<1>6. FlagTold'
  <2> SUFFICES ASSUME NEW q \in Records PROVE ToldOf(q, record'[q], jobs', store', warned' \cup crossed')
    BY PropertiesByParts
  <2>1. ToldOf(q, record[q], jobs, store, warned \cup crossed)
    BY <1>1, PropertiesByParts
  <2> QED
    BY <2>1 DEF ToldOf
<1>7. ListsKnown'
  <2> SUFFICES ASSUME NEW p \in 2..Len(store') PROVE KnownAt(p, store', orphans', record', runs')
    BY PropertiesByParts
  <2>1. CASE p \in Made
    <3>1. p \in 2..Len(store)
      BY <1>1, <2>1 DEF Made, Types
    <3>2. KnownAt(p, store, orphans, record, runs)
      BY <1>1, <3>1, PropertiesByParts
    <3>3. \A v \in Workers : runs[v] # None => runs'[v] # None /\ runs[v].posted \subseteq runs'[v].posted
      BY <1>2 DEF OthersTold, Same
    <3> QED
      BY <2>1, <3>2, <3>3 DEF KnownAt
  <2>2. CASE p \notin Made
    <3>1. p \in Made'
      BY DEF Made
    <3> QED
      BY <1>2, <2>2, <3>1 DEF KnownAt
  <2> QED
    BY <2>1, <2>2
<1> QED
  BY <1>3, <1>4, <1>5, <1>6, <1>7, InvByParts

(* A transaction begins, with a job that waited or with none.              *)
LEMMA JoinStep ==
    ASSUME IInv, NEW w \in Workers, runs[w] = None,
           NEW run \in RunType, runs' = [runs EXCEPT ![w] = run],
           \/ run.job = None /\ jobs' = jobs
           \/ /\ run.job \in Jobs /\ jobs[run.job] # None /\ jobs[run.job].state = "pending"
              /\ jobs' = [jobs EXCEPT ![run.job].state = "started"],
           Fine(run, jobs', record, store), run.list \in Made \cup {None}, run.posted = {},
           imports' \in 0..MaxImports,
           UNCHANGED <<record, store, warned, versions, requests, disturbed, crossed, orphans>>
    PROVE  IInv'
<1>1. Types /\ RunsFine /\ Apart(runs) /\ Manned(runs, jobs) /\ FlagTold /\ ListsKnown
  BY DEF IInv
<1>2. Made' = Made /\ run # None /\ None \notin Jobs
  BY Marks DEF Made
<1>3. /\ jobs' \in [Jobs -> JobType \cup {None}]
      /\ \A j \in Jobs : j # run.job => jobs'[j] = jobs[j]
      /\ \A j \in Jobs : jobs'[j] # None <=> jobs[j] # None
      /\ \A j \in Jobs : jobs[j] # None =>
            jobs'[j].kind = jobs[j].kind /\ jobs'[j].record = jobs[j].record /\ jobs'[j].list = jobs[j].list
  <2>1. CASE run.job = None /\ jobs' = jobs
    BY <1>1, <2>1 DEF Types
  <2>2. CASE /\ run.job \in Jobs /\ jobs[run.job] # None /\ jobs[run.job].state = "pending"
             /\ jobs' = [jobs EXCEPT ![run.job].state = "started"]
    <3>1. jobs[run.job] \in JobType
      BY <1>1, <2>2, TypesSay
    <3> DEFINE job == [jobs[run.job] EXCEPT !.state = "started"]
    <3>2. /\ job \in JobType /\ job # None /\ job.kind = jobs[run.job].kind
          /\ job.record = jobs[run.job].record /\ job.list = jobs[run.job].list
      BY <3>1 DEF JobType
    <3>3. jobs' = [jobs EXCEPT ![run.job] = job]
      BY <2>2
    <3> HIDE DEF job
    <3>4. jobs \in [Jobs -> JobType \cup {None}]
      BY <1>1 DEF Types
    <3>5. jobs'[run.job] = job /\ \A j \in Jobs : j # run.job => jobs'[j] = jobs[j]
      BY <2>2, <3>3, <3>4
    <3>6. jobs' \in [Jobs -> JobType \cup {None}]
      BY <2>2, <3>2, <3>3, <3>4
    <3> QED
      BY <2>2, <3>2, <3>5, <3>6
  <2> QED
    BY <2>1, <2>2
<1>4. \A v \in Workers : runs[v] # None => runs[v].job # run.job \/ run.job = None
  <2> SUFFICES ASSUME NEW v \in Workers, runs[v] # None, runs[v].job = run.job, run.job # None PROVE FALSE
    OBVIOUS
  <2>1. Fine(runs[v], jobs, record, store)
    BY <1>1, InvByParts
  <2> QED
    BY <2>1 DEF Fine, Works
<1>5. runs'[w] = run /\ \A v \in Workers \ {w} : runs'[v] = runs[v]
  BY <1>1 DEF Types
<1>6. OthersTold(w, runs, runs')
  BY <1>1, OneChanges
<1>7. Types'
  <2>1. run.job \in {j \in Jobs : jobs'[j] # None} \cup {None}
    BY <1>3
  <2>2. \A v \in Workers : runs[v] # None /\ v # w /\ runs[v].job # None => jobs'[runs[v].job] # None
    BY <1>1, <1>3 DEF Types
  <2>3. /\ runs' \in [Workers -> RunType \cup {None}]
        /\ \A v \in Workers : runs'[v] # None =>
              /\ runs'[v].list \in Made' \cup {None} /\ runs'[v].posted \subseteq Made'
              /\ runs'[v].job \in {j \in Jobs : jobs'[j] # None} \cup {None}
    BY <1>1, <1>2, <1>5, <1>6, <2>1, <2>2, RunsTyped
  <2>4. \A j \in Jobs : jobs'[j] # None =>
          IF jobs'[j].kind = "export" THEN jobs'[j].record \in Records /\ record'[jobs'[j].record] # None
          ELSE jobs'[j].record = None /\ jobs'[j].list \in Made'
    BY <1>1, <1>2, <1>3 DEF Types, Exists
  <2> QED
    BY <1>1, <1>2, <1>3, <2>3, <2>4 DEF Types, Exists
<1>8. RunsFine'
  <2> SUFFICES ASSUME NEW v \in Workers, runs'[v] # None
               PROVE  Fine(runs'[v], jobs', record', store')
    BY InvByParts
  <2>1. CASE v = w
    BY <1>5, <2>1
  <2>2. CASE v # w
    <3>1. runs[v] # None /\ runs'[v] = runs[v] /\ runs[v] \in RunType /\ Same(runs[v], runs[v])
      BY <1>1, <1>5, <2>2, TypesSay, Marks
    <3>2. Fine(runs[v], jobs, record, store)
      BY <1>1, <3>1, InvByParts
    <3>3. runs[v].record # None => record[runs[v].record] # None
      BY <3>2 DEF Fine, Knows
    <3>4. runs[v].job # None => jobs'[runs[v].job] = jobs[runs[v].job]
      BY <1>1, <1>3, <1>4, <3>1 DEF Types
    <3>5. None \notin DOMAIN store
      BY <1>1, TypesSay
    <3>6. Bears(runs[v], runs'[v], jobs, record, store, jobs', record', store')
      BY <3>1, <3>3, <3>4, <3>5 DEF Bears
    <3> QED
      BY <3>2, <3>6, FineKept
  <2> QED
    BY <2>1, <2>2
<1>9. Apart(runs') /\ Manned(runs', jobs')
  <2>1. runs'[w] # None /\ \A v \in Workers : v # w => runs'[v] = runs[v]
    BY <1>2, <1>5
  <2>2. runs'[w].job # None => \A v \in Workers : runs[v] # None => runs[v].job # runs'[w].job
    BY <1>4, <1>5
  <2>3. \A j \in Jobs : j # runs'[w].job /\ jobs'[j] # None /\ jobs'[j].state = "started"
                         => jobs[j] # None /\ jobs[j].state = "started"
    BY <1>3, <1>5
  <2>4. Joins(w, runs, jobs, runs', jobs')
    BY <2>1, <2>2, <2>3 DEF Joins
  <2> QED
    BY <1>1, <2>4, CrewJoins
<1>10. FlagTold'
  <2> SUFFICES ASSUME NEW q \in Records PROVE ToldOf(q, record'[q], jobs', store', warned' \cup crossed')
    BY PropertiesByParts
  <2>1. ToldOf(q, record[q], jobs, store, warned \cup crossed)
    BY <1>1, PropertiesByParts
  <2>2. NoExport(q, jobs') => NoExport(q, jobs)
    BY <1>3 DEF NoExport
  <2> QED
    BY <2>1, <2>2 DEF ToldOf
<1>11. ListsKnown'
  <2> SUFFICES ASSUME NEW p \in 2..Len(store) PROVE KnownAt(p, store', orphans', record', runs')
    BY PropertiesByParts
  <2>1. KnownAt(p, store, orphans, record, runs)
    BY <1>1, PropertiesByParts
  <2>2. \A v \in Workers : runs[v] # None => runs'[v] # None /\ runs'[v].posted = runs[v].posted
    BY <1>5
  <2> QED
    BY <2>1, <2>2 DEF KnownAt
<1> QED
  BY <1>7, <1>8, <1>9, <1>10, <1>11, InvByParts

(* A transaction ends: only its own list (of, if any) may be written, only *)
(* its own job changed, and a job may be queued that is about no list.     *)
JobsTyped(jbs, rows) ==
    /\ jbs \in [Jobs -> JobType \cup {None}]
    /\ \A j \in Jobs : jbs[j] # None =>
          IF jbs[j].kind = "export" THEN jbs[j].record \in Records /\ rows[jbs[j].record] # None
          ELSE jbs[j].record = None /\ jbs[j].list \in Made

OnlyOf(of, rows, jbs, marks, rows2, jbs2, marks2, lists) ==
    /\ \A r \in Records : r # of => /\ rows2[r] = rows[r]
                                    /\ NoExport(r, jbs2) => NoExport(r, jbs)
                                    /\ r \in marks => r \in marks2
    /\ of \in Records => ToldOf(of, rows2[of], jbs2, lists, marks2)

LEMMA LeaveStep ==
    ASSUME IInv, NEW w \in Workers, runs[w] # None, runs'[w] = None, OthersTold(w, runs, runs'),
           JobsTyped(jobs', record'),
           \A j \in Jobs : j # runs[w].job /\ jobs[j] # None => jobs'[j] = jobs[j],
           \A j \in Jobs : jobs'[j] # None /\ jobs'[j].state = "started" => j # runs[w].job /\ jobs'[j] = jobs[j],
           record' \in [Records -> RecordType \cup {None}],
           \A r \in Records : record'[r] # None => record'[r].id \in Made \cup {None},
           \A v \in Workers \ {w} : runs[v] # None /\ runs[v].record # None =>
              /\ record'[runs[v].record] # None
              /\ record'[runs[v].record] = record[runs[v].record] \/ runs'[v].stale,
           \A p \in runs[w].posted : KnownAt(p, store, orphans', record', runs'),
           orphans \subseteq orphans', orphans' \subseteq Made,
           \A r \in Records : record[r] # None /\ record[r].id \in Made /\ store[record[r].id] # None =>
              record'[r] # None /\ record'[r].id = record[r].id,
           NEW of, OnlyOf(of, record, jobs, warned \cup crossed, record', jobs', warned' \cup crossed', store),
           warned' \subseteq Records, crossed' \subseteq Records,
           UNCHANGED <<store, versions, requests, imports>>,
           disturbed' \in 0..MaxDisturbances
    PROVE  IInv'
<1>1. Types /\ RunsFine /\ Apart(runs) /\ Manned(runs, jobs) /\ FlagTold /\ ListsKnown
  BY DEF IInv
<1>2. Made' = Made
  BY DEF Made
<1>3. \A v \in Workers : runs[v] # None /\ v # w /\ runs[v].job # None => jobs'[runs[v].job] = jobs[runs[v].job]
  <2> SUFFICES ASSUME NEW v \in Workers, runs[v] # None, v # w, runs[v].job # None
               PROVE  jobs'[runs[v].job] = jobs[runs[v].job]
    OBVIOUS
  <2>1. runs[v].job \in Jobs /\ jobs[runs[v].job] # None
    BY <1>1 DEF Types
  <2>2. runs[v].job # runs[w].job
    BY <1>1 DEF Apart
  <2> QED
    BY <2>1, <2>2
<1>4. Types'
  <2>1. \A v \in Workers : runs[v] # None /\ v # w /\ runs[v].job # None => jobs'[runs[v].job] # None
    BY <1>1, <1>3 DEF Types
  <2>2. /\ runs' \in [Workers -> RunType \cup {None}]
        /\ \A v \in Workers : runs'[v] # None =>
              /\ runs'[v].list \in Made' \cup {None} /\ runs'[v].posted \subseteq Made'
              /\ runs'[v].job \in {j \in Jobs : jobs'[j] # None} \cup {None}
    BY <1>1, <1>2, <2>1, RunsTyped
  <2> QED
    BY <1>1, <1>2, <2>2 DEF Types, Exists, JobsTyped
<1>5. RunsFine'
  <2> SUFFICES ASSUME NEW v \in Workers, runs'[v] # None
               PROVE  Fine(runs'[v], jobs', record', store')
    BY InvByParts
  <2>1. v # w
    OBVIOUS
  <2>2. runs[v] # None /\ Same(runs[v], runs'[v]) /\ runs[v] \in RunType /\ runs'[v] \in RunType
    BY <1>1, <2>1, TypesSay DEF OthersTold
  <2>3. Fine(runs[v], jobs, record, store)
    BY <1>1, <2>2, InvByParts
  <2>4. None \notin DOMAIN store
    BY <1>1, TypesSay
  <2>5. Bears(runs[v], runs'[v], jobs, record, store, jobs', record', store')
    BY <1>3, <2>1, <2>2, <2>4 DEF Bears
  <2> QED
    BY <2>3, <2>5, FineKept
<1>6. Apart(runs') /\ Manned(runs', jobs')
  <2>1. \A v \in Workers \ {w} : /\ runs'[v] # None <=> runs[v] # None
                                 /\ runs[v] # None => runs'[v].job = runs[v].job
    BY OthersKept
  <2>2. Leaves(w, runs, jobs, runs', jobs')
    BY <2>1 DEF Leaves
  <2> QED
    BY <1>1, <2>2, CrewLeaves
<1>7. FlagTold'
  <2> SUFFICES ASSUME NEW q \in Records PROVE ToldOf(q, record'[q], jobs', store', warned' \cup crossed')
    BY PropertiesByParts
  <2>1. ToldOf(q, record[q], jobs, store, warned \cup crossed)
    BY <1>1, PropertiesByParts
  <2>2. CASE q = of
    BY <2>2 DEF OnlyOf
  <2>3. CASE q # of
    BY <2>1, <2>3 DEF ToldOf, OnlyOf
  <2> QED
    BY <2>2, <2>3
<1>8. ListsKnown'
  <2> SUFFICES ASSUME NEW p \in 2..Len(store), store[p] # None PROVE KnownAt(p, store', orphans', record', runs')
    BY PropertiesByParts DEF KnownAt
  <2>1. KnownAt(p, store, orphans, record, runs)
    BY <1>1, PropertiesByParts
  <2>2. p \in Made
    BY <1>1 DEF Types, Made
  <2>3. CASE p \in orphans
    BY <2>3 DEF KnownAt
  <2>4. CASE \E r \in Records : record[r] # None /\ record[r].id = p
    BY <2>2, <2>4 DEF KnownAt
  <2>5. CASE \E v \in Workers : runs[v] # None /\ p \in runs[v].posted
    <3>1. PICK v \in Workers : runs[v] # None /\ p \in runs[v].posted
      BY <2>5
    <3>2. CASE v = w
      BY <3>1, <3>2
    <3>3. CASE v # w
      <4>1. runs'[v] \in RunType /\ runs'[v].posted = runs[v].posted
        BY <3>1, <3>3 DEF OthersTold, Same
      <4> QED
        BY <3>1, <4>1, Marks DEF KnownAt
    <3> QED
      BY <3>2, <3>3
  <2> QED
    BY <2>1, <2>3, <2>4, <2>5 DEF KnownAt
<1> QED
  BY <1>4, <1>5, <1>6, <1>7, <1>8, InvByParts

-----------------------------------------------------------------------------
(* The requests of an export.                                              *)

(* An export that goes on.                                                 *)
LEMMA GoesOn ==
    ASSUME NEW run \in RunType, NEW step \in Steps
    PROVE  /\ [run EXCEPT !.step = step] \in RunType /\ [run EXCEPT !.step = step].step = step
           /\ [run EXCEPT !.step = step].job = run.job /\ [run EXCEPT !.step = step].record = run.record
           /\ [run EXCEPT !.step = step].row = run.row /\ [run EXCEPT !.step = step].list = run.list
           /\ [run EXCEPT !.step = step].says = run.says /\ [run EXCEPT !.step = step].posted = run.posted
           /\ [run EXCEPT !.step = step].stale = run.stale /\ [run EXCEPT !.step = step].crossed = run.crossed
BY DEF RunType

(* What an open export is.                                                 *)
LEMMA Exporting ==
    ASSUME IInv, NEW w \in Workers, runs[w] # None, runs[w].step \in Exports
    PROVE  /\ runs[w] \in RunType /\ Fine(runs[w], jobs, record, store)
           /\ runs[w].job \in Jobs /\ jobs[runs[w].job] # None /\ jobs[runs[w].job].record = runs[w].record
           /\ jobs[runs[w].job].kind = "export" /\ runs[w].record \in Records
           /\ runs[w].row \in RecordType /\ ~NoExport(runs[w].record, jobs)
<1>1. Types /\ RunsFine
  BY DEF IInv
<1>2. runs[w] \in RunType /\ Fine(runs[w], jobs, record, store)
  BY <1>1, TypesSay, InvByParts
<1>3. runs[w].step \notin {"read", "save"}
  BY DEF Exports
<1>4. runs[w].job \in Jobs
  BY <1>2, <1>3 DEF RunType, Fine, Whose
<1>5. jobs[runs[w].job] # None /\ jobs[runs[w].job].record = runs[w].record /\ jobs[runs[w].job].kind # "import"
  BY <1>2, <1>3, <1>4 DEF Fine, Works
<1>6. jobs[runs[w].job].kind = "export"
  BY <1>1, <1>4, <1>5, TypesSay DEF JobType
<1>7. runs[w].record \in Records /\ runs[w].row \in RecordType
  BY <1>2, <1>3 DEF RunType, Fine, Whose
<1>8. ~NoExport(runs[w].record, jobs)
  BY <1>4, <1>5 DEF NoExport
<1> QED
  BY <1>2, <1>4, <1>5, <1>6, <1>7, <1>8

(* The export goes on and the store stays.                                 *)
LEMMA QuietStep ==
    ASSUME IInv, NEW w \in Workers, runs[w] # None, runs[w].step \in Exports, NEW step \in Steps,
           runs' = [runs EXCEPT ![w].step = step],
           Fine([runs[w] EXCEPT !.step = step], jobs, record, store),
           UNCHANGED <<record, jobs, store, warned, orphans, versions, requests, imports, crossed>>,
           disturbed' \in 0..MaxDisturbances
    PROVE  IInv'
<1> DEFINE run == [runs[w] EXCEPT !.step = step]
<1>1. Types
  BY DEF IInv
<1>2. runs[w] \in RunType
  BY <1>1, TypesSay
<1>3. run \in RunType /\ run.job = runs[w].job /\ run.posted = runs[w].posted
  BY <1>2, GoesOn
<1>4. runs' = [runs EXCEPT ![w] = run]
  OBVIOUS
<1>5. Fine(run, jobs, record, store)
  OBVIOUS
<1> HIDE DEF run
<1>6. OthersTold(w, runs, runs') /\ runs'[w] = run
  BY <1>1, <1>3, <1>4, OneChanges
<1>7. /\ store' \in Seq(Says \cup {None}) /\ Len(store') \in Ids /\ Len(store) <= Len(store')
      /\ crossed' \subseteq Records /\ Made' = Made
  BY <1>1 DEF Types, Made
<1>8. run.posted \subseteq Made' /\ orphans' \subseteq Made'
  BY <1>1, <1>3, <1>7 DEF Types
<1> QED
  BY <1>3, <1>5, <1>6, <1>7, <1>8, OwnStep

LEMMA PutListKeeps == \A w \in Workers : IInv /\ PutList(w) => IInv'
<1> SUFFICES ASSUME NEW w \in Workers, IInv, PutList(w) PROVE IInv'
  OBVIOUS
<1> DEFINE run == [runs[w] EXCEPT !.step = "clear"]
<1>1. runs[w] # None /\ runs[w].step = "list" /\ runs[w].list # None /\ store[runs[w].list] # None
  BY DEF PutList, At, OnStore
<1>2. runs[w].step \in Exports /\ "clear" \in Steps
  BY <1>1 DEF Exports, Steps
<1>3. runs[w] \in RunType /\ Fine(runs[w], jobs, record, store)
  BY <1>1, <1>2, Exporting
<1>4. Fine(run, jobs, record, store)
  <2>1. /\ run.job = runs[w].job /\ run.step = "clear" /\ run.record = runs[w].record
        /\ run.row = runs[w].row /\ run.list = runs[w].list /\ run.posted = runs[w].posted
        /\ run.stale = runs[w].stale /\ run.crossed = runs[w].crossed
    BY <1>2, <1>3, GoesOn
  <2> HIDE DEF run
  <2>2. Whose(run) /\ Works(run, jobs) /\ Knows(run, record)
    BY <1>1, <1>3, <2>1 DEF Fine, Whose, Works, Knows, Exports
  <2>3. Reaches(run, store)
    BY <1>1, <1>3, <2>1 DEF Fine, Reaches, Exports, Writing
  <2>4. HasWritten(run, store)
    BY <1>1, <2>1 DEF HasWritten
  <2> QED
    BY <2>2, <2>3, <2>4 DEF Fine
<1>5. disturbed' \in 0..MaxDisturbances
  BY DEF IInv, Types, PutList, counts
<1>6. /\ runs' = [runs EXCEPT ![w].step = "clear"]
      /\ UNCHANGED <<record, jobs, store, warned, orphans, versions, requests, imports, crossed>>
  BY DEF PutList, counts
<1> QED
  BY <1>1, <1>2, <1>4, <1>5, <1>6, QuietStep

LEMMA RefusesKeeps == \A w \in Workers : IInv /\ Refuses(w) => IInv'
<1> SUFFICES ASSUME NEW w \in Workers, IInv, Refuses(w) PROVE IInv'
  OBVIOUS
<1> DEFINE run == [runs[w] EXCEPT !.step = "refused"]
<1>1. runs[w] # None /\ runs[w].step \in {"list", "clear", "rules", "unassign", "assign"}
  BY DEF Refuses
<1>2. runs[w].step \in Exports /\ "refused" \in Steps
  BY <1>1 DEF Exports, Steps
<1>3. runs[w] \in RunType /\ Fine(runs[w], jobs, record, store)
  BY <1>1, <1>2, Exporting
<1>4. Fine(run, jobs, record, store)
  <2>1. /\ run.job = runs[w].job /\ run.step = "refused" /\ run.record = runs[w].record
        /\ run.row = runs[w].row /\ run.list = runs[w].list /\ run.posted = runs[w].posted
        /\ run.stale = runs[w].stale /\ run.crossed = runs[w].crossed
    BY <1>2, <1>3, GoesOn
  <2> HIDE DEF run
  <2>2. Whose(run) /\ Works(run, jobs) /\ Knows(run, record)
    BY <1>1, <1>3, <2>1 DEF Fine, Whose, Works, Knows, Exports
  <2>3. Reaches(run, store)
    BY <1>1, <1>3, <2>1 DEF Fine, Reaches, Exports, Writing
  <2>4. HasWritten(run, store)
    BY <2>1 DEF HasWritten, Writing
  <2> QED
    BY <2>2, <2>3, <2>4 DEF Fine
<1>5. disturbed' \in 0..MaxDisturbances
  BY DEF IInv, Types, Refuses, Disturb
<1>6. /\ runs' = [runs EXCEPT ![w].step = "refused"]
      /\ UNCHANGED <<record, jobs, store, warned, orphans, versions, requests, imports, crossed>>
  BY DEF Refuses
<1> QED
  BY <1>1, <1>2, <1>4, <1>5, <1>6, QuietStep

LEMMA PostListKeeps == \A w \in Workers : IInv /\ PostList(w) => IInv'
<1> SUFFICES ASSUME NEW w \in Workers, IInv, PostList(w) PROVE IInv'
  OBVIOUS
<1> DEFINE p == Len(store')
           heard == [runs[w] EXCEPT !.step = "clear", !.list = p, !.posted = {p}]
           unheard == [runs[w] EXCEPT !.step = "refused"]
<1>1. Types
  BY DEF IInv
<1>2. /\ runs[w] # None /\ runs[w].step = "list" /\ Len(store) < MaxLists /\ store' = Append(store, Whole(None))
      /\ ~(runs[w].list # None /\ store[runs[w].list] # None)
      /\ \/ runs' = [runs EXCEPT ![w] = heard] /\ orphans' = orphans
         \/ runs' = [runs EXCEPT ![w] = unheard] /\ orphans' = orphans \cup {p}
      /\ UNCHANGED <<record, jobs, warned, versions, requests, imports, crossed>>
      /\ disturbed' \in 0..MaxDisturbances
  <2>1. disturbed' \in 0..MaxDisturbances
    BY <1>1 DEF PostList, Disturb, Types
  <2>2. /\ At(w, "list") /\ ~OnStore(runs[w].list) /\ Len(store) < MaxLists /\ store' = Append(store, Whole(None))
        /\ UNCHANGED <<record, jobs, warned, versions, requests, imports, crossed>>
    BY DEF PostList
  <2>3. \/ runs' = [runs EXCEPT ![w].step = "clear", ![w].list = p, ![w].posted = {p}] /\ orphans' = orphans
        \/ runs' = [runs EXCEPT ![w].step = "refused"] /\ orphans' = orphans \cup {p}
    BY Zenon DEF PostList
  <2>4. runs \in [Workers -> RunType \cup {None}]
    BY <1>1 DEF Types
  <2>5. [runs EXCEPT ![w].step = "refused"] = [runs EXCEPT ![w] = unheard]
    BY ONLY <2>4 DEF unheard
  <2>6. [runs EXCEPT ![w].step = "clear", ![w].list = p, ![w].posted = {p}] = [runs EXCEPT ![w] = heard]
    BY ONLY <2>4
  <2> HIDE DEF heard, unheard
  <2> QED
    BY <2>1, <2>2, <2>3, <2>5, <2>6 DEF At, OnStore
<1>3. runs[w].step \in Exports
  BY <1>2 DEF Exports
<1>4. runs[w] \in RunType /\ Fine(runs[w], jobs, record, store)
  BY <1>2, <1>3, Exporting
<1>5. Whole(None) \in Says /\ Whole(None) # None
  BY RowsMade
<1>6. /\ store' \in Seq(Says \cup {None}) /\ Len(store') = Len(store) + 1
      /\ \A q \in Made : store'[q] = store[q]
      /\ store'[p] = Whole(None)
  <2>1. store \in Seq(Says \cup {None})
    BY <1>1 DEF Types
  <2> QED
    BY <1>2, <1>5, <2>1, AppendProperties DEF Made
<1>7. /\ p \in Ids /\ p \notin Made /\ Made \subseteq Made' /\ p \in Made' /\ Made' \subseteq Made \cup {p}
      /\ p # None /\ None \notin Made /\ DOMAIN store = Made /\ DOMAIN store' = Made'
  <2>1. Len(store) \in Nat /\ Len(store) > 0
    BY <1>1 DEF Types
  <2> QED
    BY <1>1, <1>2, <1>6, <2>1, TypesSay DEF Made
<1>8. \A q \in Made : store'[q] = store[q]
  BY <1>6
<1>13. Len(store') \in Ids /\ Len(store) <= Len(store')
  BY <1>6, <1>7, <1>1 DEF p, Types
<1> HIDE DEF p
<1>9. /\ heard \in RunType /\ heard.job = runs[w].job /\ heard.step = "clear"
      /\ heard.record = runs[w].record /\ heard.row = runs[w].row /\ heard.list = p
      /\ heard.posted = {p} /\ heard.stale = runs[w].stale /\ heard.crossed = runs[w].crossed
  BY <1>4, <1>7 DEF RunType, Steps
<1>10. /\ unheard \in RunType /\ unheard.job = runs[w].job /\ unheard.step = "refused"
       /\ unheard.record = runs[w].record /\ unheard.row = runs[w].row
       /\ unheard.list = runs[w].list /\ unheard.posted = runs[w].posted
       /\ unheard.stale = runs[w].stale /\ unheard.crossed = runs[w].crossed
  BY <1>4, GoesOn DEF Steps
<1> HIDE DEF heard, unheard
<1>11. /\ Reaches(runs[w], store) /\ runs[w].row # None /\ runs[w].posted = {}
       /\ runs[w].row.id \in Made \cup {None} /\ runs[w].row.id = runs[w].list
       /\ runs[w].row.id # p /\ (runs[w].row.id # None => store'[runs[w].row.id] = None)
  <2>1. Reaches(runs[w], store) /\ runs[w].row # None
    BY <1>3, <1>4 DEF Fine, Whose
  <2>2. runs[w].row.id \in Made \cup {None} /\ runs[w].row.id = runs[w].list /\ runs[w].posted = {}
    BY <1>2, <1>7, <2>1 DEF Reaches
  <2> QED
    BY <1>2, <1>7, <1>8, <2>1, <2>2
<1>12. Fine(heard, jobs, record, store')
  <2>1. Whose(heard) /\ Works(heard, jobs) /\ Knows(heard, record)
    BY <1>2, <1>4, <1>7, <1>9 DEF Fine, Whose, Works, Knows, Exports
  <2>2. Reaches(heard, store')
    BY <1>7, <1>9, <1>11 DEF Reaches, Exports, Writing
  <2>3. HasWritten(heard, store')
    BY <1>5, <1>6, <1>9 DEF HasWritten
  <2> QED
    BY <2>1, <2>2, <2>3 DEF Fine
<1>14. Fine(unheard, jobs, record, store')
  <2>1. Whose(unheard) /\ Works(unheard, jobs) /\ Knows(unheard, record)
    BY <1>2, <1>4, <1>10 DEF Fine, Whose, Works, Knows, Exports
  <2>2. Reaches(unheard, store')
    BY <1>7, <1>10, <1>11 DEF Reaches, Exports, Writing
  <2>3. HasWritten(unheard, store')
    BY <1>10 DEF HasWritten, Writing
  <2> QED
    BY <2>1, <2>2, <2>3 DEF Fine
<1>15. \A v \in Workers \ {w} : runs[v] # None /\ runs[v].list # None => store'[runs[v].list] = store[runs[v].list]
  BY <1>1, <1>8 DEF Types
<1>16. \A r \in Records : record[r] # None /\ record[r].id # None => store'[record[r].id] = store[record[r].id]
  BY <1>1, <1>8, TypesSay
<1>17. crossed' \subseteq Records /\ orphans \subseteq Made'
  BY <1>1, <1>2, <1>7 DEF Types
<1>18. CASE runs' = [runs EXCEPT ![w] = heard] /\ orphans' = orphans
  <2>1. OthersTold(w, runs, runs') /\ runs'[w] = heard
    BY <1>1, <1>9, <1>18, OneChanges
  <2>2. /\ heard.posted \subseteq Made' /\ runs[w].posted \subseteq heard.posted
        /\ \A q \in Made' \ Made : q \in heard.posted \cup orphans'
    BY <1>7, <1>9, <1>11
  <2> QED
    BY <1>2, <1>6, <1>8, <1>9, <1>12, <1>13, <1>15, <1>16, <1>17, <1>18, <2>1, <2>2, OwnStep
<1>19. CASE runs' = [runs EXCEPT ![w] = unheard] /\ orphans' = orphans \cup {p}
  <2>1. OthersTold(w, runs, runs') /\ runs'[w] = unheard
    BY <1>1, <1>10, <1>19, OneChanges
  <2>2. /\ unheard.posted \subseteq Made' /\ runs[w].posted \subseteq unheard.posted
        /\ \A q \in Made' \ Made : q \in unheard.posted \cup orphans'
        /\ orphans \subseteq orphans' /\ orphans' \subseteq Made'
    BY <1>7, <1>10, <1>11, <1>17, <1>19
  <2> QED
    BY <1>2, <1>6, <1>8, <1>10, <1>13, <1>14, <1>15, <1>16, <1>17, <2>1, <2>2, OwnStep
<1> QED
  BY <1>2, <1>18, <1>19

(* A request that writes: part of the list becomes value.                  *)
Parts == {<<"clear", "rules", "rules">>, <<"rules", "unassign", "rules">>,
          <<"unassign", "assign", "groups">>, <<"assign", "done", "groups">>}

LEMMA Written ==
    ASSUME NEW says \in Says, NEW value \in (0..MaxVersions) \cup {None}
    PROVE  /\ [says EXCEPT !.rules = value] \in Says /\ [says EXCEPT !.rules = value].rules = value
           /\ [says EXCEPT !.groups = value] \in Says /\ [says EXCEPT !.groups = value].groups = value
           /\ [says EXCEPT !.groups = value].rules = says.rules
           /\ says # None
BY DEF Says

LEMMA SendsKeeps ==
    ASSUME IInv, NEW w \in Workers, NEW step, NEW next, NEW part, <<step, next, part>> \in Parts,
           NEW value \in (0..MaxVersions) \cup {None}, Sends(w, step, next, part, value),
           next = "unassign" => value = runs[w].row.says.rules,
           next = "done" => value = runs[w].row.says.groups
    PROVE  IInv'
<1>0. PICK reached \in {next, "refused"} :
         /\ runs' = [CrossedRuns(runs[w].list, {w}) EXCEPT ![w].step = reached]
         /\ reached = next \/ Disturb("unanswered")
         /\ reached = next => disturbed' = disturbed
  BY DEF Sends
<1> DEFINE p == runs[w].list
           run == [runs[w] EXCEPT !.step = reached]
           says == [store[p] EXCEPT ![part] = value]
<1>1. Types
  BY DEF IInv
<1>2. /\ runs[w] # None /\ runs[w].step = step /\ p # None /\ store[p] # None
      /\ store' = [store EXCEPT ![p][part] = value]
      /\ crossed' = CrossedRecords(p, runs[w].record)
      /\ runs' = [CrossedRuns(p, {w}) EXCEPT ![w].step = reached]
      /\ UNCHANGED <<record, jobs, warned, orphans, versions, requests, imports>>
  BY <1>0 DEF Sends, At, OnStore
<1>3. /\ step \in {"clear", "rules", "unassign", "assign"} /\ next \in Steps /\ part \in {"rules", "groups"}
      /\ step \in Exports /\ step \in Writing /\ reached \in Exports /\ reached \in Steps
      /\ reached \notin {"list", "read", "save", "clear"}
      /\ reached = "rules" => part = "rules"
      /\ reached = "unassign" => part = "rules" /\ next = "unassign"
      /\ reached = "assign" => part = "groups" /\ step = "unassign"
      /\ reached = "done" => part = "groups" /\ step = "assign" /\ next = "done"
  BY <1>0 DEF Parts, Steps, Exports, Writing
<1>4. /\ runs[w] \in RunType /\ Fine(runs[w], jobs, record, store) /\ runs[w].record \in Records
      /\ ~NoExport(runs[w].record, jobs)
  BY <1>2, <1>3, Exporting
<1>5. p \in Made /\ store[p] \in Says /\ DOMAIN store = Made /\ None \notin Made
  <2>1. p \in Made
    BY <1>1, <1>2 DEF Types
  <2> HIDE DEF p
  <2> QED
    BY <1>1, <1>2, <2>1, TypesSay
<1> HIDE DEF p
<1>6. /\ says \in Says /\ says # None /\ (part = "rules" => says.rules = value)
      /\ (part = "groups" => says.groups = value /\ says.rules = store[p].rules)
  <2>1. CASE part = "rules"
    <3>1. says = [store[p] EXCEPT !.rules = value]
      BY <2>1
    <3> HIDE DEF says
    <3> QED
      BY <1>5, <2>1, <3>1, Written
  <2>2. CASE part = "groups"
    <3>1. says = [store[p] EXCEPT !.groups = value]
      BY <2>2
    <3> HIDE DEF says
    <3> QED
      BY <1>5, <2>2, <3>1, Written
  <2> QED
    BY <1>3, <2>1, <2>2
<1>7. store' = [store EXCEPT ![p] = says]
  BY <1>2
<1> HIDE DEF says
<1>8. /\ store' \in Seq(Says \cup {None}) /\ Len(store') = Len(store) /\ store'[p] = says
      /\ \A q \in Made : q # p => store'[q] = store[q]
  BY <1>1, <1>5, <1>6, <1>7, ExceptSeq DEF Types, Made
<1>9. Made' = Made /\ DOMAIN store' = Made
  BY <1>8 DEF Made
<1>10. /\ run \in RunType /\ run.job = runs[w].job /\ run.step = reached /\ run.record = runs[w].record
       /\ run.row = runs[w].row /\ run.list = p /\ run.posted = runs[w].posted
       /\ run.stale = runs[w].stale /\ run.crossed = runs[w].crossed
  BY <1>3, <1>4, GoesOn DEF p
<1>11. /\ Told(runs, CrossedRuns(p, {w})) /\ CrossedRuns(p, {w})[w] = runs[w]
       /\ \A v \in Workers \ {w} : runs[v] # None /\ runs[v].list = p => CrossedRuns(p, {w})[v].crossed
  BY <1>1, CrossedTells
<1>12. OthersTold(w, runs, runs') /\ runs'[w] = run
       /\ \A v \in Workers \ {w} : runs'[v] = CrossedRuns(p, {w})[v]
  <2> DEFINE new == CrossedRuns(p, {w})
  <2>1. runs' = [new EXCEPT ![w] = run]
    BY <1>2, <1>11
  <2>2. Told(runs, new)
    BY <1>11
  <2> HIDE DEF new, run
  <2>3. OthersTold(w, runs, runs') /\ runs'[w] = run /\ \A v \in Workers \ {w} : runs'[v] = new[v]
    BY <1>10, <2>1, <2>2 DEF Told, OthersTold
  <2> QED
    BY <2>3 DEF new
<1> HIDE DEF run
<1>13. Fine(run, jobs, record, store')
  <2>1. Whose(run) /\ Works(run, jobs) /\ Knows(run, record)
    <3>1. step # "read" /\ step # "save" /\ reached # "read" /\ reached # "save"
      BY <1>3
    <3>2. Whose(run)
      BY <1>2, <1>3, <1>4, <1>10, <3>1 DEF Fine, Whose, p
    <3>3. Works(run, jobs)
      BY <1>2, <1>4, <1>10, <3>1 DEF Fine, Works
    <3>4. Knows(run, record)
      BY <1>4, <1>10 DEF Fine, Knows
    <3> QED
      BY <3>2, <3>3, <3>4
  <2>2. Reaches(run, store')
    <3>1. Reaches(runs[w], store) /\ runs[w].list = p
      BY <1>4 DEF Fine, p
    <3>2. runs[w].row # None
      BY <1>2, <1>3, <1>4 DEF Fine, Whose
    <3>3. runs[w].row.id \notin {p, None} => store'[runs[w].row.id] = None
      BY <1>2, <1>3, <1>5, <1>8, <3>1, <3>2 DEF Reaches
    <3> QED
      BY <1>2, <1>3, <1>5, <1>9, <1>10, <3>1, <3>2, <3>3 DEF Reaches
  <2>3. HasWritten(run, store')
    <3>1. ~run.crossed /\ step \in {"unassign", "assign"} => store[p].rules = run.row.says.rules
      BY <1>2, <1>3, <1>4, <1>10 DEF Fine, HasWritten, p
    <3> QED
      BY <1>3, <1>6, <1>8, <1>10, <3>1 DEF HasWritten, Writing
  <2> QED
    BY <2>1, <2>2, <2>3 DEF Fine
<1>14. Len(store') \in Ids /\ Len(store) <= Len(store')
  BY <1>1, <1>8 DEF Types
<1>15. \A q \in Made : store[q] = None => store'[q] = None
  BY <1>2, <1>8
<1>16. \A v \in Workers \ {w} : runs[v] # None /\ runs[v].list # None =>
          store'[runs[v].list] = store[runs[v].list] \/ runs'[v].crossed
  BY <1>1, <1>8, <1>11, <1>12 DEF Types
<1>17. crossed \subseteq crossed' /\ crossed' \subseteq Records
  BY <1>1, <1>2 DEF CrossedRecords, WithId, Types
<1>18. \A r \in Records : record[r] # None /\ record[r].id # None =>
          store'[record[r].id] = store[record[r].id] \/ r \in crossed' \/ ~NoExport(r, jobs)
  <2> SUFFICES ASSUME NEW r \in Records, record[r] # None, record[r].id # None,
                      store'[record[r].id] # store[record[r].id]
               PROVE  r \in crossed' \/ ~NoExport(r, jobs)
    OBVIOUS
  <2>1. record[r].id = p
    BY <1>1, <1>8, TypesSay
  <2> QED
    BY <1>2, <1>4, <2>1 DEF CrossedRecords, WithId, Exists
<1>19. /\ run.posted \subseteq Made' /\ Made' \ Made = {} /\ runs[w].posted \subseteq run.posted
       /\ orphans' \subseteq Made'
  BY <1>1, <1>2, <1>9, <1>10 DEF Types
<1>20. disturbed' \in 0..MaxDisturbances
  BY <1>0, <1>1 DEF Types, Disturb
<1> QED
  BY <1>2, <1>8, <1>10, <1>12, <1>13, <1>14, <1>15, <1>16, <1>17, <1>18, <1>19, <1>20, OwnStep

LEMMA RequestsKeep ==
    \A w \in Workers :
        IInv /\ (RemoveRules(w) \/ UpsertRules(w) \/ RemoveGroups(w) \/ AssignGroups(w)) => IInv'
<1> SUFFICES ASSUME NEW w \in Workers, IInv,
                    RemoveRules(w) \/ UpsertRules(w) \/ RemoveGroups(w) \/ AssignGroups(w)
             PROVE  IInv'
  OBVIOUS
<1>0. /\ <<"clear", "rules", "rules">> \in Parts /\ <<"rules", "unassign", "rules">> \in Parts
      /\ <<"unassign", "assign", "groups">> \in Parts /\ <<"assign", "done", "groups">> \in Parts
      /\ None \in (0..MaxVersions) \cup {None}
  BY DEF Parts
<1>1. CASE RemoveRules(w)
  BY <1>0, <1>1, SendsKeeps DEF RemoveRules
<1>2. CASE RemoveGroups(w)
  BY <1>0, <1>2, SendsKeeps DEF RemoveGroups
<1>3. UpsertRules(w) \/ AssignGroups(w) =>
        runs[w].row.says.rules \in (0..MaxVersions) \cup {None} /\ runs[w].row.says.groups \in (0..MaxVersions) \cup {None}
  <2> SUFFICES ASSUME UpsertRules(w) \/ AssignGroups(w)
               PROVE  runs[w].row.says \in Says
    BY DEF Says
  <2>1. runs[w] # None /\ runs[w].step \in Exports
    BY DEF UpsertRules, AssignGroups, Sends, At, Exports
  <2>2. runs[w].row \in RecordType
    BY <2>1, Exporting
  <2> QED
    BY <2>2 DEF RecordType
<1>4. CASE UpsertRules(w)
  BY <1>0, <1>3, <1>4, SendsKeeps DEF UpsertRules
<1>5. CASE AssignGroups(w)
  BY <1>0, <1>3, <1>5, SendsKeeps DEF AssignGroups
<1> QED
  BY <1>1, <1>2, <1>4, <1>5

-----------------------------------------------------------------------------
(* Where transactions begin and end.                                       *)

(* A job whose state has changed.                                          *)
Restated(j, state, jbs, jbs2) ==
    /\ jbs2 \in [Jobs -> JobType \cup {None}]
    /\ \A i \in Jobs : i # j => jbs2[i] = jbs[i]
    /\ \A i \in Jobs : jbs2[i] # None <=> jbs[i] # None
    /\ jbs2[j].state = state /\ jbs2[j].kind = jbs[j].kind /\ jbs2[j].record = jbs[j].record
    /\ jbs2[j].list = jbs[j].list /\ jbs2[j] # None

LEMMA JobChanged ==
    ASSUME Types, NEW j \in Jobs, jobs[j] # None, NEW state, state \in {"pending", "started", "failed"},
           jobs' = [jobs EXCEPT ![j].state = state]
    PROVE  Restated(j, state, jobs, jobs')
<1> DEFINE job == [jobs[j] EXCEPT !.state = state]
<1>1. jobs[j] \in JobType /\ jobs \in [Jobs -> JobType \cup {None}]
  BY TypesSay DEF Types
<1>2. job \in JobType /\ job # None /\ job.kind = jobs[j].kind /\ job.record = jobs[j].record
      /\ job.list = jobs[j].list /\ job.state = state
  BY <1>1 DEF JobType
<1>3. jobs' = [jobs EXCEPT ![j] = job]
  OBVIOUS
<1> HIDE DEF job
<1>4. jobs'[j] = job /\ \A i \in Jobs : i # j => jobs'[i] = jobs[i]
  BY <1>1, <1>3
<1>5. jobs' \in [Jobs -> JobType \cup {None}]
  BY <1>1, <1>2, <1>3
<1> QED
  BY <1>2, <1>4, <1>5 DEF Restated

LEMMA NewRun ==
    ASSUME Types, NEW job \in Jobs \cup {None}, NEW step \in Steps, NEW r \in Records \cup {None},
           r # None => record[r] # None, NEW list \in Made \cup {None}
    PROVE  /\ Run(job, step, r, list) \in RunType
           /\ Run(job, step, r, list).job = job /\ Run(job, step, r, list).step = step
           /\ Run(job, step, r, list).record = r /\ Run(job, step, r, list).list = list
           /\ Run(job, step, r, list).row = (IF r = None THEN None ELSE record[r])
           /\ Run(job, step, r, list).says = Whole(None) /\ Run(job, step, r, list).posted = {}
           /\ ~Run(job, step, r, list).stale /\ ~Run(job, step, r, list).crossed
<1>1. /\ list \in Ids \cup {None}
      /\ r # None => record[r] \in RecordType
  BY TypesSay
<1>2. Whole(None) \in Says
  BY RowsMade
<1> QED
  BY <1>1, <1>2 DEF Run, RunType

LEMMA NewSays ==
    ASSUME NEW run \in RunType, NEW says \in Says
    PROVE  /\ [run EXCEPT !.says = says] \in RunType /\ [run EXCEPT !.says = says].job = run.job
           /\ [run EXCEPT !.says = says].step = run.step /\ [run EXCEPT !.says = says].record = run.record
           /\ [run EXCEPT !.says = says].row = run.row /\ [run EXCEPT !.says = says].list = run.list
           /\ [run EXCEPT !.says = says].posted = run.posted /\ [run EXCEPT !.says = says].stale = run.stale
           /\ [run EXCEPT !.says = says].crossed = run.crossed
BY DEF RunType

LEMMA StartExportKeeps == \A w \in Workers, j \in Jobs : IInv /\ StartExport(w, j) => IInv'
<1> SUFFICES ASSUME NEW w \in Workers, NEW j \in Jobs, IInv, StartExport(w, j) PROVE IInv'
  OBVIOUS
<1> DEFINE r == jobs[j].record
           list == record[r].id
           run == Run(j, "list", r, list)
<1>1. Types
  BY DEF IInv
<1>2. /\ runs[w] = None /\ jobs[j] # None /\ jobs[j].kind = "export" /\ jobs[j].state = "pending"
      /\ jobs' = [jobs EXCEPT ![j].state = "started"] /\ runs' = [runs EXCEPT ![w] = run]
      /\ UNCHANGED <<record, store, warned, versions, requests, imports, disturbed, crossed, orphans>>
  BY DEF StartExport, Starts, counts
<1>3. r \in Records /\ record[r] # None
  BY <1>1, <1>2 DEF Types, Exists
<1> HIDE DEF r
<1>4. list \in Made \cup {None} /\ record[r] \in RecordType
  BY <1>1, <1>3, TypesSay
<1> HIDE DEF list
<1>5. /\ run \in RunType /\ run.job = j /\ run.step = "list" /\ run.record = r /\ run.list = list
      /\ run.row = record[r] /\ run.posted = {} /\ ~run.stale /\ ~run.crossed
  <2>1. r # None /\ j \in Jobs \cup {None} /\ "list" \in Steps /\ r \in Records \cup {None}
    BY <1>1, <1>3, TypesSay DEF Steps
  <2> QED
    BY <1>1, <1>3, <1>4, <2>1, NewRun
<1> HIDE DEF run
<1>6. /\ jobs'[j] # None /\ jobs'[j].state = "started" /\ jobs'[j].kind = "export" /\ jobs'[j].record = r
  BY <1>1, <1>2, JobChanged DEF r, Restated
<1>7. Fine(run, jobs', record, store)
  <2>1. j # None /\ r # None /\ DOMAIN store = Made
    BY <1>1, <1>3, TypesSay
  <2>2. Whose(run)
    BY <1>3, <1>5, <2>1 DEF Whose
  <2>3. Works(run, jobs')
    BY <1>5, <1>6 DEF Works
  <2>4. Knows(run, record)
    BY <1>3, <1>5 DEF Knows
  <2>5. Reaches(run, store)
    BY <1>4, <1>5, <2>1 DEF Reaches, Writing, list
  <2>6. HasWritten(run, store)
    BY <1>5 DEF HasWritten, Writing
  <2> QED
    BY <2>2, <2>3, <2>4, <2>5, <2>6 DEF Fine
<1>8. imports' \in 0..MaxImports
  BY <1>1, <1>2 DEF Types
<1> QED
  BY <1>2, <1>4, <1>5, <1>7, <1>8, JoinStep

LEMMA StartSaveKeeps == \A w \in Workers, j \in Jobs : IInv /\ StartSave(w, j) => IInv'
<1> SUFFICES ASSUME NEW w \in Workers, NEW j \in Jobs, IInv, StartSave(w, j) PROVE IInv'
  OBVIOUS
<1> DEFINE found == WithId(jobs[j].list)
           r == IF found = {} THEN None ELSE Min(found)
           begun == Run(j, "save", r, None)
           run == [begun EXCEPT !.says = jobs[j].says]
<1>1. Types
  BY DEF IInv
<1>2. /\ runs[w] = None /\ jobs[j] # None /\ jobs[j].kind = "import" /\ jobs[j].state = "pending"
      /\ jobs' = [jobs EXCEPT ![j].state = "started"] /\ runs' = [runs EXCEPT ![w] = run]
      /\ UNCHANGED <<record, store, warned, versions, requests, imports, disturbed, crossed, orphans>>
  BY DEF StartSave, Starts, counts
<1>3. r # None => r \in Records /\ record[r] # None /\ record[r].id = jobs[j].list
  <2>1. found # {} => Min(found) \in found
    <3>1. found \in SUBSET Nat
      BY DEF WithId
    <3> HIDE DEF found
    <3> QED
      BY <3>1, MinIsOne
  <2> QED
    BY <2>1 DEF WithId, Exists
<1> HIDE DEF r
<1>4. jobs[j].says \in Says /\ (r # None => record[r] \in RecordType /\ record[r].id \in Made \cup {None})
  BY <1>1, <1>2, <1>3, TypesSay DEF JobType
<1>5. /\ begun \in RunType /\ begun.job = j /\ begun.step = "save" /\ begun.record = r /\ begun.list = None
      /\ begun.row = (IF r = None THEN None ELSE record[r])
      /\ begun.posted = {} /\ ~begun.stale /\ ~begun.crossed
  <2>1. j \in Jobs \cup {None} /\ "save" \in Steps /\ r \in Records \cup {None} /\ None \in Made \cup {None}
    BY <1>1, <1>3 DEF Steps
  <2> QED
    BY <1>1, <1>3, <2>1, NewRun
<1> HIDE DEF begun
<1>6. /\ run \in RunType /\ run.job = j /\ run.step = "save" /\ run.record = r /\ run.list = None
      /\ run.row = (IF r = None THEN None ELSE record[r])
      /\ run.posted = {} /\ ~run.stale /\ ~run.crossed
  BY <1>4, <1>5, NewSays
<1> HIDE DEF run
<1>7. /\ jobs'[j] # None /\ jobs'[j].state = "started" /\ jobs'[j].kind = "import" /\ jobs'[j].list = jobs[j].list
  BY <1>1, <1>2, JobChanged DEF Restated
<1>8. Fine(run, jobs', record, store)
  <2>1. j # None /\ DOMAIN store = Made /\ (r # None => record[r] # None)
    BY <1>1, <1>3, TypesSay
  <2>2. Whose(run)
    BY <1>6, <2>1 DEF Whose, Exports
  <2>3. Works(run, jobs')
    BY <1>3, <1>6, <1>7 DEF Works
  <2>4. Knows(run, record)
    BY <1>6, <2>1 DEF Knows
  <2>5. Reaches(run, store)
    BY <1>4, <1>6, <2>1 DEF Reaches, Writing, Exports
  <2>6. HasWritten(run, store)
    BY <1>6 DEF HasWritten, Writing
  <2> QED
    BY <2>2, <2>3, <2>4, <2>5, <2>6 DEF Fine
<1>9. imports' \in 0..MaxImports
  BY <1>1, <1>2 DEF Types
<1>10. run.list \in Made \cup {None}
  BY <1>6
<1> QED
  BY <1>2, <1>6, <1>8, <1>9, <1>10, JoinStep

LEMMA ReadListKeeps == \A w \in Workers, p \in Made : IInv /\ ReadList(w, p) => IInv'
<1> SUFFICES ASSUME NEW w \in Workers, NEW p \in Made, IInv, ReadList(w, p) PROVE IInv'
  OBVIOUS
<1> DEFINE begun == Run(None, "read", None, p)
           says == [Whole(None) EXCEPT !.groups = store[p].groups]
           run == [begun EXCEPT !.says = says]
<1>1. Types
  BY DEF IInv
<1>2. store[p] \in Says /\ p # None
  BY <1>1, TypesSay DEF ReadList, OnStore
<1>3. says \in Says
  <2>1. store[p].groups \in (0..MaxVersions) \cup {None}
    BY <1>2 DEF Says
  <2> QED
    BY <2>1, RowsMade, Written
<1>4. /\ begun \in RunType /\ begun.job = None /\ begun.step = "read" /\ begun.record = None /\ begun.list = p
      /\ begun.row = None /\ begun.posted = {} /\ ~begun.stale /\ ~begun.crossed /\ begun.says = Whole(None)
  <2>1. begun = [job |-> None, step |-> "read", record |-> None, row |-> None, list |-> p, says |-> Whole(None),
                 posted |-> {}, stale |-> FALSE, crossed |-> FALSE]
    BY DEF Run
  <2>2. p \in Ids
    BY <1>1, TypesSay
  <2> HIDE DEF run, says, begun
  <2> QED
    BY <2>1, <2>2, RowsMade DEF RunType, Steps
<1>5. /\ runs[w] = None /\ runs' = [runs EXCEPT ![w] = run] /\ imports' \in 0..MaxImports
      /\ UNCHANGED <<record, jobs, store, warned, versions, requests, disturbed, crossed, orphans>>
  <2>1. runs' = [runs EXCEPT ![w] = [begun EXCEPT !.says.groups = store[p].groups]]
    BY DEF ReadList
  <2>2. [begun EXCEPT !.says.groups = store[p].groups] = run
    BY <1>4
  <2>3. imports' \in 0..MaxImports
    BY <1>1 DEF ReadList, Types
  <2> HIDE DEF run, begun
  <2>4. runs' = [runs EXCEPT ![w] = run]
    BY <2>1, <2>2
  <2> QED
    BY <2>3, <2>4 DEF ReadList
<1> HIDE DEF begun, says
<1>6. /\ run \in RunType /\ run.job = None /\ run.step = "read" /\ run.record = None /\ run.list = p
      /\ run.row = None /\ run.posted = {} /\ ~run.stale /\ ~run.crossed
  BY <1>3, <1>4, NewSays
<1> HIDE DEF run
<1>7. Fine(run, jobs', record, store)
  <2>1. DOMAIN store = Made
    BY <1>1, TypesSay
  <2>2. Whose(run)
    BY <1>2, <1>6 DEF Whose, Exports
  <2>3. Works(run, jobs') /\ Knows(run, record) /\ HasWritten(run, store)
    BY <1>6 DEF Works, Knows, HasWritten, Writing
  <2>4. Reaches(run, store)
    BY <1>6, <2>1 DEF Reaches, Writing, Exports
  <2> QED
    BY <2>2, <2>3, <2>4 DEF Fine
<1>8. run.list \in Made \cup {None} /\ jobs' = jobs
  BY <1>5, <1>6
<1> QED
  BY <1>5, <1>6, <1>7, <1>8, JoinStep

(* What every open transaction is.                                         *)
LEMMA Open ==
    ASSUME IInv, NEW w \in Workers, runs[w] # None
    PROVE  /\ runs[w] \in RunType /\ Fine(runs[w], jobs, record, store)
           /\ runs[w].list \in Made \cup {None} /\ runs[w].posted \subseteq Made
           /\ runs[w].job # None => runs[w].job \in Jobs /\ jobs[runs[w].job] # None
           /\ \A v \in Workers : runs[v] # None /\ runs[v].record # None => record[runs[v].record] # None
<1>1. Types
  BY DEF IInv
<1>2. \A v \in Workers : runs[v] # None => Fine(runs[v], jobs, record, store)
  BY InvByParts DEF IInv
<1> QED
  BY <1>1, <1>2, TypesSay DEF Types, Fine, Knows

LEMMA JobsAre == Types => JobsTyped(jobs, record)
BY DEF Types, JobsTyped, Exists

LEMMA BreaksKeeps == \A w \in Workers : IInv /\ Breaks(w) => IInv'
<1> SUFFICES ASSUME NEW w \in Workers, IInv, Breaks(w) PROVE IInv'
  OBVIOUS
<1> DEFINE j == runs[w].job
<1>1. Types /\ JobsTyped(jobs, record)
  BY JobsAre DEF IInv
<1>2. /\ runs[w] # None /\ j # None
      /\ orphans' = orphans \cup runs[w].posted /\ runs' = [runs EXCEPT ![w] = None]
      /\ UNCHANGED <<record, store, warned, versions, requests, imports, crossed>>
  BY DEF Breaks
<1>3. PICK state \in {"pending", "failed"} : jobs' = [jobs EXCEPT ![j].state = state]
  BY DEF Breaks
<1>4. /\ j \in Jobs /\ jobs[j] # None /\ runs[w].posted \subseteq Made
      /\ \A v \in Workers : runs[v] # None /\ runs[v].record # None => record[runs[v].record] # None
  BY <1>2, Open
<1> HIDE DEF j
<1>5. /\ jobs' \in [Jobs -> JobType \cup {None}]
      /\ \A i \in Jobs : i # j => jobs'[i] = jobs[i]
      /\ \A i \in Jobs : jobs'[i] # None <=> jobs[i] # None
      /\ jobs'[j].state = state /\ jobs'[j].kind = jobs[j].kind /\ jobs'[j].record = jobs[j].record
      /\ jobs'[j].list = jobs[j].list /\ jobs'[j] # None
  <2>1. state \in {"pending", "started", "failed"}
    OBVIOUS
  <2>2. Restated(j, state, jobs, jobs')
    BY <1>1, <1>3, <1>4, <2>1, JobChanged
  <2> QED
    BY <2>2 DEF Restated
<1>6. JobsTyped(jobs', record')
  BY <1>1, <1>2, <1>4, <1>5 DEF JobsTyped
<1>7. OthersTold(w, runs, runs') /\ runs'[w] = None
  BY <1>1, <1>2, OneChanges
<1>8. /\ \A i \in Jobs : i # runs[w].job /\ jobs[i] # None => jobs'[i] = jobs[i]
      /\ \A i \in Jobs : jobs'[i] # None /\ jobs'[i].state = "started" => i # runs[w].job /\ jobs'[i] = jobs[i]
  BY <1>3, <1>5 DEF j
<1>9. \A r \in Records : NoExport(r, jobs') => NoExport(r, jobs)
  BY <1>4, <1>5 DEF NoExport
<1>10. \A p \in runs[w].posted : KnownAt(p, store, orphans', record', runs')
  BY <1>2 DEF KnownAt
<1>11. /\ record' \in [Records -> RecordType \cup {None}]
       /\ \A r \in Records : record'[r] # None => record'[r].id \in Made \cup {None}
       /\ orphans \subseteq orphans' /\ orphans' \subseteq Made
       /\ warned' \subseteq Records /\ crossed' \subseteq Records /\ disturbed' \in 0..MaxDisturbances
  BY <1>1, <1>2, <1>4 DEF Types, Exists, Breaks, Disturb
<1>12. OnlyOf(None, record, jobs, warned \cup crossed, record', jobs', warned' \cup crossed', store)
  <2>1. None \notin Records
    BY <1>1, TypesSay
  <2> QED
    BY <1>2, <1>9, <2>1 DEF OnlyOf
<1> QED
  BY <1>2, <1>4, <1>6, <1>7, <1>8, <1>9, <1>10, <1>11, <1>12, LeaveStep

LEMMA ReadRulesKeeps == \A w \in Workers : IInv /\ ReadRules(w) => IInv'
<1> SUFFICES ASSUME NEW w \in Workers, IInv, ReadRules(w) PROVE IInv'
  OBVIOUS
<1> DEFINE p == runs[w].list
           says == [runs[w].says EXCEPT !.rules = store[p].rules]
           job == ImportJob(p, says)
<1>1. Types /\ JobsTyped(jobs, record)
  BY JobsAre DEF IInv
<1>2. /\ runs[w] # None /\ runs[w].step = "read" /\ runs' = [runs EXCEPT ![w] = None]
      /\ UNCHANGED <<record, store, warned, versions, requests, imports, disturbed, crossed, orphans>>
  BY DEF ReadRules, At, counts
<1>3. /\ runs[w] \in RunType /\ Fine(runs[w], jobs, record, store) /\ p \in Made \cup {None}
      /\ \A v \in Workers : runs[v] # None /\ runs[v].record # None => record[runs[v].record] # None
  BY <1>2, Open
<1>4. runs[w].job = None /\ p \in Made /\ runs[w].posted = {}
  BY <1>2, <1>3 DEF Fine, Whose
<1> HIDE DEF p
<1>5. /\ jobs' \in [Jobs -> JobType \cup {None}]
      /\ \A j \in Jobs : jobs[j] # None => jobs'[j] = jobs[j]
      /\ \A j \in Jobs : jobs[j] = None /\ jobs'[j] # None =>
            jobs'[j].kind = "import" /\ jobs'[j].record = None /\ jobs'[j].list = p /\ jobs'[j].state = "pending"
  <2>1. CASE ~OnStore(p)
    <3>1. jobs' = jobs
      BY <2>1 DEF ReadRules, p
    <3> QED
      BY <1>1, <3>1 DEF Types
  <2>2. CASE OnStore(p)
    <3>1. Queued(job)
      BY <2>2 DEF ReadRules, p
    <3>2. store[p] \in Says /\ p \in Ids
      BY <1>1, <1>4, <2>2, TypesSay DEF OnStore
    <3>3. says \in Says
      <4>1. store[p].rules \in (0..MaxVersions) \cup {None}
        BY <3>2 DEF Says
      <4>2. runs[w].says \in Says
        BY <1>3 DEF RunType
      <4> QED
        BY <4>1, <4>2, Written
    <3> HIDE DEF says
    <3>4. /\ job \in JobType /\ job.kind = "import" /\ job.record = None /\ job.list = p
          /\ job.state = "pending"
      BY <3>2, <3>3 DEF ImportJob, JobType
    <3> HIDE DEF job
    <3>5. PICK j \in Jobs : /\ jobs[j] = None /\ jobs' = [jobs EXCEPT ![j] = job]
                            /\ jobs' \in [Jobs -> JobType \cup {None}] /\ jobs'[j] = job /\ job # None
                            /\ \A i \in Jobs : i # j => jobs'[i] = jobs[i]
      BY <1>1, <3>1, <3>4, QueuedPuts
    <3> QED
      BY <3>4, <3>5
  <2> QED
    BY <2>1, <2>2
<1>6. JobsTyped(jobs', record')
  BY <1>1, <1>2, <1>4, <1>5 DEF JobsTyped
<1>7. OthersTold(w, runs, runs') /\ runs'[w] = None
  BY <1>1, <1>2, OneChanges
<1>8. /\ \A j \in Jobs : j # runs[w].job /\ jobs[j] # None => jobs'[j] = jobs[j]
      /\ \A j \in Jobs : jobs'[j] # None /\ jobs'[j].state = "started" => j # runs[w].job /\ jobs'[j] = jobs[j]
  <2>1. None \notin Jobs
    BY <1>1, TypesSay
  <2> QED
    BY <1>4, <1>5, <2>1
<1>9. \A r \in Records : NoExport(r, jobs') => NoExport(r, jobs)
  BY <1>5 DEF NoExport
<1>10. /\ record' \in [Records -> RecordType \cup {None}]
       /\ \A r \in Records : record'[r] # None => record'[r].id \in Made \cup {None}
       /\ orphans \subseteq orphans' /\ orphans' \subseteq Made
       /\ warned' \subseteq Records /\ crossed' \subseteq Records /\ disturbed' \in 0..MaxDisturbances
  BY <1>1, <1>2 DEF Types, Exists
<1>11. OnlyOf(None, record, jobs, warned \cup crossed, record', jobs', warned' \cup crossed', store)
  <2>1. None \notin Records
    BY <1>1, TypesSay
  <2> QED
    BY <1>2, <1>9, <2>1 DEF OnlyOf
<1> QED
  BY <1>2, <1>3, <1>4, <1>6, <1>7, <1>8, <1>9, <1>10, <1>11, LeaveStep

(* A failed job waits again.                                               *)
LEMMA RequeueKeeps == \A j \in Jobs : IInv /\ Requeue(j) => IInv'
<1> SUFFICES ASSUME NEW j \in Jobs, IInv, Requeue(j) PROVE IInv'
  OBVIOUS
<1>1. Types /\ RunsFine /\ Apart(runs) /\ Manned(runs, jobs) /\ FlagTold /\ ListsKnown /\ JobsTyped(jobs, record)
  BY JobsAre DEF IInv
<1>2. /\ jobs[j] # None /\ jobs[j].state = "failed" /\ jobs' = [jobs EXCEPT ![j].state = "pending"]
      /\ UNCHANGED <<record, runs, store, warned, versions, requests, imports, disturbed, crossed, orphans>>
  BY DEF Requeue, counts
<1>3. /\ jobs' \in [Jobs -> JobType \cup {None}]
      /\ \A i \in Jobs : i # j => jobs'[i] = jobs[i]
      /\ \A i \in Jobs : jobs'[i] # None <=> jobs[i] # None
      /\ jobs'[j].state = "pending" /\ jobs'[j].kind = jobs[j].kind /\ jobs'[j].record = jobs[j].record
      /\ jobs'[j].list = jobs[j].list /\ jobs'[j] # None
  <2>1. "pending" \in {"pending", "started", "failed"}
    OBVIOUS
  <2>2. Restated(j, "pending", jobs, jobs')
    BY <1>1, <1>2, <2>1, JobChanged
  <2> QED
    BY <2>2 DEF Restated
<1>4. Types'
  <2>1. JobsTyped(jobs', record')
    BY <1>1, <1>2, <1>3 DEF JobsTyped
  <2>2. Made' = Made
    BY <1>2 DEF Made
  <2>3. {i \in Jobs : jobs'[i] # None} = {i \in Jobs : jobs[i] # None}
    BY <1>3
  <2> QED
    BY <1>1, <1>2, <2>1, <2>2, <2>3 DEF Types, Exists, JobsTyped
<1>5. RunsFine'
  <2> SUFFICES ASSUME NEW w \in Workers, runs[w] # None
               PROVE  Fine(runs[w], jobs', record, store)
    BY <1>2, InvByParts
  <2>1. Fine(runs[w], jobs, record, store)
    BY <1>1, InvByParts
  <2>2. runs[w].job # None => jobs'[runs[w].job] = jobs[runs[w].job]
    <3>1. runs[w].job # None => jobs[runs[w].job].state = "started" /\ runs[w].job \in Jobs
      BY <2>1, Open DEF Fine, Works
    <3> QED
      BY <1>2, <1>3, <3>1
  <2>3. Works(runs[w], jobs')
    BY <2>1, <2>2 DEF Fine, Works
  <2> QED
    BY <2>1, <2>3 DEF Fine
<1>6. Apart(runs') /\ Manned(runs', jobs')
  <2>1. \A i \in Jobs : jobs'[i] # None /\ jobs'[i].state = "started" => jobs[i] # None /\ jobs[i].state = "started"
    BY <1>3
  <2>2. \A w \in Workers : (runs'[w] # None <=> runs[w] # None) /\ (runs[w] # None => runs'[w].job = runs[w].job)
    BY <1>2
  <2> QED
    BY <1>1, <2>1, <2>2, CrewSame
<1>7. FlagTold'
  <2> SUFFICES ASSUME NEW q \in Records PROVE ToldOf(q, record'[q], jobs', store', warned' \cup crossed')
    BY PropertiesByParts
  <2>1. ToldOf(q, record[q], jobs, store, warned \cup crossed)
    BY <1>1, PropertiesByParts
  <2>2. NoExport(q, jobs') => NoExport(q, jobs)
    BY <1>2, <1>3 DEF NoExport
  <2> QED
    BY <1>2, <2>1, <2>2 DEF ToldOf
<1>8. ListsKnown'
  BY <1>1, <1>2, PropertiesByParts
<1> QED
  BY <1>4, <1>5, <1>6, <1>7, <1>8, InvByParts

(* An export that would write a row another has written is rolled back.    *)
LEMMA RollsBack ==
    ASSUME IInv, NEW w \in Workers, runs[w] # None, runs[w].job # None,
           jobs' = [jobs EXCEPT ![runs[w].job].state = "pending"],
           runs' = [runs EXCEPT ![w] = None], orphans' = orphans \cup runs[w].posted,
           UNCHANGED <<record, warned, crossed, store, versions, requests, imports, disturbed>>
    PROVE  IInv'
<1> DEFINE j == runs[w].job
<1>1. Types /\ JobsTyped(jobs, record)
  BY JobsAre DEF IInv
<1>2. /\ j \in Jobs /\ jobs[j] # None /\ runs[w].posted \subseteq Made
      /\ \A v \in Workers : runs[v] # None /\ runs[v].record # None => record[runs[v].record] # None
  BY Open
<1>3. jobs' = [jobs EXCEPT ![j].state = "pending"]
  OBVIOUS
<1> HIDE DEF j
<1>4. Restated(j, "pending", jobs, jobs')
  <2>1. "pending" \in {"pending", "started", "failed"}
    OBVIOUS
  <2> QED
    BY <1>1, <1>2, <1>3, <2>1, JobChanged
<1>5. JobsTyped(jobs', record')
  <2>1. /\ jobs' \in [Jobs -> JobType \cup {None}]
        /\ \A i \in Jobs : i # j => jobs'[i] = jobs[i]
        /\ jobs'[j].kind = jobs[j].kind /\ jobs'[j].record = jobs[j].record /\ jobs'[j].list = jobs[j].list
    BY <1>4 DEF Restated
  <2>2. Made' = Made /\ record' = record
    BY DEF Made
  <2>3. ASSUME NEW i \in Jobs, jobs'[i] # None
        PROVE  /\ jobs[i] # None
               /\ jobs'[i].kind = jobs[i].kind
               /\ jobs'[i].record = jobs[i].record /\ jobs'[i].list = jobs[i].list
    BY ONLY <1>2, <2>1, <2>3
  <2>4. JobsTyped(jobs, record)
    BY <1>1
  <2> QED
    BY ONLY <2>1, <2>2, <2>3, <2>4 DEF JobsTyped
<1>6. OthersTold(w, runs, runs') /\ runs'[w] = None
  BY <1>1, OneChanges
<1>7. /\ \A i \in Jobs : i # runs[w].job /\ jobs[i] # None => jobs'[i] = jobs[i]
      /\ \A i \in Jobs : jobs'[i] # None /\ jobs'[i].state = "started" => i # runs[w].job /\ jobs'[i] = jobs[i]
  BY <1>4 DEF j, Restated
<1>8. \A r \in Records : NoExport(r, jobs') => NoExport(r, jobs)
  BY <1>2, <1>4 DEF NoExport, Restated
<1>9. \A p \in runs[w].posted : KnownAt(p, store, orphans', record', runs')
  BY DEF KnownAt
<1>10. /\ record' \in [Records -> RecordType \cup {None}]
       /\ \A r \in Records : record'[r] # None => record'[r].id \in Made \cup {None}
       /\ orphans \subseteq orphans' /\ orphans' \subseteq Made
       /\ warned' \subseteq Records /\ crossed' \subseteq Records /\ disturbed' \in 0..MaxDisturbances
  BY <1>1, <1>2 DEF Types, Exists
<1>11. OnlyOf(None, record, jobs, warned \cup crossed, record', jobs', warned' \cup crossed', store)
  <2>1. None \notin Records
    BY <1>1, TypesSay
  <2> QED
    BY <1>8, <2>1 DEF OnlyOf
<1> QED
  BY <1>2, <1>5, <1>6, <1>7, <1>8, <1>9, <1>10, <1>11, LeaveStep

(* A job that is done leaves the queue.                                    *)
LEMMA JobDone ==
    ASSUME Types, NEW j \in Jobs, jobs[j] # None, jobs' = [jobs EXCEPT ![j] = None], Apart(runs)
    PROVE  /\ jobs' \in [Jobs -> JobType \cup {None}] /\ jobs'[j] = None
           /\ \A i \in Jobs : i # j => jobs'[i] = jobs[i]
           /\ \A r \in Records : r # jobs[j].record /\ NoExport(r, jobs') => NoExport(r, jobs)
<1>1. jobs \in [Jobs -> JobType \cup {None}]
  BY DEF Types
<1> QED
  BY <1>1 DEF NoExport

(* The row that a transaction writes, and who is told of it.               *)
Wrote(w, r, row, rows, rns, rows2, rns2) ==
    /\ OthersTold(w, rns, rns2) /\ rns2[w] = None
    /\ rows2 \in [Records -> RecordType \cup {None}] /\ rows2[r] = row
    /\ \A q \in Records : q # r => rows2[q] = rows[q]
    /\ \A q \in Records : rows[q] # None => rows2[q] # None
    /\ \A q \in Records : rows2[q] # None => rows2[q].id \in Made \cup {None}
    /\ \A v \in Workers \ {w} : rns[v] # None /\ rns[v].record # None =>
          /\ rows2[rns[v].record] # None
          /\ rows2[rns[v].record] = rows[rns[v].record] \/ rns2[v].stale

LEMMA RowWritten ==
    ASSUME IInv, NEW w \in Workers, NEW r \in Records, NEW row \in RecordType, row.id \in Made \cup {None},
           record' = [record EXCEPT ![r] = row], runs' = [Overtaken(r) EXCEPT ![w] = None]
    PROVE  Wrote(w, r, row, record, runs, record', runs')
<1> DEFINE new == Overtaken(r)
<1>1. Types
  BY DEF IInv
<1>2. /\ Told(runs, new)
      /\ \A v \in Workers : runs[v] # None /\ runs[v].record = r => new[v].stale
  BY <1>1, OvertakenTells
<1>3. runs' = [new EXCEPT ![w] = None]
  OBVIOUS
<1> HIDE DEF new
<1>4. OthersTold(w, runs, runs') /\ runs'[w] = None /\ \A v \in Workers \ {w} : runs'[v] = new[v]
  BY <1>2, <1>3 DEF Told, OthersTold
<1>5. record \in [Records -> RecordType \cup {None}] /\ row # None
  BY <1>1 DEF Types
<1>6. /\ record' \in [Records -> RecordType \cup {None}] /\ record'[r] = row
      /\ \A q \in Records : q # r => record'[q] = record[q]
  BY <1>5
<1>7. \A q \in Records : record'[q] # None => record'[q].id \in Made \cup {None}
  BY <1>1, <1>6, TypesSay
<1>8. \A q \in Records : record[q] # None => record'[q] # None
  BY <1>5, <1>6
<1>9. ASSUME NEW v \in Workers \ {w}, runs[v] # None, runs[v].record # None
      PROVE  /\ record'[runs[v].record] # None
             /\ record'[runs[v].record] = record[runs[v].record] \/ runs'[v].stale
  <2>1. runs[v] \in RunType /\ Fine(runs[v], jobs, record, store)
    BY <1>9, Open
  <2>2. runs[v].record \in Records /\ record[runs[v].record] # None
    BY <1>9, <2>1 DEF RunType, Fine, Knows
  <2>3. runs[v].record = r => runs'[v].stale
    BY <1>2, <1>4, <1>9
  <2> QED
    BY <1>6, <1>8, <2>2, <2>3
<1> QED
  BY <1>4, <1>5, <1>6, <1>7, <1>8, <1>9 DEF Wrote

(* What an export writes is a row with the list it exported to.            *)
LEMMA ExportedIs ==
    ASSUME NEW run \in RunType, run.row \in RecordType
    PROVE  /\ Exported(run) \in RecordType /\ Exported(run).id = run.list /\ Exported(run).says = run.row.says
<1> DEFINE id == run.list
           need == run.row.need /\ run.step # "done"
<1>1. id \in Ids \cup {None} /\ need \in BOOLEAN
  BY DEF RunType, RecordType
<1>2. Exported(run) = [run.row EXCEPT !.id = id, !.need = need, !.busy = FALSE]
  BY DEF Exported
<1> HIDE DEF id, need
<1>3. Exported(run) \in RecordType /\ Exported(run).id = id /\ Exported(run).says = run.row.says
  BY <1>1, <1>2 DEF RecordType
<1> QED
  BY <1>3 DEF id

(* An export commits: the row it read is still there, or it writes none.   *)
Commits(w) ==
    LET run == runs[w]
        r == run.record
        writes == Exported(run) # run.row
    IN  /\ run # None /\ run.step \in {"done", "refused"} /\ (writes => ~run.stale)
        /\ record' = IF writes THEN [record EXCEPT ![r] = Exported(run)] ELSE record
        /\ jobs' = [jobs EXCEPT ![run.job] = None]
        /\ runs' = [(IF writes THEN Overtaken(r) ELSE runs) EXCEPT ![w] = None]
        /\ warned' = IF run.step = "refused" THEN warned \cup {r} ELSE warned
        /\ crossed' = IF run.crossed \/ run.stale THEN crossed \cup {r}
                      ELSE IF run.step = "done" THEN crossed \ {r} ELSE crossed
        /\ UNCHANGED <<orphans, store, counts>>

LEMMA CommitKeeps == \A w \in Workers : IInv /\ Commits(w) => IInv'
<1> SUFFICES ASSUME NEW w \in Workers, IInv, Commits(w) PROVE IInv'
  OBVIOUS
<1> DEFINE run == runs[w]
           r == run.record
           j == run.job
           row == Exported(run)
           writes == row # run.row
<1>1. Types /\ Apart(runs) /\ JobsTyped(jobs, record)
  BY JobsAre DEF IInv
<1>2. /\ run # None /\ run.step \in {"done", "refused"} /\ (writes => ~run.stale)
      /\ record' = IF writes THEN [record EXCEPT ![r] = row] ELSE record
      /\ jobs' = [jobs EXCEPT ![j] = None]
      /\ runs' = [(IF writes THEN Overtaken(r) ELSE runs) EXCEPT ![w] = None]
      /\ warned' = IF run.step = "refused" THEN warned \cup {r} ELSE warned
      /\ crossed' = IF run.crossed \/ run.stale THEN crossed \cup {r}
                    ELSE IF run.step = "done" THEN crossed \ {r} ELSE crossed
      /\ UNCHANGED <<store, orphans, versions, requests, imports, disturbed>>
  BY DEF Commits, counts
<1>3. run.step \in Exports
  BY <1>2 DEF Exports
<1>4. /\ run \in RunType /\ Fine(run, jobs, record, store)
      /\ j \in Jobs /\ jobs[j] # None /\ jobs[j].record = r /\ r \in Records /\ run.row \in RecordType
  BY <1>2, <1>3, Exporting
<1>5. /\ row \in RecordType /\ row.id = run.list /\ row.says = run.row.says
  BY <1>4, ExportedIs
<1>6. /\ run.list \in Made \cup {None} /\ run.posted \subseteq Made
      /\ \A v \in Workers : runs[v] # None /\ runs[v].record # None => record[runs[v].record] # None
  BY <1>2, Open
<1> HIDE DEF row
<1>7. /\ jobs' \in [Jobs -> JobType \cup {None}] /\ jobs'[j] = None
      /\ \A i \in Jobs : i # j => jobs'[i] = jobs[i]
      /\ \A q \in Records : q # jobs[j].record /\ NoExport(q, jobs') => NoExport(q, jobs)
  <2> HIDE DEF j
  <2> QED
    BY <1>1, <1>2, <1>4, JobDone
<1>8. Wrote(w, r, IF writes THEN row ELSE record[r], record, runs, record', runs')
  <2>1. CASE writes
    <3>1. record' = [record EXCEPT ![r] = row] /\ runs' = [Overtaken(r) EXCEPT ![w] = None]
      BY <1>2, <2>1
    <3>2. row.id \in Made \cup {None}
      BY <1>5, <1>6
    <3> HIDE DEF r, writes
    <3>3. Wrote(w, r, row, record, runs, record', runs')
      BY <1>4, <1>5, <3>1, <3>2, RowWritten
    <3> QED
      BY <2>1, <3>3
  <2>2. CASE ~writes
    <3>1. record' = record /\ runs' = [runs EXCEPT ![w] = None]
      BY <1>2, <2>2
    <3>2. OthersTold(w, runs, runs') /\ runs'[w] = None
      BY <1>1, <3>1, OneChanges
    <3>3. /\ record \in [Records -> RecordType \cup {None}]
          /\ \A q \in Records : record[q] # None => record[q].id \in Made \cup {None}
      BY <1>1 DEF Types, Exists
    <3> QED
      BY <1>6, <2>2, <3>1, <3>2, <3>3 DEF Wrote
  <2> QED
    BY <2>1, <2>2
<1>9. JobsTyped(jobs', record')
  <2>1. Made' = Made
    BY <1>2 DEF Made
  <2> QED
    BY <1>1, <1>7, <1>8, <2>1 DEF JobsTyped, Wrote
<1>10. /\ \A i \in Jobs : i # j /\ jobs[i] # None => jobs'[i] = jobs[i]
       /\ \A i \in Jobs : jobs'[i] # None /\ jobs'[i].state = "started" => i # j /\ jobs'[i] = jobs[i]
  BY <1>7
<1>11. \A p \in run.posted : KnownAt(p, store, orphans', record', runs')
  <2> SUFFICES ASSUME NEW p \in run.posted PROVE KnownAt(p, store, orphans', record', runs')
    OBVIOUS
  <2>1. run.list = p /\ run.row.id # p
    BY <1>3, <1>4 DEF Fine, Whose, Reaches
  <2>2. writes
    BY <1>5, <2>1
  <2>3. record'[r] # None /\ record'[r].id = p
    BY <1>4, <1>5, <1>8, <2>1, <2>2 DEF Fine, Knows, Whose, Wrote
  <2> QED
    BY <1>4, <2>3 DEF KnownAt
<1>12. \A q \in Records : record[q] # None /\ record[q].id \in Made /\ store[record[q].id] # None =>
          record'[q] # None /\ record'[q].id = record[q].id
  <2> SUFFICES ASSUME NEW q \in Records, record[q] # None, record[q].id \in Made, store[record[q].id] # None
               PROVE  record'[q] # None /\ record'[q].id = record[q].id
    OBVIOUS
  <2>1. CASE q # r \/ ~writes
    BY <1>8, <2>1 DEF Wrote
  <2>2. CASE q = r /\ writes
    <3>1. record[r] = run.row
      BY <1>2, <1>4, <2>2 DEF Fine, Knows, Whose
    <3>2. None \notin Made
      BY <1>1, TypesSay
    <3>3. run.row.id = run.list
      BY <1>3, <1>4, <2>2, <3>1, <3>2 DEF Fine, Reaches
    <3> QED
      BY <1>5, <1>8, <2>2, <3>1, <3>3 DEF Wrote
  <2> QED
    BY <2>1, <2>2
<1>13. \A q \in Records : q # r => /\ record'[q] = record[q]
                                   /\ NoExport(q, jobs') => NoExport(q, jobs)
                                   /\ q \in warned \cup crossed => q \in warned' \cup crossed'
  BY <1>2, <1>4, <1>7, <1>8 DEF Wrote
<1>14. ToldOf(r, record'[r], jobs', store, warned' \cup crossed')
  <2> SUFFICES ASSUME r \notin warned', r \notin crossed', record'[r] # None, record'[r].id # None
               PROVE  store[record'[r].id] = record'[r].says
    BY DEF ToldOf
  <2>1. run.step = "done"
    BY <1>2
  <2>2. ~run.crossed /\ ~run.stale
    BY <1>2
  <2>3. record[r] = run.row
    BY <1>4, <2>2 DEF Fine, Knows, Whose
  <2>4. record'[r] = row
    BY <1>8, <2>3 DEF Wrote
  <2>5. /\ store[run.list] # None /\ store[run.list].rules = run.row.says.rules
        /\ store[run.list].groups = run.row.says.groups
    BY <1>4, <2>1, <2>2 DEF Fine, HasWritten, Writing
  <2>6. run.list \in Made
    BY <1>5, <1>6, <2>4
  <2>7. store[run.list] \in Says
    <3> HIDE DEF run
    <3> QED
      BY <1>1, <2>5, <2>6, TypesSay
  <2>8. run.row.says \in Says
    BY <1>4 DEF RecordType
  <2>9. store[run.list] = run.row.says
    BY <2>5, <2>7, <2>8 DEF Says
  <2> QED
    BY <1>5, <2>4, <2>9
<1>15. /\ orphans \subseteq orphans' /\ orphans' \subseteq Made
       /\ warned' \subseteq Records /\ crossed' \subseteq Records /\ disturbed' \in 0..MaxDisturbances
  BY <1>1, <1>2, <1>4 DEF Types
<1>16. OnlyOf(r, record, jobs, warned \cup crossed, record', jobs', warned' \cup crossed', store)
  BY <1>13, <1>14 DEF OnlyOf
<1>17. /\ OthersTold(w, runs, runs') /\ runs'[w] = None /\ record' \in [Records -> RecordType \cup {None}]
       /\ \A q \in Records : record'[q] # None => record'[q].id \in Made \cup {None}
       /\ \A v \in Workers \ {w} : runs[v] # None /\ runs[v].record # None =>
             /\ record'[runs[v].record] # None
             /\ record'[runs[v].record] = record[runs[v].record] \/ runs'[v].stale
  BY <1>8 DEF Wrote
<1> HIDE DEF writes, r
<1> QED
  BY <1>2, <1>9, <1>10, <1>11, <1>12, <1>15, <1>16, <1>17, LeaveStep

LEMMA FinishExportKeeps == \A w \in Workers : IInv /\ FinishExport(w) => IInv'
<1> SUFFICES ASSUME NEW w \in Workers, IInv, FinishExport(w) PROVE IInv'
  OBVIOUS
<1>1. runs[w] # None /\ runs[w].step \in Exports
  BY DEF FinishExport, Exports
<1>2. runs[w].job # None
  <2>1. runs[w].job \in Jobs
    BY <1>1, Exporting
  <2> QED
    BY <2>1
<1>3. CASE Exported(runs[w]) # runs[w].row /\ runs[w].stale
  <2>1. /\ jobs' = [jobs EXCEPT ![runs[w].job].state = "pending"]
        /\ runs' = [runs EXCEPT ![w] = None] /\ orphans' = orphans \cup runs[w].posted
        /\ UNCHANGED <<record, warned, crossed, store, versions, requests, imports, disturbed>>
    BY <1>3 DEF FinishExport, counts
  <2> QED
    BY <1>1, <1>2, <2>1, RollsBack
<1>4. CASE ~(Exported(runs[w]) # runs[w].row /\ runs[w].stale)
  <2>1. Commits(w)
    BY <1>4 DEF FinishExport, Commits
  <2> QED
    BY <2>1, CommitKeeps
<1> QED
  BY <1>3, <1>4

(* What an import writes.                                                  *)
LEMMA ImportedIs ==
    ASSUME NEW row \in RecordType \cup {None}, NEW p \in Ids, NEW says \in Says
    PROVE  /\ Imported(row, p, says) \in RecordType /\ Imported(row, p, says).id = p
           /\ Imported(row, p, says).says = says
<1> DEFINE before == IF row = None THEN NewRecord(says, FALSE, FALSE) ELSE row
<1>1. before \in RecordType
  BY RowsMade
<1>2. Imported(row, p, says) = [before EXCEPT !.id = p, !.says = says, !.need = FALSE, !.busy = FALSE]
  BY DEF Imported
<1> HIDE DEF before
<1> QED
  BY <1>1, <1>2 DEF RecordType

LEMMA FinishSaveKeeps == \A w \in Workers : IInv /\ FinishSave(w) => IInv'
<1> SUFFICES ASSUME NEW w \in Workers, IInv, FinishSave(w) PROVE IInv'
  OBVIOUS
<1> DEFINE run == runs[w]
           j == run.job
           p == jobs[j].list
           r == IF run.record = None THEN Min(FreeRecords) ELSE run.record
           row == Imported(run.row, p, run.says)
<1>1. Types /\ Apart(runs) /\ JobsTyped(jobs, record)
  BY JobsAre DEF IInv
<1>2. /\ run # None /\ run.step = "save" /\ jobs' = [jobs EXCEPT ![j] = None]
      /\ UNCHANGED <<store, warned, versions, requests, imports, orphans>>
  BY DEF FinishSave, At
<1>3. /\ run \in RunType /\ Fine(run, jobs, record, store)
      /\ \A v \in Workers : runs[v] # None /\ runs[v].record # None => record[runs[v].record] # None
  BY <1>2, Open
<1>4. j # None /\ run.posted = {}
  BY <1>2, <1>3 DEF Fine, Whose
<1>5. j \in Jobs /\ jobs[j] # None
  BY <1>2, <1>4, Open
<1>6. jobs[j].kind = "import" /\ (run.row # None => run.row.id = p)
  BY <1>2, <1>3, <1>4 DEF Fine, Works
<1>7. jobs[j].record = None /\ p \in Made /\ p \in Ids
  <2>1. jobs[j].record = None /\ p \in Made
    BY <1>1, <1>5, <1>6 DEF Types
  <2> HIDE DEF p
  <2> QED
    BY <1>1, <2>1, TypesSay
<1>8. None \notin Records
  BY <1>1, TypesSay
<1>9. /\ jobs' \in [Jobs -> JobType \cup {None}] /\ jobs'[j] = None
      /\ \A i \in Jobs : i # j => jobs'[i] = jobs[i]
      /\ \A q \in Records : NoExport(q, jobs') => NoExport(q, jobs)
  <2>1. /\ jobs' \in [Jobs -> JobType \cup {None}] /\ jobs'[j] = None
        /\ \A i \in Jobs : i # j => jobs'[i] = jobs[i]
        /\ \A q \in Records : q # jobs[j].record /\ NoExport(q, jobs') => NoExport(q, jobs)
    <3> HIDE DEF j
    <3> QED
      BY <1>1, <1>2, <1>5, JobDone
  <2> QED
    BY <1>7, <1>8, <2>1
<1>10. /\ \A i \in Jobs : i # j /\ jobs[i] # None => jobs'[i] = jobs[i]
       /\ \A i \in Jobs : jobs'[i] # None /\ jobs'[i].state = "started" => i # j /\ jobs'[i] = jobs[i]
  BY <1>9
<1>11. Made' = Made
  BY <1>2 DEF Made
<1>12. \A q \in run.posted : KnownAt(q, store, orphans', record', runs')
  BY <1>4
<1>13. /\ orphans \subseteq orphans' /\ orphans' \subseteq Made /\ warned' \subseteq Records
       /\ disturbed' \in 0..MaxDisturbances
  <2>1. disturbed' \in 0..MaxDisturbances
    BY <1>1 DEF FinishSave, Disturb, Types
  <2> QED
    BY <1>1, <1>2, <2>1 DEF Types
<1>14. CASE /\ ~run.stale
            /\ run.record # None \/ FreeRecords # {}
            /\ record' = [record EXCEPT ![r] = row]
            /\ runs' = [Overtaken(r) EXCEPT ![w] = None]
            /\ crossed' = IF run.says = store[p] THEN crossed \ {r} ELSE crossed \cup {r}
            /\ UNCHANGED disturbed
  <2>1. /\ r \in Records
        /\ run.record # None => record[r] = run.row /\ run.row.id = p
        /\ run.record = None => record[r] = None
    <3>1. CASE run.record = None
      <4>1. r = Min(FreeRecords)
        BY <3>1
      <4> HIDE DEF r
      <4> QED
        BY <1>14, <3>1, <4>1, FreeRecord DEF FreeRecords, Exists
    <3>2. CASE run.record # None
      <4>1. r = run.record /\ r \in Records
        BY <1>3, <3>2 DEF RunType
      <4> QED
        BY <1>3, <1>6, <1>14, <3>2, <4>1 DEF Fine, Knows, Whose
    <3> QED
      BY <3>1, <3>2
  <2>2. row \in RecordType /\ row.id = p /\ row.says = run.says
    <3>1. run.row \in RecordType \cup {None} /\ run.says \in Says
      BY <1>3 DEF RunType
    <3> HIDE DEF run, p
    <3> QED
      BY <1>7, <3>1, ImportedIs
  <2> HIDE DEF row, r, p
  <2>3. Wrote(w, r, row, record, runs, record', runs')
    BY <1>7, <1>14, <2>1, <2>2, RowWritten
  <2>4. JobsTyped(jobs', record')
    BY <1>1, <1>9, <1>11, <2>3 DEF JobsTyped, Wrote
  <2>5. \A q \in Records : record[q] # None /\ record[q].id \in Made /\ store[record[q].id] # None =>
          record'[q] # None /\ record'[q].id = record[q].id
    BY <2>1, <2>2, <2>3 DEF Wrote
  <2>6. ToldOf(r, record'[r], jobs', store, warned' \cup crossed')
    BY <1>14, <2>2, <2>3 DEF ToldOf, Wrote
  <2>7. \A q \in Records : q # r => /\ record'[q] = record[q]
                                    /\ NoExport(q, jobs') => NoExport(q, jobs)
                                    /\ q \in warned \cup crossed => q \in warned' \cup crossed'
    BY <1>2, <1>9, <1>14, <2>3 DEF Wrote
  <2>8. OnlyOf(r, record, jobs, warned \cup crossed, record', jobs', warned' \cup crossed', store)
    BY <2>6, <2>7 DEF OnlyOf
  <2>9. crossed' \subseteq Records
    BY <1>1, <1>14, <2>1 DEF Types
  <2>10. /\ OthersTold(w, runs, runs') /\ runs'[w] = None /\ record' \in [Records -> RecordType \cup {None}]
         /\ \A q \in Records : record'[q] # None => record'[q].id \in Made \cup {None}
         /\ \A v \in Workers \ {w} : runs[v] # None /\ runs[v].record # None =>
               /\ record'[runs[v].record] # None
               /\ record'[runs[v].record] = record[runs[v].record] \/ runs'[v].stale
    BY <2>3 DEF Wrote
  <2> QED
    BY <1>2, <1>10, <1>12, <1>13, <2>4, <2>5, <2>8, <2>9, <2>10, LeaveStep
<1>15. CASE runs' = [runs EXCEPT ![w] = None] /\ UNCHANGED <<record, crossed>>
  <2>1. OthersTold(w, runs, runs') /\ runs'[w] = None
    BY <1>1, <1>15, OneChanges
  <2>2. JobsTyped(jobs', record')
    BY <1>1, <1>9, <1>11, <1>15 DEF JobsTyped
  <2>3. OnlyOf(None, record, jobs, warned \cup crossed, record', jobs', warned' \cup crossed', store)
    BY <1>2, <1>8, <1>9, <1>15 DEF OnlyOf
  <2>4. /\ record' \in [Records -> RecordType \cup {None}] /\ crossed' \subseteq Records
        /\ \A q \in Records : record'[q] # None => record'[q].id \in Made \cup {None}
    BY <1>1, <1>15 DEF Types, Exists
  <2>5. /\ \A v \in Workers \ {w} : runs[v] # None /\ runs[v].record # None =>
              /\ record'[runs[v].record] # None
              /\ record'[runs[v].record] = record[runs[v].record] \/ runs'[v].stale
        /\ \A q \in Records : record[q] # None /\ record[q].id \in Made /\ store[record[q].id] # None =>
              record'[q] # None /\ record'[q].id = record[q].id
    BY <1>3, <1>15
  <2> QED
    BY <1>2, <1>10, <1>12, <1>13, <2>1, <2>2, <2>3, <2>4, <2>5, LeaveStep
<1> QED
  BY <1>14, <1>15 DEF FinishSave

-----------------------------------------------------------------------------
(* The theorems.                                                           *)

LEMMA InitInv == Init => IInv
<1> SUFFICES ASSUME Init PROVE IInv
  OBVIOUS
<1>1. Whole(0) \in Says /\ Whole(0) # None
  BY DEF Whole, Says
<1> DEFINE row == [id |-> 1, says |-> Whole(0), need |-> FALSE, busy |-> FALSE, linked |-> FALSE]
<1>2. row \in RecordType /\ row # None /\ row.id = 1 /\ row.says = Whole(0)
  <2>1. 1 \in Ids
    OBVIOUS
  <2>2. row \in RecordType
    BY <1>1, <2>1 DEF RecordType
  <2> QED
    BY <2>2
<1>3. record = [r \in Records |-> IF r = 1 THEN row ELSE None]
  BY DEF Init
<1> HIDE DEF row
<1>4. /\ record \in [Records -> RecordType \cup {None}]
      /\ \A r \in Records : record[r] # None => record[r] = row
  BY <1>2, <1>3
<1>5. store = <<Whole(0)>> /\ store \in Seq(Says \cup {None}) /\ Len(store) = 1 /\ store[1] = Whole(0) /\ Made = {1}
  BY <1>1 DEF Init, Made
<1>6. Types
  <2>1. /\ jobs \in [Jobs -> JobType \cup {None}] /\ runs \in [Workers -> RunType \cup {None}]
        /\ \A j \in Jobs : jobs[j] = None
        /\ \A w \in Workers : runs[w] = None
    BY DEF Init
  <2>2. \A r \in Records : Exists(r) => record[r].id \in Made \cup {None}
    BY <1>2, <1>4, <1>5 DEF Exists
  <2>3. /\ versions \in 0..MaxVersions /\ requests \in 0..MaxRequests
        /\ imports \in 0..MaxImports /\ disturbed \in 0..MaxDisturbances
    BY DEF Init
  <2>4. warned \subseteq Records /\ crossed \subseteq Records /\ orphans \subseteq Made
    BY DEF Init
  <2>5. Len(store) \in Ids
    BY <1>5
  <2> QED
    BY <1>4, <1>5, <2>1, <2>2, <2>3, <2>4, <2>5 DEF Types
<1>7. RunsFine /\ Apart(runs) /\ Manned(runs, jobs)
  BY DEF Init, RunsFine, Apart, Manned
<1>8. FlagTold
  BY <1>2, <1>4, <1>5 DEF FlagTold, Exists
<1>9. ListsKnown
  BY <1>5 DEF ListsKnown
<1> QED
  BY <1>6, <1>7, <1>8, <1>9 DEF IInv

LEMMA StutterKeeps == IInv /\ UNCHANGED vars => IInv'
<1> SUFFICES ASSUME IInv, UNCHANGED vars PROVE IInv'
  OBVIOUS
<1>1. /\ UNCHANGED <<record, jobs, runs, store, warned, crossed, orphans>>
      /\ UNCHANGED <<versions, requests, imports, disturbed>>
  BY DEF vars, counts
<1>2. Types'
  BY <1>1 DEF IInv, Types, Made, Exists
<1>3. RunsFine' /\ Apart(runs') /\ Manned(runs', jobs')
  BY <1>1 DEF IInv, RunsFine
<1>4. FlagTold' /\ ListsKnown'
  BY <1>1, PropertiesByParts DEF IInv
<1> QED
  BY <1>2, <1>3, <1>4, InvByParts

LEMMA NextKeeps == IInv /\ [Next]_vars => IInv'
<1> SUFFICES ASSUME IInv, [Next]_vars PROVE IInv'
  OBVIOUS
<1>1. DOMAIN store = Made
  BY TypesSay DEF IInv
<1>2. CASE Create \/ ExportFromMaster
  BY <1>2, CreateKeeps, ExportFromMasterKeeps
<1>3. CASE \E r \in Records : Edit(r) \/ ExportToStore(r)
  BY <1>3, EditKeeps, ExportToStoreKeeps
<1>4. ASSUME NEW w \in Workers,
             \/ \E j \in Jobs : StartExport(w, j) \/ StartSave(w, j)
             \/ PutList(w) \/ PostList(w) \/ RemoveRules(w) \/ UpsertRules(w) \/ RemoveGroups(w) \/ AssignGroups(w)
             \/ Refuses(w) \/ FinishExport(w) \/ Breaks(w)
             \/ ReadRules(w) \/ FinishSave(w)
             \/ \E p \in DOMAIN store : ReadList(w, p)
      PROVE  IInv'
  <2>1. CASE \E j \in Jobs : StartExport(w, j) \/ StartSave(w, j)
    BY <2>1, StartExportKeeps, StartSaveKeeps
  <2>2. CASE PutList(w) \/ PostList(w)
    BY <2>2, PutListKeeps, PostListKeeps
  <2>3. CASE RemoveRules(w) \/ UpsertRules(w) \/ RemoveGroups(w) \/ AssignGroups(w)
    BY <2>3, RequestsKeep
  <2>4. CASE Refuses(w) \/ FinishExport(w) \/ Breaks(w)
    BY <2>4, RefusesKeeps, FinishExportKeeps, BreaksKeeps
  <2>5. CASE ReadRules(w) \/ FinishSave(w)
    BY <2>5, ReadRulesKeeps, FinishSaveKeeps
  <2>6. CASE \E p \in DOMAIN store : ReadList(w, p)
    BY <1>1, <2>6, ReadListKeeps
  <2> QED
    BY <1>4, <2>1, <2>2, <2>3, <2>4, <2>5, <2>6
<1>5. CASE \E j \in Jobs : Requeue(j)
  BY <1>5, RequeueKeeps
<1>6. CASE \E p \in DOMAIN store : StaffEdits(p) \/ StaffDeletes(p)
  BY <1>1, <1>6, StaffKeeps
<1>7. CASE UNCHANGED vars
  BY <1>7, StutterKeeps
<1> QED
  BY <1>2, <1>3, <1>4, <1>5, <1>6, <1>7 DEF Next

(* Every transaction has its job, its row and its list as it thinks, or is *)
(* stale or crossed, whatever users, staff and other transactions do.      *)
THEOREM PriceListsInvariant == Spec => []IInv
<1>1. Init => IInv
  BY InitInv
<1>2. IInv /\ [Next]_vars => IInv'
  BY NextKeeps
<1> QED
  BY <1>1, <1>2, PTL DEF Spec

(* The transactions of a job that has started are one.                     *)
LEMMA OneRun == IInv => TypeOK
<1> SUFFICES ASSUME IInv PROVE TypeOK
  OBVIOUS
<1>1. Types
  BY DEF IInv
<1> SUFFICES ASSUME NEW j \in Jobs, jobs[j] # None
             PROVE  jobs[j].state = "started" <=> Cardinality(RunsOf(j)) = 1
  BY <1>1 DEF TypeOK
<1>2. j # None
  BY <1>1, TypesSay
<1>3. CASE jobs[j].state = "started"
  <2>1. PICK w \in Workers : runs[w] # None /\ runs[w].job = j
    BY <1>3 DEF IInv, Manned
  <2>2. \A v \in Workers : runs[v] # None /\ runs[v].job = j => v = w
    BY <1>2, <2>1 DEF IInv, Apart
  <2>3. RunsOf(j) = {w}
    BY <2>1, <2>2 DEF RunsOf
  <2> QED
    BY <1>3, <2>3, FS_Singleton
<1>4. CASE jobs[j].state # "started"
  <2>1. \A w \in Workers : runs[w] # None => runs[w].job # j
    <3> SUFFICES ASSUME NEW w \in Workers, runs[w] # None, runs[w].job = j PROVE FALSE
      OBVIOUS
    <3>1. Fine(runs[w], jobs, record, store)
      BY Open
    <3> QED
      BY <1>2, <1>4, <3>1 DEF Fine, Works
  <2>2. RunsOf(j) = {}
    BY <2>1 DEF RunsOf
  <2> QED
    BY <1>4, <2>2, FS_EmptySet
<1> QED
  BY <1>3, <1>4

(* Every variable has its type, for any number of lists, workers and jobs: *)
(* an id is that of a list the store has made, and a job that has started, *)
(* and no other, has exactly one transaction.                              *)
THEOREM PriceListsTyped == Spec => []TypeOK
<1>1. IInv => TypeOK
  BY OneRun
<1> QED
  BY <1>1, PriceListsInvariant, PTL

(* A list that is exported and that neither the flag, an activity nor a    *)
(* job marks is exactly what the store has, unless the list was changed    *)
(* behind it, however many exports, imports and edits come together.       *)
THEOREM FlagIsTrue == Spec => []FlagTold
<1>1. IInv => FlagTold
  BY DEF IInv
<1> QED
  BY <1>1, PriceListsInvariant, PTL

(* Odoo knows by its id each list of the store that one of its exports has *)
(* made, unless the export was rolled back or the answer to its POST was   *)
(* lost.                                                                   *)
THEOREM NoListIsLost == Spec => []ListsKnown
<1>1. IInv => ListsKnown
  BY DEF IInv
<1> QED
  BY <1>1, PriceListsInvariant, PTL

=============================================================================
