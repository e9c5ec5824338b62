--------------------------- MODULE ListingsProofs ---------------------------
(***************************************************************************)
(* Proofs about Listings, for any variants, any number of transactions at  *)
(* once, and every bound.                                                  *)
(***************************************************************************)
EXTENDS Listings, WellFoundedInduction, TLAPS

-----------------------------------------------------------------------------
(* The inductive invariant: types, and what else holds of each job, of     *)
(* each transaction, and of the mapping.                                   *)

(* Each part names the values it is about, so that it says the same of a   *)
(* state and of the next one.                                              *)

Known(id, st) == id \in DOMAIN st \cup {None}

(* A row is a draft if and only if the product was never on the store.     *)
Told(row) == (row.state = "draft") = (row.id = None)

RowFine(row, st) == row # None => row \in Rows /\ Known(row.id, st) /\ Told(row)

(* An export that is queued is of a mapping that is there, with an id if   *)
(* the export is to change a product.  A job of an import has a product    *)
(* that the store had.                                                     *)
JobFine(job, row, st, seen) ==
    job # None =>
      /\ job \in JobRows
      /\ job.kind \in Exports => row # None
      /\ job.kind \in {"mapping", "update"} => row.id # None
      /\ job.kind = "import" =>
           job.product # None /\ job.product.id \in DOMAIN st /\ job.product.content \in seen

(* A transaction whose mapping nobody has overwritten knows its id, and    *)
(* one that is to be run again on its mapping finds it.                    *)
Follows(run, row) ==
    /\ ~run.stale /\ row # None /\ row.id # None => run.now.id # None
    /\ run.gone => run.stale
    /\ ~run.gone /\ run.kind \in {"mapping", "remove"} => row # None
    /\ ~run.gone /\ run.kind = "mapping" => row.id # None

Staged(run) ==
    /\ run.step \in {"fetch", "put", "variants", "read"} => run.kind \in {"mapping", "update"}
    /\ run.step \in {"post", "drop"} => run.kind = "create"
    /\ run.step = "delete" => run.kind = "remove" /\ run.now.id # None
    /\ run.kind \in {"mapping", "update"} => run.now.id # None

(* What an export has put on the store, the store has had.                 *)
Exported(run, seen, mis) ==
    /\ run.step = "variants" => run.now.content \in seen
    /\ run.step = "read" /\ run.kind = "mapping" => run.now.state = "published"
    /\ run.step \in {"read", "commit"} /\ run.kind # "remove" /\ run.now.state = "published" =>
         mis \/ run.now.content \in seen

(* And it is there, call after call, while nobody else touches it.         *)
There(run, st) ==
    run.kind \in {"mapping", "update"} /\ ~run.touched =>
      LET p == run.now.id
      IN  /\ run.step = "variants" =>
               st[p] # None /\ st[p].content = run.now.content /\ st[p].ids = run.remote
          /\ run.step \in {"read", "commit"} /\ run.now.state = "published" =>
               st[p] # None /\ st[p].content = run.now.content
          /\ run.step = "commit" /\ run.now.state = "published" => st[p].ids = run.now.ids

RunFine(run, row, st, seen, mis) ==
    run # None =>
      /\ run \in RunRecords /\ Known(run.now.id, st)
      /\ Staged(run) /\ Told(run.now) /\ Follows(run, row)
      /\ Exported(run, seen, mis) /\ There(run, st)

StoreFine(st, seen) ==
    /\ st \in Seq(Products \cup {None}) /\ Len(st) <= MaxProducts
    /\ \A p \in DOMAIN st : st[p] # None => st[p].content \in seen

(* A job that is started has one transaction, and a transaction's job is   *)
(* started.                                                                *)
Started(js, rs) ==
    /\ \A j \in Jobs : js[j] # None =>
         (js[j].state = "started") <=> (\E w \in Workers : rs[w] # None /\ rs[w].job = j)
    /\ \A w \in Workers : rs[w] # None =>
         /\ rs[w].job # 0 => js[rs[w].job] # None
         /\ \A u \in Workers \ {w} : rs[u] # None /\ rs[u].job = rs[w].job => rs[w].job = 0

Bounded ==
    /\ {contents, requests, imports, disturbed} \subseteq Nat /\ contents <= MaxContents
    /\ shown \subseteq Contents
    /\ misled \in BOOLEAN

IInv ==
    /\ Bounded
    /\ StoreFine(store, shown)
    /\ RowFine(listing, store)
    /\ jobs = [j \in Jobs |-> jobs[j]] /\ \A j \in Jobs : JobFine(jobs[j], listing, store, shown)
    /\ runs = [w \in Workers |-> runs[w]]
    /\ \A w \in Workers : RunFine(runs[w], listing, store, shown, misled)
    /\ Started(jobs, runs)
    /\ EditsAccounted

-----------------------------------------------------------------------------
(* Values.                                                                 *)

LEMMA NoneIsNothing ==
    None \notin Nat /\ None \notin Rows /\ None \notin Products
      /\ None \notin Fetched /\ None \notin JobRows /\ None \notin RunRecords
BY ListingsAssumption

LEMMA IdMapsAre ==
    ASSUME NEW f
    PROVE  /\ f \in IdMaps <=> DOMAIN f \subseteq Variants /\ f \in [DOMAIN f -> Ids \cup {None}]
           /\ f \in StoredIds <=> DOMAIN f \subseteq Variants /\ f \in [DOMAIN f -> Ids]
           /\ f \in StoredIds => f \in IdMaps
BY DEF IdMaps, StoredIds

LEMMA NewIdsTyped ==
    ASSUME NEW vs \in SUBSET Variants, CanNumber(vs)
    PROVE  NewIds(vs) \in [vs -> Ids]
<1>1. NewIds(vs) \in Numberings(vs)
  BY DEF CanNumber, NewIds
<1> QED BY <1>1 DEF Numberings, FreeIds, Ids

LEMMA JoinedTyped ==
    ASSUME NEW f \in StoredIds, NEW g \in StoredIds
    PROVE  Joined(f, g) \in StoredIds
<1>1. DOMAIN f \subseteq Variants /\ DOMAIN g \subseteq Variants
      /\ f \in [DOMAIN f -> Ids] /\ g \in [DOMAIN g -> Ids]
  BY IdMapsAre
<1>2. Joined(f, g) \in [DOMAIN f \cup DOMAIN g -> Ids]
  BY <1>1 DEF Joined
<1> QED BY <1>1, <1>2 DEF StoredIds

LEMMA RestrictTyped ==
    ASSUME NEW f \in StoredIds, NEW S \in SUBSET DOMAIN f
    PROVE  Restrict(f, S) \in StoredIds /\ DOMAIN Restrict(f, S) = S
BY IdMapsAre DEF Restrict, StoredIds

LEMMA SmallestNat ==
    ASSUME NEW S \in SUBSET Nat, S # {}
    PROVE  \E m \in S : \A n \in S : m <= n
<1>2. IsWellFoundedOn(OpToRel(<, Nat), Nat)
  BY NatLessThanWellFounded
<1>3. PICK m \in S : \A n \in S : <<n, m>> \notin OpToRel(<, Nat)
  BY <1>2, WFMin
<1>4. OpToRel(<, Nat) = {p \in Nat \X Nat : p[1] < p[2]}
  BY Zenon DEF OpToRel
<1>5. \A n \in S : ~(n < m)
  BY <1>3, <1>4
<1> QED BY <1>5

(* A transaction that has been told of a change, whichever, is the same    *)
(* but for what it was told.                                               *)
LEMMA ToldOfChange ==
    ASSUME NEW run \in RunRecords
    PROVE  /\ [run EXCEPT !.stale = TRUE] \in RunRecords
           /\ [run EXCEPT !.stale = TRUE, !.gone = TRUE] \in RunRecords
           /\ [run EXCEPT !.touched = TRUE] \in RunRecords
BY DEF RunRecords

LEMMA RowTyped ==
    ASSUME NEW row \in Rows
    PROVE  /\ row.id \in (1..MaxProducts) \cup {None} /\ row.content \in Contents /\ row.ids \in IdMaps
           /\ Names(row) \subseteq Variants /\ row.ids \in [Names(row) -> Ids \cup {None}]
           /\ row.state \in {"draft", "updated", "published", "error"}
BY IdMapsAre DEF Rows, Names

LEMMA FlaggedTyped ==
    ASSUME NEW row \in Rows, NEW c \in Contents, Told(row)
    PROVE  LET new == [row EXCEPT !.content = c, !.state = Flagged(row)]
           IN  new \in Rows /\ Told(new) /\ new.id = row.id /\ new.state # "published"
<1> DEFINE new == [row EXCEPT !.content = c, !.state = Flagged(row)]
<1>1. Flagged(row) \in {"draft", "updated"}
  BY RowTyped DEF Flagged
<1>2. new \in Rows /\ new.id = row.id /\ new.state = Flagged(row)
  BY <1>1 DEF Rows
<1>3. Told(new)
  BY <1>2, RowTyped DEF Flagged, Told
<1> QED BY <1>1, <1>2, <1>3

LEMMA FromMasterTyped ==
    ASSUME RowFine(listing, store), NEW names \in SUBSET Variants, NEW c \in Contents
    PROVE  LET row == FromMaster(names, c)
           IN  /\ row \in Rows /\ Told(row) /\ row.content = c
               /\ Known(row.id, store)
               /\ listing = None => row.id = None
               /\ listing # None => row.id = listing.id /\ row.state = listing.state
<1>1. CASE listing = None
  <2> DEFINE row == [id |-> None, state |-> "draft", content |-> c, ids |-> [v \in names |-> None]]
  <2>1. [v \in names |-> None] \in IdMaps
    BY DEF IdMaps
  <2>2. row \in Rows /\ FromMaster(names, c) = row
    BY <1>1, <2>1 DEF Rows, FromMaster
  <2> QED BY <1>1, <2>2 DEF Told, Known
<1>2. CASE listing # None
  <2> DEFINE ids == [v \in names |-> IF v \in Names(listing) THEN listing.ids[v] ELSE None]
             row == [listing EXCEPT !.content = c, !.ids = ids]
  <2>1. listing \in Rows
    BY <1>2 DEF RowFine
  <2>2. ids \in [names -> Ids \cup {None}]
    BY <2>1, RowTyped
  <2>3. ids \in IdMaps
    BY <2>2 DEF IdMaps
  <2>4. row \in Rows /\ row.id = listing.id /\ row.state = listing.state /\ row.content = c
    BY <2>1, <2>3 DEF Rows
  <2>5. FromMaster(names, c) = row
    BY <1>2, <2>1 DEF FromMaster, Rows
  <2> QED BY <1>2, <2>4, <2>5 DEF Told, RowFine
<1> QED BY <1>1, <1>2

LEMMA RunTyped ==
    ASSUME NEW job \in 0..MaxJobs, NEW kind \in Exports \cup {"remove"},
           NEW step \in {"fetch", "put", "variants", "read", "post", "delete", "commit", "drop"},
           NEW row \in Rows
    PROVE  LET run == Run(job, kind, step, row)
           IN  /\ run \in RunRecords /\ run.job = job /\ run.kind = kind /\ run.step = step /\ run.now = row
               /\ ~run.stale /\ ~run.gone /\ ~run.touched
<1>1. NoIds \in StoredIds
  BY DEF NoIds, StoredIds
<1> QED BY <1>1 DEF Run, RunRecords

LEMMA ErrorTyped ==
    ASSUME NEW run \in RunRecords
    PROVE  LET new == WithError(run)
           IN  /\ new \in RunRecords /\ new.job = run.job /\ new.kind = run.kind
               /\ new.now.id = run.now.id /\ new.now.state = "error"
               /\ new.stale = run.stale /\ new.gone = run.gone
               /\ new.step = IF run.kind = "mapping" THEN "commit" ELSE "read"
BY DEF WithError, RunRecords, Rows

-----------------------------------------------------------------------------
(* What the others do to a transaction.                                    *)

LEMMA RunKept ==
    ASSUME NEW run, NEW row, NEW st, NEW seen, NEW mis, RunFine(run, row, st, seen, mis),
           NEW st2, NEW seen2, NEW mis2,
           DOMAIN st \subseteq DOMAIN st2, seen \subseteq seen2, mis => mis2,
           run # None =>
             \/ run.touched
             \/ run.now.id = None
             \/ st2[run.now.id] = st[run.now.id]
    PROVE  RunFine(run, row, st2, seen2, mis2)
<1> SUFFICES ASSUME run # None
             PROVE  RunFine(run, row, st2, seen2, mis2)
  BY DEF RunFine
<1>1. Known(run.now.id, st2)
  BY DEF RunFine, Known
<1>2. Exported(run, seen2, mis2)
  BY DEF RunFine, Exported
<1>3. There(run, st2)
  <2>1. CASE run.touched
    BY <2>1 DEF There
  <2>2. CASE run.now.id = None
    BY <2>2 DEF RunFine, Staged, There
  <2>3. CASE st2[run.now.id] = st[run.now.id]
    BY <2>3 DEF RunFine, There
  <2> QED BY <2>1, <2>2, <2>3
<1> QED BY <1>1, <1>2, <1>3 DEF RunFine

LEMMA RunIsTouched ==
    ASSUME NEW run \in RunRecords, NEW row, NEW st, NEW seen, NEW mis, RunFine(run, row, st, seen, mis)
    PROVE  RunFine([run EXCEPT !.touched = TRUE], row, st, seen, mis)
<1> DEFINE new == [run EXCEPT !.touched = TRUE]
<1>1. /\ new \in RunRecords /\ new.job = run.job /\ new.kind = run.kind /\ new.step = run.step
      /\ new.now = run.now /\ new.stale = run.stale /\ new.gone = run.gone /\ new.touched = TRUE
  BY DEF RunRecords
<1> HIDE DEF new
<1>2. run # None
  BY NoneIsNothing
<1>3. RunFine(new, row, st, seen, mis)
  BY <1>1, <1>2 DEF RunFine, Staged, Follows, Exported, There
<1> QED BY <1>3 DEF new

LEMMA RunIsOvertaken ==
    ASSUME NEW run \in RunRecords, NEW row, NEW st, NEW seen, NEW mis, RunFine(run, row, st, seen, mis),
           NEW row2, row # None => row2 # None /\ (row.id # None => row2.id # None)
    PROVE  RunFine([run EXCEPT !.stale = TRUE], row2, st, seen, mis)
<1> DEFINE new == [run EXCEPT !.stale = TRUE]
<1>1. /\ new \in RunRecords /\ new.job = run.job /\ new.kind = run.kind /\ new.step = run.step
      /\ new.now = run.now /\ new.stale = TRUE /\ new.gone = run.gone
      /\ new.touched = run.touched /\ new.remote = run.remote
  BY DEF RunRecords
<1> HIDE DEF new
<1>2. run # None
  BY NoneIsNothing
<1>3. Follows(new, row2)
  BY <1>1, <1>2 DEF RunFine, Follows
<1>4. There(new, st)
  BY <1>1, <1>2 DEF RunFine, There
<1>5. RunFine(new, row2, st, seen, mis)
  BY <1>1, <1>2, <1>3, <1>4 DEF RunFine, Staged, Exported
<1> QED BY <1>5 DEF new

LEMMA RunIsOrphaned ==
    ASSUME NEW run \in RunRecords, NEW row, NEW st, NEW seen, NEW mis, RunFine(run, row, st, seen, mis),
           NEW row2
    PROVE  RunFine([run EXCEPT !.stale = TRUE, !.gone = TRUE], row2, st, seen, mis)
<1> DEFINE new == [run EXCEPT !.stale = TRUE, !.gone = TRUE]
<1>1. /\ new \in RunRecords /\ new.job = run.job /\ new.kind = run.kind /\ new.step = run.step
      /\ new.now = run.now /\ new.stale = TRUE /\ new.gone = TRUE
      /\ new.touched = run.touched /\ new.remote = run.remote
  BY DEF RunRecords
<1> HIDE DEF new
<1>2. run # None
  BY NoneIsNothing
<1>3. Follows(new, row2)
  BY <1>1, <1>2 DEF RunFine, Follows
<1>4. There(new, st)
  BY <1>1, <1>2 DEF RunFine, There
<1>5. RunFine(new, row2, st, seen, mis)
  BY <1>1, <1>2, <1>3, <1>4 DEF RunFine, Staged, Exported
<1> QED BY <1>5 DEF new

LEMMA RunsTyped ==
    ASSUME IInv, NEW u \in Workers
    PROVE  runs[u] # None => runs[u] \in RunRecords
BY DEF IInv, RunFine

LEMMA TouchedFine ==
    ASSUME IInv, NEW p, NEW st2, NEW seen2, NEW mis2,
           DOMAIN store \subseteq DOMAIN st2, shown \subseteq seen2, misled => mis2,
           \A q \in DOMAIN store : q # p => st2[q] = store[q],
           NEW u \in Workers
    PROVE  /\ RunFine(Touched(runs, p)[u], listing, st2, seen2, mis2)
           /\ Touched(runs, p)[u] = None <=> runs[u] = None
           /\ runs[u] # None => Touched(runs, p)[u].job = runs[u].job
<1>1. CASE runs[u] = None
  BY <1>1 DEF Touched, RunFine
<1>2. CASE runs[u] # None /\ runs[u].now.id # p
  <2>1. Touched(runs, p)[u] = runs[u]
    BY <1>2 DEF Touched
  <2>2. RunFine(runs[u], listing, store, shown, misled)
    BY DEF IInv
  <2>3. runs[u].now.id = None \/ st2[runs[u].now.id] = store[runs[u].now.id]
    BY <1>2, <2>2 DEF RunFine, Known
  <2>4. RunFine(runs[u], listing, st2, seen2, mis2)
    BY <2>2, <2>3, RunKept
  <2> QED BY <2>1, <2>4
<1>3. CASE runs[u] # None /\ runs[u].now.id = p
  <2> DEFINE run == [runs[u] EXCEPT !.touched = TRUE]
  <2>1. Touched(runs, p)[u] = run
    BY <1>3 DEF Touched
  <2>2. RunFine(runs[u], listing, store, shown, misled) /\ runs[u] \in RunRecords
    BY <1>3 DEF IInv, RunFine
  <2>3. RunFine(run, listing, store, shown, misled) /\ run \in RunRecords
    BY <2>2, RunIsTouched, ToldOfChange
  <2>4. run.touched /\ run.job = runs[u].job /\ run # None
    BY <2>2, <2>3, NoneIsNothing DEF RunRecords
  <2> HIDE DEF run
  <2>5. RunFine(run, listing, st2, seen2, mis2)
    BY <2>3, <2>4, RunKept
  <2> QED BY <1>3, <2>1, <2>4, <2>5
<1> QED BY <1>1, <1>2, <1>3

LEMMA OvertakenFine ==
    ASSUME IInv, NEW row2, listing # None => row2 # None /\ (listing.id # None => row2.id # None),
           NEW u \in Workers
    PROVE  /\ RunFine(Overtaken[u], row2, store, shown, misled)
           /\ Overtaken[u] = None <=> runs[u] = None
           /\ runs[u] # None => Overtaken[u].job = runs[u].job
<1>1. CASE runs[u] = None
  BY <1>1 DEF Overtaken, RunFine
<1>2. CASE runs[u] # None
  <2> DEFINE run == [runs[u] EXCEPT !.stale = TRUE]
  <2>1. Overtaken[u] = run
    BY <1>2 DEF Overtaken
  <2>2. RunFine(runs[u], listing, store, shown, misled) /\ runs[u] \in RunRecords
    BY <1>2 DEF IInv, RunFine
  <2>3. RunFine(run, row2, store, shown, misled) /\ run \in RunRecords
    BY <2>2, RunIsOvertaken, ToldOfChange
  <2>4. run.job = runs[u].job /\ run # None
    BY <2>2, <2>3, NoneIsNothing DEF RunRecords
  <2> QED BY <1>2, <2>1, <2>3, <2>4
<1> QED BY <1>1, <1>2

LEMMA OrphanedFine ==
    ASSUME IInv, NEW row2, NEW u \in Workers
    PROVE  /\ RunFine(Orphaned[u], row2, store, shown, misled)
           /\ Orphaned[u] = None <=> runs[u] = None
           /\ runs[u] # None => Orphaned[u].job = runs[u].job
<1>1. CASE runs[u] = None
  BY <1>1 DEF Orphaned, RunFine
<1>2. CASE runs[u] # None
  <2> DEFINE run == [runs[u] EXCEPT !.stale = TRUE, !.gone = TRUE]
  <2>1. Orphaned[u] = run
    BY <1>2 DEF Orphaned
  <2>2. RunFine(runs[u], listing, store, shown, misled) /\ runs[u] \in RunRecords
    BY <1>2 DEF IInv, RunFine
  <2>3. RunFine(run, row2, store, shown, misled) /\ run \in RunRecords
    BY <2>2, RunIsOrphaned, ToldOfChange
  <2>4. run.job = runs[u].job /\ run # None
    BY <2>2, <2>3, NoneIsNothing DEF RunRecords
  <2> QED BY <1>2, <2>1, <2>3, <2>4
<1> QED BY <1>1, <1>2

-----------------------------------------------------------------------------
(* Which transaction has which job.                                        *)

LEMMA StartedSame ==
    ASSUME NEW js, NEW rs, NEW rs2, Started(js, rs),
           \A u \in Workers : /\ rs2[u] = None <=> rs[u] = None
                              /\ rs[u] # None => rs2[u].job = rs[u].job
    PROVE  Started(js, rs2)
BY DEF Started

LEMMA StartedBegins ==
    ASSUME NEW js, NEW rs, Started(js, rs), NEW w \in Workers, rs[w] = None,
           NEW run, run.job = 0, rs = [u \in Workers |-> rs[u]]
    PROVE  Started(js, [rs EXCEPT ![w] = run])
BY ListingsAssumption DEF Started, Jobs

(* JobAfter, with a transaction that has gone.                             *)
LEMMA StartedEnds ==
    ASSUME IInv, NEW w \in Workers, runs[w] # None,
           NEW state \in {"done", "failed", "pending"},
           NEW rs, rs[w] = None,
           \A u \in Workers \ {w} : /\ rs[u] = None <=> runs[u] = None
                                    /\ runs[u] # None => rs[u].job = runs[u].job
    PROVE  Started(JobAfter(w, state), rs)
<1> DEFINE i == runs[w].job
<1>1. i \in 0..MaxJobs /\ (i # 0 => i \in Jobs)
  BY RunsTyped, ListingsAssumption DEF RunRecords, Jobs
<1>2. Started(jobs, runs)
  BY DEF IInv
<1>3. CASE i = 0
  <2>1. JobAfter(w, state) = jobs
    BY <1>3 DEF JobAfter
  <2> QED BY <1>2, <1>3, <2>1, ListingsAssumption DEF Started, Jobs
<1>4. CASE i # 0
  <2>1. jobs[i] # None /\ jobs[i] \in JobRows /\ i \in Jobs
    BY <1>1, <1>2, <1>4 DEF Started, IInv, JobFine
  <2>2. \A u \in Workers \ {w} : runs[u] # None => runs[u].job # i
    BY <1>2, <1>4 DEF Started
  <2> DEFINE job == IF state = "done" THEN None ELSE [jobs[i] EXCEPT !.state = state]
  <2>3. job # None => job.state = state
    BY <2>1 DEF JobRows
  <2>4. JobAfter(w, state) = [jobs EXCEPT ![i] = job]
    BY <1>4 DEF JobAfter
  <2>5. /\ JobAfter(w, state)[i] = job
        /\ \A j \in Jobs \ {i} : JobAfter(w, state)[j] = jobs[j]
    BY <2>1, <2>4 DEF IInv
  <2>6. state # "done" => job # None
    BY <2>1, NoneIsNothing DEF JobRows
  <2> HIDE DEF job, i
  <2>7. \A j \in Jobs : JobAfter(w, state)[j] # None =>
          (JobAfter(w, state)[j].state = "started") <=> (\E u \in Workers : rs[u] # None /\ rs[u].job = j)
    <3>1. CASE state # "done"
      BY <1>2, <2>1, <2>2, <2>3, <2>5, <2>6, <3>1 DEF Started, i
    <3>2. CASE state = "done"
      BY <1>2, <2>1, <2>2, <2>5, <3>2 DEF Started, i, job
    <3> QED BY <3>1, <3>2
  <2>8. \A u \in Workers : rs[u] # None /\ rs[u].job # 0 => JobAfter(w, state)[rs[u].job] # None
    <3> SUFFICES ASSUME NEW u \in Workers, rs[u] # None, rs[u].job # 0
                 PROVE  JobAfter(w, state)[rs[u].job] # None
      OBVIOUS
    <3>1. u # w /\ runs[u] # None /\ rs[u].job = runs[u].job /\ runs[u].job # i
      BY <2>2
    <3>2. runs[u].job \in Jobs /\ jobs[runs[u].job] # None
      BY <1>2, <3>1, RunsTyped, ListingsAssumption DEF RunRecords, Jobs, Started
    <3> QED BY <2>5, <3>1, <3>2
  <2> QED BY <1>2, <2>7, <2>8 DEF Started
<1> QED BY <1>3, <1>4

(* The jobs after a transaction are those before it, but for their states  *)
(* and the one that is done.                                               *)
LEMMA JobAfterFine ==
    ASSUME IInv, NEW w \in Workers, runs[w] # None,
           NEW state \in {"done", "failed", "pending"}
    PROVE  /\ JobAfter(w, state) = [j \in Jobs |-> JobAfter(w, state)[j]]
           /\ \A j \in Jobs :
                /\ JobAfter(w, state)[j] # None =>
                     /\ jobs[j] # None /\ JobAfter(w, state)[j] \in JobRows
                     /\ JobAfter(w, state)[j].kind = jobs[j].kind
                     /\ JobAfter(w, state)[j].product = jobs[j].product
                /\ state # "done" /\ jobs[j] # None => JobAfter(w, state)[j] # None
<1> DEFINE i == runs[w].job
<1>1. i \in 0..MaxJobs /\ (i # 0 => i \in Jobs)
  BY RunsTyped, ListingsAssumption DEF RunRecords, Jobs
<1>2. CASE i = 0
  BY <1>2 DEF JobAfter, IInv, JobFine
<1>3. CASE i # 0
  <2>1. jobs[i] # None /\ jobs[i] \in JobRows /\ i \in Jobs
    BY <1>1, <1>3 DEF Started, IInv, JobFine
  <2> DEFINE changed == [jobs[i] EXCEPT !.state = state]
             job == IF state = "done" THEN None ELSE changed
  <2>2. state # "done" => /\ changed \in JobRows /\ changed.kind = jobs[i].kind
                          /\ changed.product = jobs[i].product
    BY <2>1 DEF JobRows
  <2>3. JobAfter(w, state) = [jobs EXCEPT ![i] = job]
    BY <1>3 DEF JobAfter
  <2>4. job # None => /\ job \in JobRows /\ job.kind = jobs[i].kind
                      /\ job.product = jobs[i].product
    BY <2>2
  <2>5. state # "done" => job # None
    BY <2>2, NoneIsNothing
  <2> HIDE DEF job
  <2> QED BY <2>1, <2>3, <2>4, <2>5 DEF IInv, JobFine
<1> QED BY <1>2, <1>3

-----------------------------------------------------------------------------
(* What a transaction does between its beginning and its end: it changes   *)
(* itself, perhaps one product of the store, and may tell the others.      *)

LEMMA JobsKept ==
    ASSUME IInv, NEW st2, NEW seen2, DOMAIN store \subseteq DOMAIN st2, shown \subseteq seen2,
           NEW j \in Jobs
    PROVE  JobFine(jobs[j], listing, st2, seen2)
BY DEF IInv, JobFine

LEMMA RunGoesOn ==
    ASSUME IInv, NEW w \in Workers, runs[w] # None,
           NEW p, NEW run, run # None, run.job = runs[w].job,
           listing' = listing, jobs' = jobs,
           DOMAIN store \subseteq DOMAIN store', shown \subseteq shown', misled => misled',
           \A q \in DOMAIN store : q # p => store'[q] = store[q],
           \/ runs' = TouchedBy(w, p, run)
           \/ /\ runs' = [runs EXCEPT ![w] = run]
              /\ \A q \in DOMAIN store : store'[q] = store[q],
           RunFine(run, listing, store', shown', misled'),
           StoreFine(store', shown'), Bounded'
    PROVE  IInv'
<1>1. \A u \in Workers \ {w} :
        /\ RunFine(runs'[u], listing, store', shown', misled')
        /\ runs'[u] = None <=> runs[u] = None
        /\ runs[u] # None => runs'[u].job = runs[u].job
  <2>1. CASE runs' = TouchedBy(w, p, run)
    <3> SUFFICES ASSUME NEW u \in Workers \ {w}
                 PROVE  /\ RunFine(runs'[u], listing, store', shown', misled')
                        /\ runs'[u] = None <=> runs[u] = None
                        /\ runs[u] # None => runs'[u].job = runs[u].job
      OBVIOUS
    <3>1. runs'[u] = Touched(runs, p)[u]
      BY <2>1 DEF TouchedBy, Touched
    <3>2. PICK st2 : st2 = store'
      OBVIOUS
    <3>3. PICK seen2 : seen2 = shown'
      OBVIOUS
    <3>4. PICK mis2 : mis2 = misled'
      OBVIOUS
    <3>5. /\ RunFine(Touched(runs, p)[u], listing, st2, seen2, mis2)
          /\ Touched(runs, p)[u] = None <=> runs[u] = None
          /\ runs[u] # None => Touched(runs, p)[u].job = runs[u].job
      BY <3>2, <3>3, <3>4, TouchedFine
    <3> QED BY <3>1, <3>2, <3>3, <3>4, <3>5
  <2>2. CASE /\ runs' = [runs EXCEPT ![w] = run]
             /\ \A q \in DOMAIN store : store'[q] = store[q]
    <3> SUFFICES ASSUME NEW u \in Workers \ {w}
                 PROVE  RunFine(runs[u], listing, store', shown', misled') /\ runs'[u] = runs[u]
      OBVIOUS
    <3>1. RunFine(runs[u], listing, store, shown, misled)
      BY DEF IInv
    <3>2. runs[u] # None => runs[u].now.id = None \/ store'[runs[u].now.id] = store[runs[u].now.id]
      BY <2>2, <3>1 DEF RunFine, Known
    <3> QED BY <2>2, <3>1, <3>2, RunKept DEF IInv
  <2> QED BY <2>1, <2>2
<1>2. /\ runs'[w] = run
      /\ runs' = [u \in Workers |-> runs'[u]]
  BY DEF TouchedBy, Touched, IInv
<1>3. \A u \in Workers : RunFine(runs'[u], listing', store', shown', misled')
  BY <1>1, <1>2
<1>4. Started(jobs', runs')
  <2>1. \A u \in Workers : /\ runs'[u] = None <=> runs[u] = None
                           /\ runs[u] # None => runs'[u].job = runs[u].job
    BY <1>1, <1>2
  <2> QED BY <2>1, StartedSame DEF IInv
<1>5. \A j \in Jobs : JobFine(jobs'[j], listing', store', shown')
  BY JobsKept
<1>6. RowFine(listing', store')
  BY DEF IInv, RowFine, Known
<1>7. EditsAccounted'
  BY DEF IInv, EditsAccounted, ExportPending
<1>8. jobs' = [j \in Jobs |-> jobs'[j]]
  BY DEF IInv
<1> QED BY <1>2, <1>3, <1>4, <1>5, <1>6, <1>7, <1>8 DEF IInv

(* A transaction begins.                                                   *)
LEMMA RunBegins ==
    ASSUME IInv, NEW w \in Workers, runs[w] = None,
           NEW run, run.job = 0, RunFine(run, listing, store, shown, misled),
           runs' = [runs EXCEPT ![w] = run],
           UNCHANGED <<listing, jobs, store, shown, misled>>, Bounded'
    PROVE  IInv'
<1>1. \A u \in Workers : RunFine(runs'[u], listing', store', shown', misled')
  BY DEF IInv
<1>2. Started(jobs', runs')
  BY StartedBegins DEF IInv
<1>3. EditsAccounted'
  BY DEF IInv, EditsAccounted, ExportPending
<1> QED BY <1>1, <1>2, <1>3 DEF IInv

(* A transaction ends without having written.                              *)
LEMMA RunEnds ==
    ASSUME IInv, NEW w \in Workers, runs[w] # None,
           NEW state \in {"failed", "pending"},
           runs' = [runs EXCEPT ![w] = None], jobs' = JobAfter(w, state),
           UNCHANGED <<listing, store, shown, misled>>, Bounded'
    PROVE  IInv'
<1>1. \A u \in Workers : RunFine(runs'[u], listing', store', shown', misled')
  BY DEF IInv, RunFine
<1>2. Started(jobs', runs')
  <2>1. runs'[w] = None /\ \A u \in Workers \ {w} : runs'[u] = runs[u]
    BY DEF IInv
  <2> QED BY <2>1, StartedEnds
<1>3. jobs' = [j \in Jobs |-> jobs'[j]] /\ \A j \in Jobs : JobFine(jobs'[j], listing', store', shown')
  <2>1. \A j \in Jobs : JobFine(jobs[j], listing, store, shown)
    BY DEF IInv
  <2> QED BY <2>1, JobAfterFine DEF JobFine
<1>4. EditsAccounted'
  <2>1. ExportPending => ExportPending'
    BY JobAfterFine DEF ExportPending
  <2> QED BY <2>1 DEF IInv, EditsAccounted
<1> QED BY <1>1, <1>2, <1>3, <1>4 DEF IInv

(* A job is queued, of an export of the mapping as it is then, or of an    *)
(* import.                                                                 *)
LEMMA JobQueued ==
    ASSUME IInv, NEW kind \in Exports \cup {"import"}, NEW product \in Fetched \cup {None},
           Queued(kind, product),
           NEW row2, NEW rs,
           JobFine([kind |-> kind, state |-> "pending", product |-> product], row2, store, shown),
           listing # None => row2 # None /\ (listing.id # None => row2.id # None),
           \A u \in Workers : /\ rs[u] = None <=> runs[u] = None
                              /\ runs[u] # None => rs[u].job = runs[u].job
    PROVE  /\ jobs' = [j \in Jobs |-> jobs'[j]]
           /\ \A j \in Jobs : JobFine(jobs'[j], row2, store, shown)
           /\ Started(jobs', rs)
           /\ \A j \in Jobs : jobs[j] # None => jobs'[j] = jobs[j]
           /\ \E j \in Jobs : jobs'[j] # None /\ jobs'[j].kind = kind
<1> DEFINE job == [kind |-> kind, state |-> "pending", product |-> product]
           i == Min({j \in Jobs : jobs[j] = None})
<1>1. i \in Jobs /\ jobs[i] = None
  <2> DEFINE free == {j \in Jobs : jobs[j] = None}
  <2>1. free # {} /\ free \subseteq Nat /\ free \subseteq Jobs
    BY DEF Queued, Jobs
  <2>2. \E m \in free : \A n \in free : m <= n
    <3> HIDE DEF free
    <3>1. PICK m \in free : TRUE
      BY <2>1
    <3> QED BY <2>1, SmallestNat
  <2>3. Min(free) \in free
    <3> HIDE DEF free
    <3> QED BY <2>2 DEF Min
  <2> QED BY <2>3
<1>2. jobs' = [jobs EXCEPT ![i] = job]
  BY DEF Queued
<1>3. job \in JobRows /\ job # None
  <2>1. job \in JobRows
    BY DEF JobRows, Exports
  <2> QED BY <2>1, NoneIsNothing
<1> HIDE DEF i
<1>4. \A j \in Jobs : JobFine(jobs[j], row2, store, shown)
  BY DEF IInv, JobFine, Exports
<1>5. Started(jobs', rs)
  <2>1. Started(jobs, rs)
    BY StartedSame DEF IInv
  <2>2. \A u \in Workers : rs[u] # None => rs[u].job # i
    <3> SUFFICES ASSUME NEW u \in Workers, rs[u] # None, rs[u].job = i PROVE FALSE
      OBVIOUS
    <3>1. i # 0
      BY <1>1, ListingsAssumption DEF Jobs
    <3> QED BY <1>1, <2>1, <3>1 DEF Started
  <2>3. /\ jobs'[i] = job /\ \A j \in Jobs \ {i} : jobs'[j] = jobs[j]
    BY <1>1, <1>2 DEF IInv
  <2>4. job.state # "started"
    OBVIOUS
  <2>5. \A u \in Workers : rs[u] # None /\ rs[u].job # 0 => rs[u].job \in Jobs
    BY RunsTyped, ListingsAssumption DEF RunRecords, Jobs
  <2> HIDE DEF job
  <2>6. \A j \in Jobs : jobs'[j] # None =>
          ((jobs'[j].state = "started") <=> (\E u \in Workers : rs[u] # None /\ rs[u].job = j))
    BY <2>1, <2>2, <2>3, <2>4 DEF Started
  <2>7. \A u \in Workers : rs[u] # None => (rs[u].job # 0 => jobs'[rs[u].job] # None)
    BY <1>1, <2>1, <2>2, <2>3, <2>5 DEF Started
  <2> QED BY <2>1, <2>6, <2>7 DEF Started
<1>6. jobs' = [j \in Jobs |-> jobs'[j]] /\ jobs'[i] = job /\ \A j \in Jobs \ {i} : jobs'[j] = jobs[j]
  BY <1>1, <1>2 DEF IInv
<1>7. job.kind = kind
  OBVIOUS
<1> HIDE DEF job
<1>8. JobFine(job, row2, store, shown)
  BY DEF job
<1> QED BY <1>1, <1>3, <1>4, <1>5, <1>6, <1>7, <1>8

-----------------------------------------------------------------------------
(* Every step keeps the invariant.  What the user does first.              *)

LEMMA ListingTyped ==
    ASSUME IInv, listing # None
    PROVE  listing \in Rows /\ Known(listing.id, store) /\ Told(listing)
BY DEF IInv, RowFine

LEMMA EditKeeps ==
    ASSUME IInv, Edit
    PROVE  IInv'
<1>1. contents' \in Contents
  BY ListingsAssumption DEF Edit, IInv, Bounded, Contents
<1>2. /\ listing' \in Rows /\ Told(listing') /\ listing'.id = listing.id
      /\ listing'.state # "published" /\ listing' # None
  BY <1>1, ListingTyped, FlaggedTyped, NoneIsNothing DEF Edit
<1>3. Bounded'
  BY ListingsAssumption DEF Edit, IInv, Bounded
<1>4. RowFine(listing', store')
  BY <1>2, ListingTyped DEF RowFine, Edit
<1>5. /\ \A u \in Workers : /\ RunFine(Overtaken[u], listing', store, shown, misled)
                            /\ Overtaken[u] = None <=> runs[u] = None
                            /\ runs[u] # None => Overtaken[u].job = runs[u].job
  <2>1. PICK row2 : row2 = listing'
    OBVIOUS
  <2>2. listing # None => row2 # None /\ (listing.id # None => row2.id # None)
    BY <1>2, <2>1
  <2>3. \A u \in Workers : /\ RunFine(Overtaken[u], row2, store, shown, misled)
                           /\ Overtaken[u] = None <=> runs[u] = None
                           /\ runs[u] # None => Overtaken[u].job = runs[u].job
    BY <2>2, OvertakenFine
  <2> QED BY <2>1, <2>3
<1>6. runs' = Overtaken
  BY DEF Edit
<1>7. /\ runs' = [u \in Workers |-> runs'[u]]
      /\ \A u \in Workers : RunFine(runs'[u], listing', store', shown', misled')
      /\ Started(jobs', runs')
  <2>1. runs' = [u \in Workers |-> runs'[u]]
    BY <1>6 DEF Overtaken
  <2>2. \A u \in Workers : RunFine(runs'[u], listing', store', shown', misled')
    BY <1>5, <1>6 DEF Edit
  <2>3. Started(jobs, Overtaken)
    BY <1>5, StartedSame DEF IInv
  <2> QED BY <1>6, <2>1, <2>2, <2>3 DEF Edit
<1>8. jobs' = [j \in Jobs |-> jobs'[j]] /\ \A j \in Jobs : JobFine(jobs'[j], listing', store', shown')
  BY <1>2 DEF IInv, JobFine, Edit, Exports
<1>9. EditsAccounted'
  BY <1>2 DEF EditsAccounted
<1> QED BY <1>3, <1>4, <1>7, <1>8, <1>9 DEF IInv, Edit

LEMMA MappingRun ==
    ASSUME IInv, listing # None, listing.id # None
    PROVE  LET run == Run(0, "mapping", "fetch", listing)
           IN  run \in RunRecords /\ run.job = 0 /\ RunFine(run, listing, store, shown, misled)
<1> DEFINE run == Run(0, "mapping", "fetch", listing)
<1>1. listing \in Rows /\ Known(listing.id, store) /\ Told(listing)
  BY ListingTyped
<1>2. /\ run \in RunRecords /\ run.job = 0 /\ run.kind = "mapping" /\ run.step = "fetch"
      /\ run.now = listing /\ ~run.stale /\ ~run.gone /\ ~run.touched
  <2>1. 0 \in 0..MaxJobs
    BY ListingsAssumption
  <2> QED BY <1>1, <2>1, RunTyped DEF Exports
<1> HIDE DEF run
<1>3. RunFine(run, listing, store, shown, misled)
  BY <1>1, <1>2 DEF RunFine, Staged, Follows, Exported, There
<1> QED BY <1>2, <1>3 DEF run

LEMMA ExportToStoreKeeps ==
    ASSUME IInv, NEW w \in Workers, ExportToStore(w)
    PROVE  IInv'
<1> DEFINE run == Run(0, "mapping", "fetch", listing)
<1>1. listing # None /\ listing.id # None
  BY ListingTyped DEF ExportToStore, Told
<1>2. run.job = 0 /\ RunFine(run, listing, store, shown, misled)
  BY <1>1, MappingRun
<1>3. runs' = [runs EXCEPT ![w] = run] /\ runs[w] = None
  BY DEF ExportToStore
<1>4. Bounded'
  BY ListingsAssumption DEF ExportToStore, Asks, IInv, Bounded
<1> HIDE DEF run
<1> QED BY <1>2, <1>3, <1>4, RunBegins DEF ExportToStore

LEMMA QueueExportKeeps ==
    ASSUME IInv, QueueExport
    PROVE  IInv'
<1> DEFINE job == [kind |-> "mapping", state |-> "pending", product |-> None]
<1>1. listing # None /\ listing.id # None
  BY ListingTyped DEF QueueExport, Told
<1>2. JobFine(job, listing, store, shown)
  BY <1>1 DEF JobFine, JobRows, Exports
<1>3. /\ jobs' = [j \in Jobs |-> jobs'[j]]
      /\ \A j \in Jobs : JobFine(jobs'[j], listing, store, shown)
      /\ Started(jobs', runs)
      /\ \E j \in Jobs : jobs'[j] # None /\ jobs'[j].kind = "mapping"
  BY <1>1, <1>2, JobQueued DEF QueueExport, Exports
<1>4. EditsAccounted'
  BY <1>3 DEF EditsAccounted, ExportPending, Exports
<1>5. Bounded'
  BY ListingsAssumption DEF QueueExport, Asks, IInv, Bounded
<1> QED BY <1>3, <1>4, <1>5 DEF IInv, QueueExport

(* The row that the wizard writes, and the transaction that exports it.    *)
LEMMA MasterRun ==
    ASSUME IInv, NEW names \in SUBSET Variants, NEW c \in Contents
    PROVE  LET row == FromMaster(names, c)
               kind == IF row.id = None THEN "create" ELSE "update"
               run == Run(0, kind, FirstStep(kind), row)
           IN  run \in RunRecords /\ run.job = 0 /\ RunFine(run, listing, store, shown, misled)
<1> DEFINE row == FromMaster(names, c)
           kind == IF row.id = None THEN "create" ELSE "update"
           run == Run(0, kind, FirstStep(kind), row)
<1>1. /\ row \in Rows /\ Told(row) /\ Known(row.id, store)
      /\ listing # None => row.id = listing.id
  BY FromMasterTyped DEF IInv
<1> HIDE DEF row
<1>2. /\ run \in RunRecords /\ run.job = 0 /\ run.kind = kind /\ run.step = FirstStep(kind)
      /\ run.now = row /\ ~run.stale /\ ~run.gone /\ ~run.touched
  <2>1. 0 \in 0..MaxJobs
    BY ListingsAssumption
  <2>2. kind \in Exports \cup {"remove"} /\ FirstStep(kind) \in {"fetch", "post"}
    BY DEF Exports, FirstStep
  <2> HIDE DEF kind
  <2> QED BY <1>1, <2>1, <2>2, RunTyped
<1> HIDE DEF run
<1>3. RunFine(run, listing, store, shown, misled)
  BY <1>1, <1>2 DEF RunFine, Staged, Follows, Exported, There, FirstStep
<1> QED BY <1>2, <1>3 DEF run, row

LEMMA ExportMasterKeeps ==
    ASSUME IInv, NEW names \in SUBSET Variants, ExportMaster(names)
    PROVE  IInv'
<1> DEFINE row == FromMaster(names, contents + 1)
           kind == IF row.id = None THEN "create" ELSE "update"
           run == Run(0, kind, FirstStep(kind), row)
           job == [kind |-> kind, state |-> "pending", product |-> None]
<1>1. contents + 1 \in Contents
  BY ListingsAssumption DEF ExportMaster, IInv, Bounded, Contents
<1>2. Bounded'
  BY ListingsAssumption DEF ExportMaster, Asks, IInv, Bounded
<1>3. ASSUME NEW w \in Workers, runs[w] = None, runs' = [runs EXCEPT ![w] = run],
             UNCHANGED <<listing, jobs>>
      PROVE  IInv'
  <2>1. run.job = 0 /\ RunFine(run, listing, store, shown, misled)
    BY <1>1, MasterRun
  <2> HIDE DEF run
  <2> QED BY <1>2, <1>3, <2>1, RunBegins DEF ExportMaster
<1>4. ASSUME Queued(kind, None), listing' = row, runs' = Overtaken
      PROVE  IInv'
  <2>1. /\ row \in Rows /\ Told(row) /\ Known(row.id, store) /\ row # None
        /\ listing # None => row.id = listing.id
    BY <1>1, FromMasterTyped, NoneIsNothing DEF IInv
  <2> HIDE DEF row
  <2>2. \A u \in Workers : /\ RunFine(Overtaken[u], row, store, shown, misled)
                           /\ Overtaken[u] = None <=> runs[u] = None
                           /\ runs[u] # None => Overtaken[u].job = runs[u].job
    BY <2>1, OvertakenFine
  <2>3. JobFine(job, row, store, shown)
    BY <2>1 DEF JobFine, JobRows, Exports
  <2>4. /\ jobs' = [j \in Jobs |-> jobs'[j]]
        /\ \A j \in Jobs : JobFine(jobs'[j], row, store, shown)
        /\ Started(jobs', Overtaken)
        /\ \E j \in Jobs : jobs'[j] # None /\ jobs'[j].kind = kind
    <3>1. kind \in Exports
      BY DEF Exports
    <3> HIDE DEF kind
    <3> QED BY <1>4, <2>1, <2>2, <2>3, <3>1, JobQueued
  <2>5. EditsAccounted'
    BY <2>4 DEF EditsAccounted, ExportPending, Exports
  <2>6. RowFine(listing', store')
    BY <1>4, <2>1 DEF RowFine, ExportMaster
  <2>7. runs' = [u \in Workers |-> runs'[u]]
    BY <1>4 DEF Overtaken
  <2>8. /\ \A u \in Workers : RunFine(runs'[u], listing', store', shown', misled')
        /\ \A j \in Jobs : JobFine(jobs'[j], listing', store', shown')
        /\ Started(jobs', runs')
    BY <1>4, <2>2, <2>4 DEF ExportMaster
  <2>9. StoreFine(store', shown')
    BY DEF IInv, ExportMaster
  <2> QED BY <1>2, <2>4, <2>5, <2>6, <2>7, <2>8, <2>9 DEF IInv
<1> QED BY <1>3, <1>4 DEF ExportMaster

LEMMA RemoveRun ==
    ASSUME IInv, listing # None
    PROVE  LET step == IF listing.id # None /\ listing.state # "draft" THEN "delete" ELSE "commit"
               run == Run(0, "remove", step, listing)
           IN  run \in RunRecords /\ run.job = 0 /\ RunFine(run, listing, store, shown, misled)
<1> DEFINE step == IF listing.id # None /\ listing.state # "draft" THEN "delete" ELSE "commit"
           run == Run(0, "remove", step, listing)
<1>1. listing \in Rows /\ Known(listing.id, store) /\ Told(listing) /\ listing # None
  BY ListingTyped
<1>2. /\ run \in RunRecords /\ run.job = 0 /\ run.kind = "remove" /\ run.step = step
      /\ run.now = listing /\ ~run.stale /\ ~run.gone /\ ~run.touched
  <2>1. 0 \in 0..MaxJobs
    BY ListingsAssumption
  <2> QED BY <1>1, <2>1, RunTyped DEF Exports
<1> HIDE DEF run
<1>3. RunFine(run, listing, store, shown, misled)
  BY <1>1, <1>2 DEF RunFine, Staged, Follows, Exported, There
<1> QED BY <1>2, <1>3 DEF run

LEMMA RemoveOnlineKeeps ==
    ASSUME IInv, NEW w \in Workers, RemoveOnline(w)
    PROVE  IInv'
<1> DEFINE step == IF listing.id # None /\ listing.state # "draft" THEN "delete" ELSE "commit"
           run == Run(0, "remove", step, listing)
<1>1. run.job = 0 /\ RunFine(run, listing, store, shown, misled)
  BY RemoveRun DEF RemoveOnline
<1>2. runs' = [runs EXCEPT ![w] = run] /\ runs[w] = None
  BY DEF RemoveOnline
<1>3. Bounded'
  BY ListingsAssumption DEF RemoveOnline, Asks, IInv, Bounded
<1> HIDE DEF run
<1> QED BY <1>1, <1>2, <1>3, RunBegins DEF RemoveOnline

(* A job changes its state, not being started before or after, or goes.    *)
LEMMA JobAside ==
    ASSUME IInv, NEW i \in Jobs, jobs[i] # None, jobs[i].state # "started",
           NEW job, jobs' = [jobs EXCEPT ![i] = job],
           \/ job = None /\ jobs[i].kind \notin Exports
           \/ job # None /\ job \in JobRows /\ job.kind = jobs[i].kind
                /\ job.product = jobs[i].product /\ job.state # "started"
    PROVE  /\ jobs' = [j \in Jobs |-> jobs'[j]]
           /\ \A j \in Jobs : JobFine(jobs'[j], listing, store, shown)
           /\ Started(jobs', runs)
           /\ ExportPending => \E j \in Jobs : jobs'[j] # None /\ jobs'[j].kind \in Exports
<1>1. jobs'[i] = job /\ \A j \in Jobs \ {i} : jobs'[j] = jobs[j]
  BY DEF IInv
<1>2. jobs' = [j \in Jobs |-> jobs'[j]]
  BY DEF IInv
<1>3. \A j \in Jobs : JobFine(jobs'[j], listing, store, shown)
  BY <1>1 DEF IInv, JobFine
<1>4. Started(jobs', runs)
  <2>1. Started(jobs, runs)
    BY DEF IInv
  <2>2. \A u \in Workers : runs[u] # None => (runs[u].job # 0 => runs[u].job \in Jobs /\ runs[u].job # i)
    BY <2>1, RunsTyped, ListingsAssumption DEF RunRecords, Jobs, Started
  <2>3. i # 0
    BY ListingsAssumption DEF Jobs
  <2> QED BY <1>1, <2>1, <2>2, <2>3 DEF Started
<1>5. ExportPending => \E j \in Jobs : jobs'[j] # None /\ jobs'[j].kind \in Exports
  BY <1>1 DEF ExportPending
<1> QED BY <1>2, <1>3, <1>4, <1>5

LEMMA RequeueKeeps ==
    ASSUME IInv, NEW i \in Jobs, Requeue(i)
    PROVE  IInv'
<1> DEFINE job == [jobs[i] EXCEPT !.state = "pending"]
<1>1. jobs[i] # None /\ jobs[i] \in JobRows /\ jobs[i].state # "started"
  BY DEF Requeue, IInv, JobFine
<1>2. /\ job \in JobRows /\ job.kind = jobs[i].kind /\ job.product = jobs[i].product
      /\ job.state # "started"
  BY <1>1 DEF JobRows
<1>3. job # None /\ jobs' = [jobs EXCEPT ![i] = job]
  BY <1>2, NoneIsNothing DEF Requeue
<1> HIDE DEF job
<1>4. /\ jobs' = [j \in Jobs |-> jobs'[j]]
      /\ \A j \in Jobs : JobFine(jobs'[j], listing, store, shown)
      /\ Started(jobs', runs)
      /\ ExportPending => \E j \in Jobs : jobs'[j] # None /\ jobs'[j].kind \in Exports
  BY <1>1, <1>2, <1>3, JobAside
<1>5. EditsAccounted'
  BY <1>4 DEF IInv, EditsAccounted, ExportPending, Requeue
<1>6. Bounded'
  BY ListingsAssumption DEF Requeue, Asks, IInv, Bounded
<1> QED BY <1>4, <1>5, <1>6 DEF IInv, Requeue

LEMMA GoneFailsKeeps ==
    ASSUME IInv, NEW i \in Jobs, GoneFails(i)
    PROVE  IInv'
<1>1. /\ jobs[i] # None /\ jobs[i].state # "started" /\ jobs[i].kind \notin Exports
      /\ jobs' = [jobs EXCEPT ![i] = None]
  BY DEF GoneFails, Exports
<1>2. /\ jobs' = [j \in Jobs |-> jobs'[j]]
      /\ \A j \in Jobs : JobFine(jobs'[j], listing, store, shown)
      /\ Started(jobs', runs)
      /\ ExportPending => \E j \in Jobs : jobs'[j] # None /\ jobs'[j].kind \in Exports
  BY <1>1, JobAside
<1>3. EditsAccounted'
  BY <1>2 DEF IInv, EditsAccounted, ExportPending, GoneFails
<1>4. Bounded'
  BY DEF GoneFails, IInv, Bounded, counts
<1> QED BY <1>2, <1>3, <1>4 DEF IInv, GoneFails

-----------------------------------------------------------------------------
(* What a transaction does, from call to call.                             *)

LEMMA ProductTyped ==
    ASSUME IInv, NEW p \in DOMAIN store, store[p] # None
    PROVE  /\ store[p] \in Products /\ p \in 1..MaxProducts
           /\ store[p].ids \in StoredIds /\ store[p].content \in Contents
           /\ DOMAIN store[p].ids \subseteq Variants /\ store[p].ids \in [DOMAIN store[p].ids -> Ids]
<1>1. store[p] \in Products /\ p \in 1..MaxProducts
  BY ListingsAssumption DEF IInv, StoreFine
<1> QED BY <1>1, IdMapsAre DEF Products

LEMMA RunParts ==
    ASSUME IInv, NEW w \in Workers, runs[w] # None
    PROVE  /\ runs[w] \in RunRecords /\ runs[w].now \in Rows /\ Known(runs[w].now.id, store)
           /\ Staged(runs[w]) /\ Told(runs[w].now) /\ Follows(runs[w], listing)
           /\ Exported(runs[w], shown, misled) /\ There(runs[w], store)
           /\ runs[w].remote \in StoredIds
BY DEF IInv, RunFine, RunRecords

(* The store with one product changed.                                     *)
LEMMA StoreChanged ==
    ASSUME IInv, NEW p \in DOMAIN store, NEW new \in Products \cup {None}, NEW seen2,
           shown \subseteq seen2, new # None => new.content \in seen2
    PROVE  LET st2 == [store EXCEPT ![p] = new]
           IN  /\ StoreFine(st2, seen2) /\ DOMAIN st2 = DOMAIN store
               /\ st2[p] = new /\ \A q \in DOMAIN store : q # p => st2[q] = store[q]
<1> DEFINE st2 == [store EXCEPT ![p] = new]
<1>1. store \in Seq(Products \cup {None}) /\ Len(store) <= MaxProducts
  BY DEF IInv, StoreFine
<1>2. /\ st2 \in Seq(Products \cup {None}) /\ Len(st2) = Len(store) /\ DOMAIN st2 = DOMAIN store
      /\ st2[p] = new /\ \A q \in DOMAIN store : q # p => st2[q] = store[q]
  BY <1>1
<1> HIDE DEF st2
<1>3. \A q \in DOMAIN st2 : st2[q] # None => st2[q].content \in seen2
  BY <1>2 DEF IInv, StoreFine
<1>4. StoreFine(st2, seen2)
  BY <1>1, <1>2, <1>3 DEF StoreFine
<1> QED BY <1>2, <1>4 DEF st2

(* A refused call leaves the transaction with an error, fine whatever the  *)
(* store has then.                                                         *)
LEMMA ErrorFine ==
    ASSUME IInv, NEW w \in Workers, runs[w] # None, runs[w].kind \in {"mapping", "update"},
           NEW st2, NEW seen2, NEW mis2, DOMAIN store \subseteq DOMAIN st2
    PROVE  LET run == WithError(runs[w])
           IN  run # None /\ run.job = runs[w].job /\ RunFine(run, listing, st2, seen2, mis2)
<1> DEFINE old == runs[w]
           run == WithError(old)
<1>1. /\ old \in RunRecords /\ Known(old.now.id, store)
      /\ Staged(old) /\ Told(old.now) /\ Follows(old, listing)
      /\ old.kind \in {"mapping", "update"} /\ old.now.id # None
  BY RunParts DEF Staged
<1>2. /\ run \in RunRecords /\ run.job = old.job /\ run.kind = old.kind
      /\ run.now.id = old.now.id /\ run.now.state = "error"
      /\ run.stale = old.stale /\ run.gone = old.gone
      /\ run.step = IF old.kind = "mapping" THEN "commit" ELSE "read"
  BY <1>1, ErrorTyped
<1> HIDE DEF run
<1>3. Staged(run) /\ Told(run.now) /\ Known(run.now.id, st2)
  BY <1>1, <1>2 DEF Staged, Told, Known
<1>4. Follows(run, listing)
  BY <1>1, <1>2 DEF Follows
<1>5. Exported(run, seen2, mis2) /\ There(run, st2)
  BY <1>1, <1>2 DEF Exported, There
<1>6. RunFine(run, listing, st2, seen2, mis2) /\ run # None
  BY <1>2, <1>3, <1>4, <1>5, NoneIsNothing DEF RunFine
<1> QED BY <1>2, <1>6 DEF run

LEMMA FetchKeeps ==
    ASSUME IInv, NEW w \in Workers, runs[w] # None, Fetch(w)
    PROVE  IInv'
<1> DEFINE old == runs[w]
<1>1. /\ old \in RunRecords /\ Known(old.now.id, store) /\ old.now \in Rows
      /\ Staged(old) /\ Told(old.now) /\ Follows(old, listing) /\ old.now.id # None
      /\ old.kind \in {"mapping", "update"}
  BY RunParts DEF Fetch, Staged
<1>2. Bounded'
  BY ListingsAssumption DEF Fetch, Refuse, Disturb, IInv, Bounded
<1>3. /\ listing' = listing /\ jobs' = jobs /\ store' = store /\ shown' = shown /\ misled' = misled
      /\ StoreFine(store', shown')
  BY DEF Fetch, IInv
<1>4. ASSUME NEW run, run # None, run.job = old.job, RunFine(run, listing, store, shown, misled),
             runs' = [runs EXCEPT ![w] = run]
      PROVE  IInv'
  BY <1>2, <1>3, <1>4, RunGoesOn
<1>5. CASE runs' = [runs EXCEPT ![w].step = "put"]
  <2> DEFINE run == [old EXCEPT !.step = "put"]
  <2>1. /\ run \in RunRecords /\ run.job = old.job /\ run.kind = old.kind /\ run.now = old.now
        /\ run.stale = old.stale /\ run.gone = old.gone /\ run.step = "put"
    BY <1>1 DEF RunRecords
  <2>2. runs' = [runs EXCEPT ![w] = run]
    BY <1>5
  <2> HIDE DEF run
  <2>3. RunFine(run, listing, store, shown, misled) /\ run # None
    BY <1>1, <2>1, NoneIsNothing DEF RunFine, Staged, Follows, Exported, There
  <2> QED BY <1>4, <2>1, <2>2, <2>3
<1>6. CASE runs' = [runs EXCEPT ![w] = WithError(runs[w])]
  BY <1>1, <1>4, <1>6, ErrorFine
<1> QED BY <1>5, <1>6 DEF Fetch

LEMMA OptionsExportedTyped ==
    ASSUME IInv, NEW p \in DOMAIN store, store[p] # None, NEW row \in Rows
    PROVE  OptionsExported(p, row) \in StoredIds
<1>1. Names(store[p]) \cap Names(row) \subseteq DOMAIN store[p].ids /\ store[p].ids \in StoredIds
  BY ProductTyped DEF Names
<1> QED BY <1>1, RestrictTyped DEF OptionsExported

LEMMA PutKeeps ==
    ASSUME IInv, NEW w \in Workers, runs[w] # None, Put(w)
    PROVE  IInv'
<1> DEFINE old == runs[w]
           p == old.now.id
           left == OptionsExported(p, old.now)
<1>1. /\ old \in RunRecords /\ old.now \in Rows /\ Known(p, store)
      /\ Staged(old) /\ Told(old.now) /\ Follows(old, listing) /\ old.now.id # None
      /\ old.kind \in {"mapping", "update"}
  BY RunParts DEF Put, Staged
<1>2. p \in DOMAIN store /\ old.now.content \in Contents
  BY <1>1, RowTyped DEF Known
<1>3. UNCHANGED <<listing, jobs, misled, contents, requests, imports>>
  BY DEF Put
<1>4. ASSUME Alive(p), NEW ids \in StoredIds, disturbed' \in Nat,
             store' = [store EXCEPT ![p] = Said(old.now, ids)],
             shown' = shown \cup {old.now.content},
             runs' = TouchedBy(w, p, [old EXCEPT !.step = "variants", !.remote = ids])
      PROVE  IInv'
  <2> DEFINE run == [old EXCEPT !.step = "variants", !.remote = ids]
             new == Said(old.now, ids)
  <2>1. /\ run \in RunRecords /\ run.job = old.job /\ run.kind = old.kind /\ run.now = old.now
        /\ run.stale = old.stale /\ run.gone = old.gone /\ run.step = "variants"
        /\ run.touched = old.touched /\ run.remote = ids
    BY <1>1, <1>4 DEF RunRecords
  <2>2. new \in Products /\ new.content = old.now.content /\ new.ids = ids /\ new # None
    <3>1. new \in Products /\ new.content = old.now.content /\ new.ids = ids
      BY <1>2, <1>4 DEF Said, Products
    <3> QED BY <3>1, NoneIsNothing
  <2> HIDE DEF new
  <2>3. PICK seen2 : seen2 = shown'
    OBVIOUS
  <2>4. /\ StoreFine(store', seen2) /\ DOMAIN store' = DOMAIN store
        /\ store'[p] = new /\ \A q \in DOMAIN store : q # p => store'[q] = store[q]
    BY <1>2, <1>4, <2>2, <2>3, StoreChanged DEF new
  <2> HIDE DEF run, p
  <2>5. RunFine(run, listing, store', shown', misled') /\ run # None
    <3>1. Staged(run) /\ Told(run.now) /\ Known(run.now.id, store') /\ Follows(run, listing)
      BY <1>1, <2>1, <2>4 DEF Staged, Told, Known, Follows, p
    <3>2. Exported(run, shown', misled')
      BY <1>1, <1>4, <2>1 DEF Exported
    <3>3. There(run, store')
      BY <1>1, <2>1, <2>2, <2>4 DEF There, p
    <3> QED BY <2>1, <3>1, <3>2, <3>3, NoneIsNothing DEF RunFine
  <2>6. Bounded'
    BY <1>2, <1>3, <1>4 DEF IInv, Bounded
  <2>7. runs' = TouchedBy(w, p, run)
    BY <1>4 DEF run
  <2>8. shown \subseteq shown' /\ (misled => misled') /\ StoreFine(store', shown')
    BY <1>3, <1>4, <2>3, <2>4
  <2> QED BY <1>3, <2>1, <2>4, <2>5, <2>6, <2>7, <2>8, RunGoesOn
<1>5. ASSUME Alive(p), disturbed' \in Nat, UNCHANGED shown,
             store' = [store EXCEPT ![p].ids = left],
             runs' = TouchedBy(w, p, WithError(old))
      PROVE  IInv'
  <2> DEFINE new == [store[p] EXCEPT !.ids = left]
             run == WithError(old)
  <2>1. store[p] # None /\ store[p] \in Products /\ left \in StoredIds
    BY <1>1, <1>2, <1>5, OptionsExportedTyped, ProductTyped DEF Alive
  <2>2. new \in Products /\ new.content = store[p].content /\ store' = [store EXCEPT ![p] = new]
    BY <1>5, <2>1 DEF Products
  <2>3. new.content \in shown
    BY <1>2, <2>1, <2>2 DEF IInv, StoreFine
  <2> HIDE DEF new
  <2>4. /\ StoreFine(store', shown) /\ DOMAIN store' = DOMAIN store
        /\ store'[p] = new /\ \A q \in DOMAIN store : q # p => store'[q] = store[q]
    BY <1>2, <2>2, <2>3, StoreChanged
  <2>5. PICK st2 : st2 = store'
    OBVIOUS
  <2>6. run # None /\ run.job = old.job /\ RunFine(run, listing, st2, shown, misled)
    BY <1>1, <2>4, <2>5, ErrorFine
  <2>7. Bounded'
    BY <1>3, <1>5 DEF IInv, Bounded
  <2> HIDE DEF run, p
  <2>8. /\ runs' = TouchedBy(w, p, run) /\ RunFine(run, listing, store', shown', misled')
        /\ shown \subseteq shown' /\ (misled => misled') /\ StoreFine(store', shown')
    BY <1>3, <1>5, <2>4, <2>5, <2>6 DEF run
  <2> QED BY <1>3, <2>4, <2>6, <2>7, <2>8, RunGoesOn
<1>6. ASSUME runs' = [runs EXCEPT ![w] = WithError(old)], UNCHANGED <<store, shown, disturbed>>
      PROVE  IInv'
  <2> DEFINE run == WithError(old)
  <2>1. run # None /\ run.job = old.job /\ RunFine(run, listing, store, shown, misled)
    BY <1>1, ErrorFine
  <2>2. Bounded'
    BY <1>3, <1>6 DEF IInv, Bounded
  <2> HIDE DEF run
  <2>3. runs' = [runs EXCEPT ![w] = run] /\ StoreFine(store', shown')
    BY <1>6 DEF IInv, run
  <2> QED BY <1>3, <1>6, <2>1, <2>2, <2>3, RunGoesOn
<1>7. disturbed' \in Nat
  BY ListingsAssumption DEF Put, Refuse, Disturb, IInv, Bounded
<1>8. Alive(p) => left \in StoredIds /\ store[p].ids \in StoredIds
  BY <1>1, <1>2, OptionsExportedTyped, ProductTyped DEF Alive
<1> QED BY <1>4, <1>5, <1>6, <1>7, <1>8 DEF Put

LEMMA PutVariantsKeeps ==
    ASSUME IInv, NEW w \in Workers, runs[w] # None, PutVariants(w)
    PROVE  IInv'
<1> DEFINE old == runs[w]
           p == old.now.id
<1>1. /\ old \in RunRecords /\ old.now \in Rows /\ Known(p, store) /\ old.step = "variants"
      /\ Staged(old) /\ Told(old.now) /\ Follows(old, listing) /\ old.now.id # None
      /\ old.kind \in {"mapping", "update"}
      /\ Exported(old, shown, misled) /\ There(old, store)
  BY RunParts DEF PutVariants, Staged
<1>2. p \in DOMAIN store
  BY <1>1 DEF Known
<1>3. UNCHANGED <<listing, jobs, misled, shown, contents, requests, imports>> /\ disturbed' \in Nat
  <2>1. UNCHANGED <<listing, jobs, misled, shown, contents, requests, imports>>
    BY DEF PutVariants
  <2>2. UNCHANGED disturbed \/ Refuse
    BY ZenonT(30) DEF PutVariants
  <2> QED BY <2>1, <2>2 DEF Refuse, Disturb, IInv, Bounded
<1>4. Bounded'
  BY <1>3 DEF IInv, Bounded
<1>5. /\ Saved(old) \in RunRecords /\ Saved(old).job = old.job /\ Saved(old).kind = old.kind
      /\ Saved(old).stale = old.stale /\ Saved(old).gone = old.gone /\ Saved(old).step = "read"
      /\ Saved(old).touched = old.touched
      /\ Saved(old).now \in Rows /\ Saved(old).now.id = p /\ Saved(old).now.content = old.now.content
      /\ Saved(old).now.state = "published"
  BY <1>1 DEF Saved, RunRecords, Rows
(* What the transaction is afterwards is fine if the store still has the   *)
(* content.                                                                *)
<1>6. ASSUME NEW run \in RunRecords, run.job = old.job, run.kind = old.kind,
             run.stale = old.stale, run.gone = old.gone, run.step = "read",
             run.touched = old.touched, run.now.id = p, run.now.content = old.now.content,
             run.now.state = "published",
             NEW st2, DOMAIN st2 = DOMAIN store,
             ~old.touched => st2[p] # None /\ st2[p].content = store[p].content
      PROVE  RunFine(run, listing, st2, shown, misled) /\ run # None
  <2>1. Staged(run) /\ Told(run.now) /\ Known(run.now.id, st2) /\ Follows(run, listing)
    BY <1>1, <1>6 DEF Staged, Told, Known, Follows
  <2>2. Exported(run, shown, misled)
    BY <1>1, <1>6 DEF Exported
  <2>3. There(run, st2)
    BY <1>1, <1>6 DEF There
  <2> QED BY <1>6, <2>1, <2>2, <2>3, NoneIsNothing DEF RunFine
<1>7. CASE ~Alive(p) /\ runs' = [runs EXCEPT ![w] = Saved(old)] /\ store' = store
  <2>1. old.touched
    BY <1>1, <1>7 DEF There, Alive
  <2> DEFINE run == Saved(old)
  <2>2. RunFine(run, listing, store, shown, misled) /\ run # None
    BY <1>5, <1>6, <2>1
  <2>3. StoreFine(store', shown')
    BY <1>3, <1>7 DEF IInv
  <2> HIDE DEF run
  <2>4. runs' = [runs EXCEPT ![w] = run] /\ run.job = old.job
    BY <1>5, <1>7 DEF run
  <2> QED BY <1>3, <1>4, <1>7, <2>2, <2>3, <2>4, RunGoesOn
<1>8. ASSUME Alive(p), NEW ids \in StoredIds, NEW known \in IdMaps,
             store' = [store EXCEPT ![p].ids = ids],
             runs' = TouchedBy(w, p, [Saved(old) EXCEPT !.now.ids = known])
      PROVE  IInv'
  <2> DEFINE new == [store[p] EXCEPT !.ids = ids]
             run == [Saved(old) EXCEPT !.now.ids = known]
  <2>1. store[p] # None /\ store[p] \in Products
    BY <1>2, <1>8, ProductTyped DEF Alive
  <2>2. new \in Products /\ new.content = store[p].content /\ store' = [store EXCEPT ![p] = new]
    BY <1>8, <2>1 DEF Products
  <2>3. new.content \in shown /\ new # None
    BY <1>2, <2>1, <2>2, NoneIsNothing DEF IInv, StoreFine
  <2> HIDE DEF new
  <2>4. /\ StoreFine(store', shown) /\ DOMAIN store' = DOMAIN store
        /\ store'[p] = new /\ \A q \in DOMAIN store : q # p => store'[q] = store[q]
    BY <1>2, <2>2, <2>3, StoreChanged
  <2>5. /\ run \in RunRecords /\ run.job = old.job /\ run.kind = old.kind
        /\ run.stale = old.stale /\ run.gone = old.gone /\ run.step = "read"
        /\ run.touched = old.touched /\ run.now.id = p /\ run.now.content = old.now.content
        /\ run.now.state = "published"
    BY <1>5, <1>8 DEF RunRecords, Rows
  <2> HIDE DEF run
  <2>6. PICK st2 : st2 = store'
    OBVIOUS
  <2>7. RunFine(run, listing, st2, shown, misled) /\ run # None
    BY <1>6, <2>2, <2>3, <2>4, <2>5, <2>6
  <2> HIDE DEF p
  <2>8. /\ runs' = TouchedBy(w, p, run) /\ RunFine(run, listing, store', shown', misled')
        /\ StoreFine(store', shown')
    BY <1>3, <1>8, <2>4, <2>6, <2>7 DEF run
  <2> QED BY <1>3, <1>4, <2>4, <2>5, <2>7, <2>8, RunGoesOn
<1>9. ASSUME Alive(p)
      PROVE  \A kept \in SUBSET DOMAIN store[p].ids, new \in SUBSET Variants :
               CanNumber(new) =>
                 /\ Joined(NewIds(new), Restrict(store[p].ids, kept)) \in StoredIds
                 /\ [v \in Names(old.now) |-> IF v \in DOMAIN NewIds(new) THEN NewIds(new)[v]
                                              ELSE old.now.ids[v]] \in IdMaps
  <2> SUFFICES ASSUME NEW kept \in SUBSET DOMAIN store[p].ids, NEW new \in SUBSET Variants, CanNumber(new)
               PROVE  /\ Joined(NewIds(new), Restrict(store[p].ids, kept)) \in StoredIds
                      /\ [v \in Names(old.now) |-> IF v \in DOMAIN NewIds(new) THEN NewIds(new)[v]
                                                   ELSE old.now.ids[v]] \in IdMaps
    OBVIOUS
  <2>1. store[p].ids \in StoredIds
    BY <1>2, <1>9, ProductTyped DEF Alive
  <2>2. NewIds(new) \in StoredIds /\ NewIds(new) \in [new -> Ids]
    BY NewIdsTyped DEF StoredIds
  <2>3. Names(old.now) \subseteq Variants /\ old.now.ids \in [Names(old.now) -> Ids \cup {None}]
    BY <1>1, RowTyped
  <2>4. [v \in Names(old.now) |-> IF v \in DOMAIN NewIds(new) THEN NewIds(new)[v]
                                  ELSE old.now.ids[v]] \in [Names(old.now) -> Ids \cup {None}]
    BY <2>2, <2>3
  <2>5. Joined(NewIds(new), Restrict(store[p].ids, kept)) \in StoredIds
    BY <2>1, <2>2, RestrictTyped, JoinedTyped
  <2> QED BY <2>3, <2>4, <2>5 DEF IdMaps
<1>10. CASE Alive(p)
  <2> DEFINE unknown == {v \in DOMAIN old.remote : old.remote[v] \notin IdsIn(old.now)}
             missing == {v \in Names(old.now) : old.now.ids[v] \notin Range(old.remote)}
  <2>1. PICK refused \in SUBSET (unknown \cup missing) :
          LET ids == store[p].ids
              kept == {v \in DOMAIN ids : ids[v] \notin {old.remote[u] : u \in unknown \ refused}}
              posted == NewIds(missing \ (refused \cup kept))
          IN  /\ CanNumber(missing \ (refused \cup kept))
              /\ store' = [store EXCEPT ![p].ids = Joined(posted, Restrict(ids, kept))]
              /\ runs' = TouchedBy(w, p, [Saved(old) EXCEPT
                     !.now.ids = [v \in Names(old.now) |->
                         IF v \in DOMAIN posted THEN posted[v] ELSE old.now.ids[v]]])
    BY <1>10 DEF PutVariants
  <2> DEFINE kept == {v \in DOMAIN store[p].ids : store[p].ids[v] \notin {old.remote[u] : u \in unknown \ refused}}
             new == missing \ (refused \cup kept)
  <2>2. kept \in SUBSET DOMAIN store[p].ids /\ new \in SUBSET Variants /\ CanNumber(new)
    BY <1>1, <2>1, RowTyped
  <2>3. /\ Joined(NewIds(new), Restrict(store[p].ids, kept)) \in StoredIds
        /\ [v \in Names(old.now) |-> IF v \in DOMAIN NewIds(new) THEN NewIds(new)[v]
                                     ELSE old.now.ids[v]] \in IdMaps
    BY <1>9, <1>10, <2>2
  <2>4. /\ store' = [store EXCEPT ![p].ids = Joined(NewIds(new), Restrict(store[p].ids, kept))]
        /\ runs' = TouchedBy(w, p, [Saved(old) EXCEPT
               !.now.ids = [v \in Names(old.now) |->
                   IF v \in DOMAIN NewIds(new) THEN NewIds(new)[v] ELSE old.now.ids[v]]])
    BY <2>1
  <2> HIDE DEF kept, new
  <2> QED BY <1>8, <1>10, <2>3, <2>4
<1> QED BY <1>7, <1>10 DEF PutVariants

LEMMA ReadKeeps ==
    ASSUME IInv, NEW w \in Workers, runs[w] # None, Read(w)
    PROVE  IInv'
<1> DEFINE old == runs[w]
           p == old.now.id
           ids == store[p].ids
<1>1. /\ old \in RunRecords /\ old.now \in Rows /\ Known(p, store) /\ old.step = "read"
      /\ Staged(old) /\ Told(old.now) /\ Follows(old, listing) /\ old.now.id # None
      /\ old.kind \in {"mapping", "update"}
      /\ Exported(old, shown, misled) /\ There(old, store)
  BY RunParts DEF Read, Staged
<1>2. p \in DOMAIN store
  BY <1>1 DEF Known
<1>3. UNCHANGED <<listing, store, misled, shown, contents, requests, imports>> /\ disturbed' \in Nat
  BY ListingsAssumption DEF Read, Refuse, Disturb, IInv, Bounded
<1>4. Bounded' /\ StoreFine(store', shown')
  BY <1>3 DEF IInv, Bounded
<1>5. ASSUME NEW run \in RunRecords, run.job = old.job, run.kind = old.kind,
             run.stale = old.stale, run.gone = old.gone, run.step = "commit",
             run.touched = old.touched, run.now.id = p, run.now.content = old.now.content,
             \/ run.now.state = "error"
             \/ /\ run.now.state = old.now.state
                /\ run.now.ids = ids,
             runs' = [runs EXCEPT ![w] = run], jobs' = jobs
      PROVE  IInv'
  <2>1. Staged(run) /\ Told(run.now) /\ Known(run.now.id, store) /\ Follows(run, listing)
    BY <1>1, <1>5 DEF Staged, Told, Known, Follows
  <2>2. Exported(run, shown, misled)
    BY <1>1, <1>5 DEF Exported
  <2>3. There(run, store)
    BY <1>1, <1>5 DEF There
  <2>4. RunFine(run, listing, store, shown, misled) /\ run # None
    BY <1>5, <2>1, <2>2, <2>3, NoneIsNothing DEF RunFine
  <2> QED BY <1>3, <1>4, <1>5, <2>4, RunGoesOn
<1>6. ASSUME Alive(p), jobs' = jobs,
             runs' = [runs EXCEPT ![w] = [old EXCEPT !.now = Learnt(old.now, ids, old.kind), !.step = "commit"]]
      PROVE  IInv'
  <2> DEFINE row == Learnt(old.now, ids, old.kind)
             run == [old EXCEPT !.now = row, !.step = "commit"]
  <2>1. ids \in IdMaps
    BY <1>2, <1>6, ProductTyped, IdMapsAre DEF Alive
  <2>2. /\ row \in Rows /\ row.id = p /\ row.content = old.now.content /\ row.ids = ids
        /\ row.state = IF old.kind = "mapping" THEN "published" ELSE old.now.state
    BY <1>1, <2>1 DEF Learnt, Rows
  <2>3. row.state = old.now.state
    BY <1>1, <2>2 DEF Exported
  <2> HIDE DEF row
  <2>4. /\ run \in RunRecords /\ run.job = old.job /\ run.kind = old.kind
        /\ run.stale = old.stale /\ run.gone = old.gone /\ run.step = "commit"
        /\ run.touched = old.touched /\ run.now = row
    BY <1>1, <2>2 DEF RunRecords
  <2>5. runs' = [runs EXCEPT ![w] = run]
    BY <1>6 DEF row
  <2> HIDE DEF run
  <2> QED BY <1>5, <1>6, <2>2, <2>3, <2>4, <2>5
<1>7. ASSUME jobs' = jobs,
             runs' = [runs EXCEPT ![w] = [old EXCEPT !.now.state = "error", !.step = "commit"]]
      PROVE  IInv'
  <2> DEFINE run == [old EXCEPT !.now.state = "error", !.step = "commit"]
  <2>1. /\ run \in RunRecords /\ run.job = old.job /\ run.kind = old.kind
        /\ run.stale = old.stale /\ run.gone = old.gone /\ run.step = "commit"
        /\ run.touched = old.touched /\ run.now.id = p /\ run.now.content = old.now.content
        /\ run.now.state = "error"
    BY <1>1 DEF RunRecords, Rows
  <2>2. runs' = [runs EXCEPT ![w] = run]
    BY <1>7
  <2> HIDE DEF run
  <2> QED BY <1>5, <1>7, <2>1, <2>2
<1>8. CASE Raises(w)
  BY <1>3, <1>4, <1>8, RunEnds DEF Raises
<1> QED BY <1>6, <1>7, <1>8 DEF Read

LEMMA PostKeeps ==
    ASSUME IInv, NEW w \in Workers, runs[w] # None, Post(w)
    PROVE  IInv'
<1> DEFINE old == runs[w]
           ids == NewIds(Names(old.now))
           new == Said(old.now, ids)
<1>1. /\ old \in RunRecords /\ old.now \in Rows /\ Known(old.now.id, store) /\ old.step = "post"
      /\ Staged(old) /\ Told(old.now) /\ Follows(old, listing) /\ old.kind = "create"
      /\ Names(old.now) \in SUBSET Variants /\ old.now.content \in Contents
  BY RunParts, RowTyped DEF Post, Staged
<1>2. UNCHANGED <<listing, jobs, contents, requests, imports>> /\ disturbed' \in Nat
  BY ListingsAssumption DEF Post, Refuse, Disturb, IInv, Bounded
<1>3. ASSUME NEW run \in RunRecords, run.job = old.job, run.kind = "create",
             run.stale = old.stale, run.gone = old.gone,
             Known(run.now.id, store'), Told(run.now), old.now.id # None => run.now.id # None,
             \/ run.step = "drop"
             \/ run.step = "commit" /\ (misled' \/ run.now.content \in shown')
      PROVE  RunFine(run, listing, store', shown', misled') /\ run # None
  <2>1. Staged(run) /\ Follows(run, listing)
    BY <1>1, <1>3 DEF Staged, Follows
  <2>2. Exported(run, shown', misled') /\ There(run, store')
    BY <1>3 DEF Exported, There
  <2> QED BY <1>3, <2>1, <2>2, NoneIsNothing DEF RunFine
<1>4. ASSUME Len(store) < MaxProducts, CanNumber(Names(old.now)),
             store' = Append(store, new), shown' = shown \cup {new.content}, UNCHANGED misled,
             runs' = [runs EXCEPT ![w] = [old EXCEPT !.step = "commit", !.now =
                 [old.now EXCEPT !.id = Len(store'), !.ids = new.ids, !.state = "published"]]]
      PROVE  IInv'
  <2>1. ids \in StoredIds /\ ids \in IdMaps
    BY <1>1, <1>4, NewIdsTyped DEF StoredIds, IdMaps
  <2> HIDE DEF ids
  <2>2. new \in Products /\ new.content = old.now.content /\ new.ids = ids
    BY <1>1, <2>1 DEF Said, Products
  <2> HIDE DEF new
  <2>3. /\ store \in Seq(Products \cup {None}) /\ store' \in Seq(Products \cup {None})
        /\ Len(store') = Len(store) + 1 /\ Len(store') \in 1..MaxProducts
        /\ DOMAIN store' = 1..Len(store') /\ DOMAIN store \subseteq DOMAIN store'
        /\ store'[Len(store')] = new /\ \A q \in DOMAIN store : store'[q] = store[q]
        /\ DOMAIN store' = DOMAIN store \cup {Len(store')}
    BY <1>4, <2>2, ListingsAssumption DEF IInv, StoreFine
  <2>4. StoreFine(store', shown')
    <3>1. \A q \in DOMAIN store' : store'[q] # None => store'[q].content \in shown'
      BY <1>4, <2>3 DEF IInv, StoreFine
    <3> QED BY <2>3, <3>1 DEF StoreFine
  <2> DEFINE row == [old.now EXCEPT !.id = Len(store'), !.ids = new.ids, !.state = "published"]
             run == [old EXCEPT !.step = "commit", !.now = row]
  <2>5. /\ row \in Rows /\ row.id = Len(store') /\ row.content = old.now.content
        /\ row.state = "published" /\ row.id # None
    <3>1. PICK n : n = Len(store')
      OBVIOUS
    <3>2. n \in 1..MaxProducts /\ n # None /\ new.ids \in IdMaps
      BY <2>1, <2>2, <2>3, <3>1, NoneIsNothing, ListingsAssumption
    <3>3. row = [old.now EXCEPT !.id = n, !.ids = new.ids, !.state = "published"]
      BY <3>1
    <3> HIDE DEF row
    <3> QED BY <1>1, <3>1, <3>2, <3>3 DEF Rows
  <2> HIDE DEF row
  <2>6. /\ run \in RunRecords /\ run.job = old.job /\ run.kind = old.kind
        /\ run.stale = old.stale /\ run.gone = old.gone /\ run.step = "commit" /\ run.now = row
    BY <1>1, <2>5 DEF RunRecords
  <2>7. runs' = [runs EXCEPT ![w] = run]
    BY <1>4 DEF row
  <2> HIDE DEF run
  <2>8. Known(run.now.id, store') /\ Told(run.now) /\ run.now.content \in shown'
    BY <1>4, <2>2, <2>3, <2>5, <2>6 DEF Known, Told
  <2>9. RunFine(run, listing, store', shown', misled') /\ run # None
    BY <1>1, <1>3, <2>5, <2>6, <2>8
  <2>10. Bounded'
    BY <1>1, <1>2, <1>4, <2>2 DEF IInv, Bounded
  <2>11. shown \subseteq shown' /\ (misled => misled')
    BY <1>4
  <2> QED BY <1>2, <2>3, <2>4, <2>6, <2>7, <2>9, <2>10, <2>11, RunGoesOn
<1>5. ASSUME UNCHANGED <<store, shown>>, misled' = (misled \/ old.now.id # None),
             runs' = [runs EXCEPT ![w] =
                 IF old.now.id = None THEN [old EXCEPT !.step = "drop"]
                 ELSE [old EXCEPT !.step = "commit", !.now.state = "published"]]
      PROVE  IInv'
  <2> DEFINE run == IF old.now.id = None THEN [old EXCEPT !.step = "drop"]
                    ELSE [old EXCEPT !.step = "commit", !.now.state = "published"]
  <2>1. /\ run \in RunRecords /\ run.job = old.job /\ run.kind = old.kind
        /\ run.stale = old.stale /\ run.gone = old.gone
        /\ run.now.id = old.now.id
        /\ old.now.id = None => run.step = "drop" /\ run.now = old.now
        /\ old.now.id # None => run.step = "commit" /\ run.now.state = "published"
    BY <1>1 DEF RunRecords, Rows
  <2>2. runs' = [runs EXCEPT ![w] = run]
    BY <1>5
  <2> HIDE DEF run
  <2>3. Known(run.now.id, store') /\ Told(run.now) /\ (old.now.id # None => misled')
    BY <1>1, <1>5, <2>1 DEF Known, Told
  <2>4. RunFine(run, listing, store', shown', misled') /\ run # None
    BY <1>1, <1>3, <2>1, <2>3
  <2>5. Bounded' /\ StoreFine(store', shown') /\ (misled => misled')
    BY <1>2, <1>5 DEF IInv, Bounded
  <2> QED BY <1>2, <1>5, <2>1, <2>2, <2>4, <2>5, RunGoesOn
<1> QED BY <1>4, <1>5 DEF Post

LEMMA DeleteKeeps ==
    ASSUME IInv, NEW w \in Workers, runs[w] # None, Delete(w)
    PROVE  IInv'
<1> DEFINE old == runs[w]
           p == old.now.id
           run == [old EXCEPT !.step = "commit"]
<1>1. /\ old \in RunRecords /\ Known(p, store) /\ old.step = "delete"
      /\ Staged(old) /\ Told(old.now) /\ Follows(old, listing) /\ old.kind = "remove" /\ p # None
  BY RunParts DEF Delete, Staged
<1>2. p \in DOMAIN store
  BY <1>1 DEF Known
<1>3. UNCHANGED <<listing, jobs, shown, misled, contents, requests, imports>> /\ disturbed' \in Nat
  BY ListingsAssumption DEF Delete, Refuse, Disturb, IInv, Bounded
<1>4. Bounded'
  BY <1>3 DEF IInv, Bounded
<1>5. /\ run \in RunRecords /\ run.job = old.job /\ run.kind = "remove" /\ run.now = old.now
      /\ run.stale = old.stale /\ run.gone = old.gone /\ run.step = "commit"
  BY <1>1 DEF RunRecords
<1>6. \/ runs' = [runs EXCEPT ![w] = run] /\ store' = store
      \/ runs' = TouchedBy(w, p, run) /\ store' = [store EXCEPT ![p] = None]
  BY DEF Delete
<1> HIDE DEF run
<1>7. DOMAIN store' = DOMAIN store /\ StoreFine(store', shown')
      /\ \A q \in DOMAIN store : q # p => store'[q] = store[q]
  <2>1. CASE store' = store
    BY <1>3, <2>1 DEF IInv
  <2>2. CASE store' = [store EXCEPT ![p] = None]
    <3> HIDE DEF p
    <3> QED BY <1>2, <1>3, <2>2, StoreChanged
  <2> QED BY <1>6, <2>1, <2>2
<1>8. RunFine(run, listing, store', shown', misled') /\ run # None
  <2>1. Staged(run) /\ Told(run.now) /\ Known(run.now.id, store') /\ Follows(run, listing)
    BY <1>1, <1>5, <1>7 DEF Staged, Told, Known, Follows
  <2>2. Exported(run, shown', misled') /\ There(run, store')
    BY <1>5 DEF Exported, There
  <2> QED BY <1>5, <2>1, <2>2, NoneIsNothing DEF RunFine
<1> HIDE DEF p
<1> QED BY <1>3, <1>4, <1>5, <1>6, <1>7, <1>8, RunGoesOn

LEMMA DiesKeeps ==
    ASSUME IInv, NEW w \in Workers, Dies(w) \/ Fails(w)
    PROVE  IInv'
<1>1. Bounded'
  BY ListingsAssumption DEF Dies, Fails, Disturb, IInv, Bounded
<1> QED BY <1>1, RunEnds DEF Dies, Fails, Raises

LEMMA StartKeeps ==
    ASSUME IInv, NEW i \in Jobs, NEW w \in Workers, Start(i, w)
    PROVE  IInv'
<1> DEFINE kind == jobs[i].kind
           run == Run(i, kind, FirstStep(kind), listing)
           job == [jobs[i] EXCEPT !.state = "started"]
<1>1. /\ jobs[i] # None /\ jobs[i] \in JobRows /\ kind \in Exports /\ jobs[i].state = "pending"
      /\ listing # None /\ (kind \in {"mapping", "update"} => listing.id # None) /\ runs[w] = None
  BY DEF Start, IInv, JobFine
<1>2. listing \in Rows /\ Known(listing.id, store) /\ Told(listing)
  BY <1>1, ListingTyped
<1>3. /\ run \in RunRecords /\ run.job = i /\ run.kind = kind /\ run.step = FirstStep(kind)
      /\ run.now = listing /\ ~run.stale /\ ~run.gone /\ ~run.touched
  <2>1. i \in 0..MaxJobs /\ FirstStep(kind) \in {"fetch", "post"}
    BY ListingsAssumption DEF Jobs, FirstStep
  <2> HIDE DEF kind
  <2> QED BY <1>1, <1>2, <2>1, RunTyped
<1>4. job \in JobRows /\ job.kind = kind /\ job.state = "started" /\ job # None
  <2>1. job \in JobRows /\ job.kind = kind /\ job.state = "started"
    BY <1>1 DEF JobRows
  <2> QED BY <2>1, NoneIsNothing
<1>5. runs' = [runs EXCEPT ![w] = run] /\ jobs' = [jobs EXCEPT ![i] = job]
  BY DEF Start
<1> HIDE DEF run, job, kind
<1>6. /\ runs'[w] = run /\ \A u \in Workers \ {w} : runs'[u] = runs[u]
      /\ jobs'[i] = job /\ \A j \in Jobs \ {i} : jobs'[j] = jobs[j]
      /\ runs' = [u \in Workers |-> runs'[u]] /\ jobs' = [j \in Jobs |-> jobs'[j]]
  BY <1>5 DEF IInv
<1>7. RunFine(run, listing, store, shown, misled) /\ run # None
  <2>1. Staged(run) /\ Told(run.now) /\ Follows(run, listing)
    BY <1>1, <1>2, <1>3 DEF Staged, Follows, FirstStep, Exports
  <2>2. Exported(run, shown, misled) /\ There(run, store)
    BY <1>3 DEF Exported, There, FirstStep
  <2> QED BY <1>2, <1>3, <2>1, <2>2, NoneIsNothing DEF RunFine
<1>8. JobFine(job, listing, store, shown)
  BY <1>1, <1>4 DEF JobFine, Exports
<1>9. Started(jobs', runs')
  <2>1. Started(jobs, runs) /\ i # 0
    BY ListingsAssumption DEF IInv, Jobs
  <2>2. \A u \in Workers : runs[u] # None => runs[u].job # i
    BY <1>1, <2>1 DEF Started
  <2>3. \A u \in Workers : runs[u] # None => (runs[u].job # 0 => runs[u].job \in Jobs)
    BY RunsTyped, ListingsAssumption DEF RunRecords, Jobs
  <2>4. \A j \in Jobs : jobs'[j] # None =>
          ((jobs'[j].state = "started") <=> (\E u \in Workers : runs'[u] # None /\ runs'[u].job = j))
    <3> SUFFICES ASSUME NEW j \in Jobs, jobs'[j] # None
                 PROVE  (jobs'[j].state = "started") <=> (\E u \in Workers : runs'[u] # None /\ runs'[u].job = j)
      OBVIOUS
    <3>1. CASE j = i
      BY <1>3, <1>4, <1>6, <1>7, <3>1
    <3>2. CASE j # i
      BY <1>1, <1>3, <1>6, <2>1, <3>2 DEF Started
    <3> QED BY <3>1, <3>2
  <2>5. \A u \in Workers : runs'[u] # None =>
          /\ runs'[u].job # 0 => jobs'[runs'[u].job] # None
          /\ \A v \in Workers \ {u} : runs'[v] # None /\ runs'[v].job = runs'[u].job => runs'[u].job = 0
    BY <1>3, <1>4, <1>6, <2>1, <2>2, <2>3 DEF Started
  <2> QED BY <2>4, <2>5 DEF Started
<1>10. EditsAccounted'
  BY <1>1, <1>4, <1>6 DEF EditsAccounted, ExportPending
<1>11. Bounded'
  BY DEF Start, IInv, Bounded, counts
<1>12. /\ \A j \in Jobs : JobFine(jobs'[j], listing, store, shown)
       /\ \A u \in Workers : RunFine(runs'[u], listing, store, shown, misled)
  BY <1>6, <1>7, <1>8 DEF IInv
<1> QED BY <1>6, <1>9, <1>10, <1>11, <1>12 DEF IInv, Start

-----------------------------------------------------------------------------
(* The end of a transaction.                                               *)

LEMMA AgainFine ==
    ASSUME IInv, NEW w \in Workers, runs[w] # None
    PROVE  \/ Again(w) = None
           \/ /\ Again(w) \in RunRecords /\ Again(w).job = 0
              /\ RunFine(Again(w), listing, store, shown, misled)
<1> DEFINE old == runs[w]
<1>1. old \in RunRecords /\ Follows(old, listing) /\ old.now \in Rows
  BY RunParts
<1>2. CASE old.kind = "remove" /\ ~old.gone
  BY <1>1, <1>2, RemoveRun DEF Again, Follows
<1>3. CASE old.kind = "mapping" /\ ~old.gone
  BY <1>1, <1>3, MappingRun DEF Again, Follows
<1>4. CASE /\ old.kind \in {"create", "update"}
           /\ listing # None => Names(listing) \subseteq Names(old.now)
           /\ NoneBeingMade(Workers \ {w})
  BY <1>1, <1>4, MasterRun, RowTyped DEF Again
<1> QED BY <1>2, <1>3, <1>4 DEF Again

LEMMA CommitStale ==
    ASSUME IInv, NEW w \in Workers, runs[w] # None, Commit(w), runs[w].stale
    PROVE  IInv'
<1>1. /\ runs' = [runs EXCEPT ![w] = IF runs[w].job = 0 THEN Again(w) ELSE None]
      /\ jobs' = JobAfter(w, "pending")
      /\ UNCHANGED <<listing, store, counts, shown, misled>>
  BY DEF Commit
<1>2. Bounded'
  BY <1>1 DEF IInv, Bounded, counts
<1>3. CASE runs' = [runs EXCEPT ![w] = None]
  BY <1>1, <1>2, <1>3, RunEnds
<1>4. CASE runs' # [runs EXCEPT ![w] = None]
  <2>1. runs[w].job = 0 /\ Again(w) # None /\ runs' = [runs EXCEPT ![w] = Again(w)]
    BY <1>1, <1>4
  <2>2. jobs' = jobs
    BY <1>1, <2>1 DEF JobAfter
  <2> DEFINE run == Again(w)
  <2>3. run.job = 0 /\ RunFine(run, listing, store, shown, misled)
    BY <2>1, AgainFine
  <2>4. StoreFine(store', shown')
    BY <1>1 DEF IInv
  <2> HIDE DEF run
  <2>5. runs' = [runs EXCEPT ![w] = run] /\ run # None
    BY <2>1 DEF run
  <2> QED BY <1>1, <1>2, <2>1, <2>2, <2>3, <2>4, <2>5, RunGoesOn
<1> QED BY <1>3, <1>4

LEMMA CommitWrites ==
    ASSUME IInv, NEW w \in Workers, runs[w] # None, Commit(w), ~runs[w].stale,
           runs[w].step # "drop", runs[w].kind # "remove"
    PROVE  IInv'
<1> DEFINE old == runs[w]
           row == old.now
           js == JobAfter(w, "done")
           rs == [Overtaken EXCEPT ![w] = None]
<1>1. /\ listing' = row /\ runs' = rs /\ jobs' = js
      /\ UNCHANGED <<store, counts, shown, misled>> /\ old.step = "commit"
  BY DEF Commit
<1>2. /\ row \in Rows /\ Known(row.id, store) /\ Told(row) /\ row # None
      /\ Follows(old, listing) /\ Exported(old, shown, misled)
  BY RunParts, NoneIsNothing
<1>3. Bounded'
  BY <1>1 DEF IInv, Bounded, counts
<1>4. listing # None => row # None /\ (listing.id # None => row.id # None)
  BY <1>2 DEF Follows
<1> HIDE DEF row
<1>5. \A u \in Workers : /\ RunFine(Overtaken[u], row, store, shown, misled)
                         /\ Overtaken[u] = None <=> runs[u] = None
                         /\ runs[u] # None => Overtaken[u].job = runs[u].job
  BY <1>4, OvertakenFine
<1>6. /\ rs = [u \in Workers |-> rs[u]] /\ rs[w] = None
      /\ \A u \in Workers \ {w} : rs[u] = Overtaken[u]
  BY DEF Overtaken
<1> HIDE DEF rs
<1>7. \A u \in Workers : RunFine(rs[u], row, store, shown, misled)
  <2>1. RunFine(None, row, store, shown, misled)
    BY DEF RunFine
  <2> QED BY <1>5, <1>6, <2>1
<1>8. Started(js, rs)
  BY <1>5, <1>6, StartedEnds
<1>9. js = [j \in Jobs |-> js[j]] /\ \A j \in Jobs : JobFine(js[j], row, store, shown)
  <2>1. \A j \in Jobs : /\ JobFine(jobs[j], listing, store, shown)
                        /\ js[j] # None => /\ jobs[j] # None /\ js[j] \in JobRows
                                           /\ js[j].kind = jobs[j].kind /\ js[j].product = jobs[j].product
    BY JobAfterFine DEF IInv
  <2>2. js = [j \in Jobs |-> js[j]]
    BY JobAfterFine
  <2> HIDE DEF js
  <2> QED BY <1>2, <1>4, <2>1, <2>2 DEF JobFine, Exports
<1> HIDE DEF js
<1>10. EditsAccounted'
  BY <1>1, <1>2 DEF EditsAccounted, Exported, row
<1>11. RowFine(listing', store') /\ StoreFine(store', shown')
  BY <1>1, <1>2 DEF RowFine, IInv
<1>12. /\ \A u \in Workers : RunFine(runs'[u], listing', store', shown', misled')
       /\ \A j \in Jobs : JobFine(jobs'[j], listing', store', shown')
       /\ Started(jobs', runs') /\ runs' = [u \in Workers |-> runs'[u]] /\ jobs' = [j \in Jobs |-> jobs'[j]]
  BY <1>1, <1>6, <1>7, <1>8, <1>9
<1> QED BY <1>3, <1>10, <1>11, <1>12 DEF IInv

LEMMA CommitRemoves ==
    ASSUME IInv, NEW w \in Workers, runs[w] # None, Commit(w), ~runs[w].stale,
           runs[w].step = "drop" \/ runs[w].kind = "remove"
    PROVE  IInv'
<1> DEFINE js == JobAfter(w, "done")
           rs == [Orphaned EXCEPT ![w] = None]
<1>1. /\ listing' = None /\ runs' = rs /\ jobs' = Unlinked(js)
      /\ UNCHANGED <<store, counts, shown, misled>>
  BY DEF Commit
<1>2. Bounded'
  BY <1>1 DEF IInv, Bounded, counts
<1>3. \A u \in Workers : /\ RunFine(Orphaned[u], None, store, shown, misled)
                         /\ Orphaned[u] = None <=> runs[u] = None
                         /\ runs[u] # None => Orphaned[u].job = runs[u].job
  BY OrphanedFine
<1>4. /\ rs = [u \in Workers |-> rs[u]] /\ rs[w] = None
      /\ \A u \in Workers \ {w} : rs[u] = Orphaned[u]
  BY DEF Orphaned
<1> HIDE DEF rs
<1>5. \A u \in Workers : RunFine(rs[u], None, store, shown, misled)
  <2>1. RunFine(None, None, store, shown, misled)
    BY DEF RunFine
  <2> QED BY <1>3, <1>4, <2>1
<1>6. Started(js, rs)
  BY <1>3, <1>4, StartedEnds
<1>7. \A j \in Jobs : /\ JobFine(jobs[j], listing, store, shown)
                      /\ js[j] # None => /\ jobs[j] # None /\ js[j] \in JobRows
                                         /\ js[j].kind = jobs[j].kind /\ js[j].product = jobs[j].product
  BY JobAfterFine DEF IInv
<1> HIDE DEF js
<1>8. \A j \in Jobs : /\ Unlinked(js)[j] = None <=> js[j] = None
                      /\ js[j] # None =>
                           /\ Unlinked(js)[j] \in JobRows /\ Unlinked(js)[j].state = js[j].state
                           /\ Unlinked(js)[j].product = js[j].product
                           /\ Unlinked(js)[j].kind = IF js[j].kind \in Exports THEN "gone" ELSE js[j].kind
  <2> SUFFICES ASSUME NEW j \in Jobs, js[j] # None
               PROVE  /\ Unlinked(js)[j] \in JobRows /\ Unlinked(js)[j].state = js[j].state
                      /\ Unlinked(js)[j].product = js[j].product
                      /\ Unlinked(js)[j].kind = IF js[j].kind \in Exports THEN "gone" ELSE js[j].kind
    BY NoneIsNothing DEF Unlinked
  <2>1. js[j] \in JobRows
    BY <1>7
  <2>2. CASE js[j].kind \in Exports
    <3>1. Unlinked(js)[j] = [js[j] EXCEPT !.kind = "gone"]
      BY <2>2 DEF Unlinked
    <3> QED BY <2>1, <2>2, <3>1 DEF JobRows
  <2>3. CASE js[j].kind \notin Exports
    BY <2>1, <2>3 DEF Unlinked
  <2> QED BY <2>2, <2>3
<1>9. \A j \in Jobs : JobFine(Unlinked(js)[j], None, store, shown)
  <2> SUFFICES ASSUME NEW j \in Jobs, Unlinked(js)[j] # None
               PROVE  JobFine(Unlinked(js)[j], None, store, shown)
    BY DEF JobFine
  <2>1. /\ Unlinked(js)[j] \in JobRows /\ Unlinked(js)[j].product = jobs[j].product
        /\ Unlinked(js)[j].kind = IF jobs[j].kind \in Exports THEN "gone" ELSE jobs[j].kind
        /\ jobs[j] # None
    BY <1>7, <1>8
  <2> QED BY <1>7, <2>1 DEF JobFine, Exports
<1>10. Started(Unlinked(js), rs)
  <2>1. \A j \in Jobs : js[j] # None => Unlinked(js)[j] # None /\ Unlinked(js)[j].state = js[j].state
    BY <1>8
  <2>2. \A u \in Workers : rs[u] # None => (rs[u].job # 0 => rs[u].job \in Jobs)
    <3> SUFFICES ASSUME NEW u \in Workers, rs[u] # None, rs[u].job # 0 PROVE rs[u].job \in Jobs
      OBVIOUS
    <3>1. runs[u] # None /\ rs[u].job = runs[u].job
      BY <1>3, <1>4
    <3> QED BY <3>1, RunsTyped, ListingsAssumption DEF RunRecords, Jobs
  <2>3. \A u \in Workers : rs[u] # None =>
          /\ rs[u].job # 0 => Unlinked(js)[rs[u].job] # None
          /\ \A v \in Workers \ {u} : rs[v] # None /\ rs[v].job = rs[u].job => rs[u].job = 0
    BY <1>6, <2>1, <2>2 DEF Started
  <2>4. \A j \in Jobs : Unlinked(js)[j] # None =>
          ((Unlinked(js)[j].state = "started") <=> (\E u \in Workers : rs[u] # None /\ rs[u].job = j))
    BY <1>6, <1>8 DEF Started
  <2> QED BY <2>3, <2>4 DEF Started
<1>11. Unlinked(js) = [j \in Jobs |-> Unlinked(js)[j]]
  BY DEF Unlinked
<1>12. EditsAccounted' /\ RowFine(listing', store') /\ StoreFine(store', shown')
  BY <1>1 DEF EditsAccounted, RowFine, IInv
<1>13. /\ \A u \in Workers : RunFine(runs'[u], listing', store', shown', misled')
       /\ \A j \in Jobs : JobFine(jobs'[j], listing', store', shown')
       /\ Started(jobs', runs') /\ runs' = [u \in Workers |-> runs'[u]] /\ jobs' = [j \in Jobs |-> jobs'[j]]
  BY <1>1, <1>4, <1>5, <1>9, <1>10, <1>11
<1> QED BY <1>2, <1>12, <1>13 DEF IInv

-----------------------------------------------------------------------------
(* Imports, and the store's staff.                                         *)

LEMMA ImportKeeps ==
    ASSUME IInv, NEW p \in DOMAIN store, Import(p)
    PROVE  IInv'
<1> DEFINE product == [id |-> p, content |-> store[p].content, ids |-> store[p].ids]
           job == [kind |-> "import", state |-> "pending", product |-> product]
<1>1. store[p] # None
  BY DEF Import, Alive
<1>2. product \in Fetched /\ product.id = p /\ product.content \in shown
  BY <1>1, ProductTyped DEF Fetched, IInv, StoreFine
<1>3. Queued("import", product)
  BY DEF Import
<1> HIDE DEF product
<1>4. JobFine(job, listing, store, shown)
  BY <1>2, NoneIsNothing DEF JobFine, JobRows, Exports
<1>5. /\ jobs' = [j \in Jobs |-> jobs'[j]]
      /\ \A j \in Jobs : JobFine(jobs'[j], listing, store, shown)
      /\ Started(jobs', runs)
      /\ \A j \in Jobs : jobs[j] # None => jobs'[j] = jobs[j]
  BY <1>2, <1>3, <1>4, JobQueued
<1>6. EditsAccounted'
  BY <1>5 DEF IInv, EditsAccounted, ExportPending, Import
<1>7. Bounded'
  BY ListingsAssumption DEF Import, IInv, Bounded
<1> QED BY <1>5, <1>6, <1>7 DEF IInv, Import

LEMMA RunImportKeeps ==
    ASSUME IInv, NEW i \in Jobs, RunImport(i)
    PROVE  IInv'
<1> DEFINE product == jobs[i].product
           known == listing # None /\ listing.id = product.id
           nothingLeft == known /\ NothingLeft(product)
           failed == [jobs[i] EXCEPT !.state = "failed"]
           job == IF nothingLeft THEN failed ELSE None
           row == AsImported(product)
<1>1. /\ jobs[i] # None /\ jobs[i] \in JobRows /\ jobs[i].kind = "import" /\ jobs[i].state # "started"
      /\ product \in Fetched /\ product.id \in DOMAIN store /\ product.content \in shown
  <2>1. /\ jobs[i] # None /\ jobs[i].kind = "import" /\ jobs[i].state = "pending"
        /\ JobFine(jobs[i], listing, store, shown)
    BY DEF RunImport, IInv
  <2> QED BY <2>1 DEF JobFine, JobRows
<1>2. /\ jobs' = [jobs EXCEPT ![i] = job]
      /\ \/ listing' = row /\ runs' = Overtaken /\ (known \/ listing = None)
         \/ UNCHANGED <<listing, runs>>
      /\ UNCHANGED <<store, counts, shown, misled>>
  BY DEF RunImport
<1>3. failed \in JobRows /\ failed.kind = "import" /\ failed.product = product /\ failed.state # "started"
  BY <1>1 DEF JobRows
<1>4. /\ jobs' = [j \in Jobs |-> jobs'[j]]
      /\ \A j \in Jobs : JobFine(jobs'[j], listing, store, shown)
      /\ Started(jobs', runs)
      /\ ExportPending => \E j \in Jobs : jobs'[j] # None /\ jobs'[j].kind \in Exports
  <2>1. \/ job = None /\ jobs[i].kind \notin Exports
        \/ job # None /\ job \in JobRows /\ job.kind = jobs[i].kind
             /\ job.product = jobs[i].product /\ job.state # "started"
    BY <1>1, <1>3, NoneIsNothing DEF Exports
  <2> HIDE DEF job
  <2> QED BY <1>1, <1>2, <2>1, JobAside
<1>5. Bounded'
  BY <1>2 DEF IInv, Bounded, counts
<1>6. CASE UNCHANGED <<listing, runs>>
  <2>1. EditsAccounted'
    BY <1>2, <1>4, <1>6 DEF IInv, EditsAccounted, ExportPending
  <2> QED BY <1>2, <1>4, <1>5, <1>6, <2>1 DEF IInv
<1>7. CASE listing' = row /\ runs' = Overtaken
  <2>1. product.id \in 1..MaxProducts /\ product.content \in Contents /\ product.ids \in IdMaps
        /\ product.id # None
    <3>1. product.id \in 1..MaxProducts /\ product.content \in Contents /\ product.ids \in StoredIds
      BY <1>1 DEF Fetched
    <3> QED BY <3>1, IdMapsAre, NoneIsNothing, ListingsAssumption
  <2>2. /\ row \in Rows /\ row.id = product.id /\ row.state = "published" /\ row.content = product.content
    BY <2>1 DEF AsImported, Rows
  <2> HIDE DEF row
  <2>3. row # None /\ row.id # None /\ Told(row) /\ Known(row.id, store)
    BY <1>1, <2>1, <2>2, NoneIsNothing DEF Told, Known
  <2>4. \A u \in Workers : /\ RunFine(Overtaken[u], row, store, shown, misled)
                           /\ Overtaken[u] = None <=> runs[u] = None
                           /\ runs[u] # None => Overtaken[u].job = runs[u].job
    BY <2>3, OvertakenFine
  <2>5. Started(jobs', Overtaken)
    BY <1>4, <2>4, StartedSame
  <2>6. \A j \in Jobs : JobFine(jobs'[j], row, store, shown)
    BY <1>4, <2>3 DEF JobFine
  <2>7. runs' = [u \in Workers |-> runs'[u]]
    BY <1>7 DEF Overtaken
  <2>8. EditsAccounted'
    BY <1>1, <1>2, <1>7, <2>2 DEF EditsAccounted
  <2>9. RowFine(listing', store') /\ StoreFine(store', shown')
    BY <1>2, <1>7, <2>2, <2>3 DEF RowFine, IInv
  <2>10. /\ \A u \in Workers : RunFine(runs'[u], listing', store', shown', misled')
         /\ \A j \in Jobs : JobFine(jobs'[j], listing', store', shown')
         /\ Started(jobs', runs')
    BY <1>2, <1>7, <2>4, <2>5, <2>6
  <2> QED BY <1>4, <1>5, <2>7, <2>8, <2>9, <2>10 DEF IInv
<1> QED BY <1>2, <1>6, <1>7

LEMMA StaffKeep ==
    ASSUME IInv, NEW p \in DOMAIN store, NEW new \in Products \cup {None},
           shown \subseteq shown', new # None => new.content \in shown',
           store' = [store EXCEPT ![p] = new], runs' = Touched(runs, p),
           UNCHANGED <<listing, jobs, misled>>, Bounded'
    PROVE  IInv'
<1>1. PICK st2 : st2 = store'
  OBVIOUS
<1>2. PICK seen2 : seen2 = shown'
  OBVIOUS
<1>3. /\ StoreFine(st2, seen2) /\ DOMAIN st2 = DOMAIN store
      /\ st2[p] = new /\ \A q \in DOMAIN store : q # p => st2[q] = store[q]
  BY <1>1, <1>2, StoreChanged
<1>4. \A u \in Workers : /\ RunFine(Touched(runs, p)[u], listing, st2, seen2, misled)
                         /\ Touched(runs, p)[u] = None <=> runs[u] = None
                         /\ runs[u] # None => Touched(runs, p)[u].job = runs[u].job
  BY <1>2, <1>3, TouchedFine
<1>5. Started(jobs, Touched(runs, p))
  BY <1>4, StartedSame DEF IInv
<1>6. \A j \in Jobs : JobFine(jobs[j], listing, st2, seen2)
  BY <1>2, <1>3, JobsKept
<1>7. runs' = [u \in Workers |-> runs'[u]]
  BY DEF Touched
<1>8. EditsAccounted' /\ RowFine(listing', store') /\ jobs' = [j \in Jobs |-> jobs'[j]]
  BY <1>1, <1>3 DEF IInv, EditsAccounted, ExportPending, RowFine, Known
<1>9. /\ \A u \in Workers : RunFine(runs'[u], listing', store', shown', misled')
      /\ \A j \in Jobs : JobFine(jobs'[j], listing', store', shown')
      /\ Started(jobs', runs') /\ StoreFine(store', shown')
  BY <1>1, <1>2, <1>3, <1>4, <1>5, <1>6
<1> QED BY <1>7, <1>8, <1>9 DEF IInv

LEMMA StaffEditsKeeps ==
    ASSUME IInv, NEW p \in DOMAIN store, StaffEdits(p)
    PROVE  IInv'
<1>1. store[p] \in Products
  BY ProductTyped DEF StaffEdits, Alive
<1>2. contents' \in Contents /\ Bounded'
  BY ListingsAssumption DEF StaffEdits, Disturb, IInv, Bounded, Contents
<1>3. PICK c : c = contents'
  OBVIOUS
<1> DEFINE new == [store[p] EXCEPT !.content = c]
<1>4. new \in Products /\ new.content = c
  BY <1>1, <1>2, <1>3 DEF Products
<1>5. store' = [store EXCEPT ![p] = new]
  BY <1>3 DEF StaffEdits
<1> HIDE DEF new
<1> QED BY <1>2, <1>3, <1>4, <1>5, StaffKeep DEF StaffEdits

LEMMA StaffDeletesKeeps ==
    ASSUME IInv, NEW p \in DOMAIN store, StaffDeletes(p)
    PROVE  IInv'
<1>1. Bounded'
  BY ListingsAssumption DEF StaffDeletes, Disturb, IInv, Bounded
<1> QED BY <1>1, StaffKeep DEF StaffDeletes

LEMMA StaffSetsVariantsKeeps ==
    ASSUME IInv, NEW p \in DOMAIN store, StaffSetsVariants(p)
    PROVE  IInv'
<1>1. Bounded'
  BY ListingsAssumption DEF StaffSetsVariants, Disturb, IInv, Bounded
<1>2. store[p] \in Products /\ store[p].ids \in StoredIds /\ store[p].content \in shown
  BY ProductTyped DEF StaffSetsVariants, Alive, IInv, StoreFine
<1>3. PICK names \in SUBSET Variants, kept \in SUBSET Names(store[p]) :
        /\ CanNumber(names \ kept)
        /\ store' = [store EXCEPT ![p].ids = Joined(NewIds(names \ kept), Restrict(@, kept))]
  BY DEF StaffSetsVariants
<1> DEFINE ids == Joined(NewIds(names \ kept), Restrict(store[p].ids, kept))
           new == [store[p] EXCEPT !.ids = ids]
<1>4. ids \in StoredIds
  <2>1. NewIds(names \ kept) \in StoredIds
    BY <1>3, NewIdsTyped DEF StoredIds
  <2>2. Restrict(store[p].ids, kept) \in StoredIds
    BY <1>2, RestrictTyped DEF Names
  <2> QED BY <2>1, <2>2, JoinedTyped
<1>5. store' = [store EXCEPT ![p] = new]
  BY <1>3
<1> HIDE DEF ids
<1>6. new \in Products /\ new.content \in shown
  BY <1>2, <1>4 DEF Products
<1> HIDE DEF new
<1> QED BY <1>1, <1>5, <1>6, StaffKeep DEF StaffSetsVariants

-----------------------------------------------------------------------------
(* The invariant, and what it says of every behaviour.                     *)

LEMMA InitEstablishes == Init => IInv
<1> SUFFICES ASSUME Init PROVE IInv
  OBVIOUS
<1> DEFINE ids == [v \in {CHOOSE u \in Variants : TRUE} |-> 1]
           product == [content |-> 0, ids |-> ids]
<1>1. ids \in StoredIds
  <2>1. (CHOOSE u \in Variants : TRUE) \in Variants
    BY ListingsAssumption
  <2>2. 1 \in Ids
    BY ListingsAssumption DEF Ids
  <2> QED BY <2>1, <2>2 DEF StoredIds
<1> HIDE DEF ids
<1>2. product \in Products /\ product.content = 0
  BY <1>1, ListingsAssumption DEF Products, Contents
<1>3. store = <<product>> /\ shown = {0}
  BY DEF Init, ids
<1> HIDE DEF product
<1>4. StoreFine(store, shown)
  <2>1. store \in Seq(Products \cup {None}) /\ Len(store) = 1 /\ DOMAIN store = {1} /\ store[1] = product
    BY <1>2, <1>3
  <2> QED BY <1>2, <1>3, <2>1, ListingsAssumption DEF StoreFine
<1>5. Bounded
  <2>1. MaxContents \in Nat
    BY ListingsAssumption
  <2>2. 0 \in Contents /\ contents <= MaxContents
    BY <2>1 DEF Init, Contents
  <2>3. contents = 0 /\ requests = 0 /\ imports = 0 /\ disturbed = 0 /\ shown = {0} /\ misled = FALSE
    BY DEF Init
  <2>4. {contents, requests, imports, disturbed} \subseteq Nat
    BY ONLY <2>3
  <2> QED BY <2>2, <2>3, <2>4 DEF Bounded
<1>6. /\ \A j \in Jobs : JobFine(jobs[j], listing, store, shown)
      /\ \A w \in Workers : RunFine(runs[w], listing, store, shown, misled)
      /\ Started(jobs, runs) /\ EditsAccounted /\ RowFine(listing, store)
      /\ jobs = [j \in Jobs |-> jobs[j]] /\ runs = [w \in Workers |-> runs[w]]
  BY DEF Init, JobFine, RunFine, Started, EditsAccounted, RowFine
<1> QED BY <1>4, <1>5, <1>6 DEF IInv

LEMMA NextKeeps == IInv /\ [Next]_vars => IInv'
<1> SUFFICES ASSUME IInv, [Next]_vars PROVE IInv'
  OBVIOUS
<1>1. CASE UNCHANGED vars
  BY <1>1 DEF vars, counts, IInv, Bounded, EditsAccounted, ExportPending
<1>2. CASE UserActs
  BY <1>2, EditKeeps, QueueExportKeeps, ExportMasterKeeps, ExportToStoreKeeps, RemoveOnlineKeeps,
     RequeueKeeps, ImportKeeps DEF UserActs
<1>3. CASE StaffActs
  BY <1>3, StaffEditsKeeps, StaffDeletesKeeps, StaffSetsVariantsKeeps DEF StaffActs
<1>4. ASSUME NEW w \in Workers, Step(w) PROVE IInv'
  <2>1. ASSUME Commit(w), runs[w] # None PROVE IInv'
    BY <2>1, CommitStale, CommitWrites, CommitRemoves
  <2> QED BY <1>4, <2>1, FetchKeeps, PutKeeps, PutVariantsKeeps, ReadKeeps, PostKeeps, DeleteKeeps DEF Step
<1>5. ASSUME NEW w \in Workers, Dies(w) \/ Fails(w) PROVE IInv'
  BY <1>5, DiesKeeps
<1>6. ASSUME NEW j \in Jobs, RunJob(j) PROVE IInv'
  BY <1>6, RunImportKeeps, GoneFailsKeeps, StartKeeps DEF RunJob
<1> QED BY <1>1, <1>2, <1>3, <1>4, <1>5, <1>6 DEF Next

(* Every open transaction knows the mapping, the product and the calls it  *)
(* has made, or has been told of what others did meanwhile.                *)
THEOREM ListingsInvariant == Spec => []IInv
BY InitEstablishes, NextKeeps, PTL DEF Spec

(* Every value has its type, and a job that is started has exactly one     *)
(* transaction.                                                            *)
THEOREM ListingsTyped == Spec => []TypeOK
<1>1. ASSUME IInv PROVE TypeOK
  <2>1. RowFine(listing, store) => /\ listing \in Rows \cup {None}
                                   /\ listing # None => IdKnown(listing.id)
    BY DEF RowFine, Known, IdKnown
  <2>2. \A j \in Jobs : /\ jobs[j] \in JobRows \cup {None}
                        /\ jobs[j] # None /\ jobs[j].kind = "import" =>
                             jobs[j].product # None /\ IdKnown(jobs[j].product.id)
    BY <1>1 DEF IInv, JobFine, IdKnown
  <2>3. \A w \in Workers : /\ runs[w] \in RunRecords \cup {None}
                           /\ runs[w] # None => IdKnown(runs[w].now.id)
    BY <1>1 DEF IInv, RunFine, Known, IdKnown
  <2>4. jobs \in [Jobs -> JobRows \cup {None}] /\ runs \in [Workers -> RunRecords \cup {None}]
    BY <1>1, <2>2, <2>3 DEF IInv
  <2>5. /\ store \in Seq(Products \cup {None}) /\ Len(store) <= MaxProducts
        /\ {contents, requests, imports, disturbed} \subseteq Nat /\ contents <= MaxContents
        /\ shown \subseteq Contents /\ misled \in BOOLEAN
    BY <1>1 DEF IInv, StoreFine, Bounded
  <2>6. Started(jobs, runs) /\ RowFine(listing, store)
    BY <1>1 DEF IInv
  <2> QED BY <2>1, <2>2, <2>3, <2>4, <2>5, <2>6 DEF TypeOK, Started
<1> QED BY <1>1, ListingsInvariant, PTL

(* Whether an export creates a product or changes one is decided rightly.  *)
THEOREM StateIsTold == Spec => []StateTellsId
<1>1. IInv => StateTellsId
  BY DEF IInv, RowFine, Told, StateTellsId
<1> QED BY <1>1, ListingsInvariant, PTL

(* No edit of a published mapping is forgotten.                            *)
THEOREM NoEditForgotten == Spec => []EditsAccounted
<1>1. IInv => EditsAccounted
  BY DEF IInv
<1> QED BY <1>1, ListingsInvariant, PTL

(* When an export says published, the store has what it says.              *)
THEOREM PublishedHolds == Spec => PublishedIsThere
<1>1. IInv /\ [Next]_vars =>
        [\A w \in Workers :
           LET run == runs[w]
           IN  run # None /\ run.kind \in {"mapping", "update"} /\ run.step = "commit" /\ ~run.touched
                 /\ Commit(w) /\ listing' = run.now /\ ~run.stale /\ run.now.state = "published"
                 => /\ Alive(run.now.id)
                    /\ store[run.now.id].content = listing'.content
                    /\ store[run.now.id].ids = listing'.ids]_vars
  <2> SUFFICES ASSUME IInv, NEW w \in Workers, runs[w] # None,
                      runs[w].kind \in {"mapping", "update"}, runs[w].step = "commit",
                      ~runs[w].touched, listing' = runs[w].now, runs[w].now.state = "published"
               PROVE  /\ Alive(runs[w].now.id)
                      /\ store[runs[w].now.id].content = listing'.content
                      /\ store[runs[w].now.id].ids = listing'.ids
    OBVIOUS
  <2>1. There(runs[w], store) /\ Staged(runs[w])
    BY RunParts
  <2> QED BY <2>1 DEF There, Staged, Alive
<1> QED BY <1>1, ListingsInvariant, PTL DEF Spec, PublishedIsThere
=============================================================================
