------------------------- MODULE OrderImportProofs --------------------------
(***************************************************************************)
(* Proofs about OrderImport, for any orders, settings, contents and        *)
(* bounds: the types, and that no change of an order is lost without a     *)
(* trace.  A job is followed through the copies that replace it, which     *)
(* differ from it in their number n only.                                  *)
(***************************************************************************)
EXTENDS OrderImport, FiniteSetTheorems, TLAPS

USE OrderImportAssumption

-----------------------------------------------------------------------------
(* The records of jobs, and what each of them carries.                     *)

States == {"pending", "failed"}
ImportRecords(n) ==
    [n : {n}, kind : {"import"}, state : States, from : Nat \cup {None},
     ids : SUBSET Orders, fetched : BOOLEAN, page : SUBSET (Orders \X Nat)]
SyncRecords(n) ==
    [n : {n}, kind : {"sync"}, state : States, order : Orders, version : Nat,
     update : BOOLEAN, retry : Nat]
WaitRecords(n) ==
    [n : {n}, kind : {"wait"}, state : States, order : Orders, version : Nat,
     need : {"pending", "done", "gone", "failed"}, retry : Nat]
IsJob(j) == j \in ImportRecords(j.n) \cup SyncRecords(j.n) \cup WaitRecords(j.n)

(* The versions of orders that a job has in its hands are old or the last. *)
Offers(j) == IF j.kind = "import" THEN j.page ELSE {<<j.order, j.version>>}
Fine(j, st) == IsJob(j) /\ \A p \in Offers(j) : p[2] \in 1..st[p[1]].version

(* A job that will bring the newest version of an order, or has failed.    *)
Carries(j, o) ==
    \/ /\ j.kind = "import" /\ o \in Matching(j)
       /\ ~j.fetched \/ <<o, store[o].version>> \in j.page
    \/ j.kind # "import" /\ j.order = o /\ j.version = store[o].version

ImportsOf(js) == {j \in js : j.kind = "import"}
OthersOf(js) == {j \in js : j.kind # "import"}
Counted(js) ==
    /\ IsFiniteSet(js)
    /\ Cardinality(ImportsOf(js)) <= MaxImports
    /\ Cardinality(OthersOf(js)) <= MaxJobs

Values ==
    /\ now \in 0..MaxTime
    /\ store \in [Orders -> [version : Nat, modified : 0..now]]
    /\ channel \in [active : BOOLEAN, watermark : 0..now]
    /\ sale \in [Orders -> Sales \cup {None}]
    /\ \A o \in Orders : Exists(o) => sale[o].version \in 1..store[o].version
    /\ listed \subseteq Products
    /\ errors \subseteq Orders
    /\ reached \in [Orders -> Nat]
    /\ excused \in [Orders -> Reasons \cup {None}]

Types == Values /\ Counted(jobs) /\ \A j \in jobs : Fine(j, store)

IInv == Types /\ NoChangeLost

-----------------------------------------------------------------------------
(* Jobs that replace others.                                               *)

(* Put adds one job, which differs in its number only.                     *)
LEMMA PutAdds ==
    ASSUME NEW js, NEW job
    PROVE  \E m : Put(js, job) = js \cup {[job EXCEPT !.n = m]}
BY DEF Put

LEMMA Renumbered ==
    ASSUME NEW j, NEW m, IsJob(j), NEW k, k = [j EXCEPT !.n = m]
    PROVE  /\ IsJob(k)
           /\ k.kind = j.kind
           /\ Offers(k) = Offers(j)
           /\ \A o : Carries(k, o) <=> Carries(j, o)
<1>1. CASE j \in ImportRecords(j.n)
  <2>1. k \in ImportRecords(m) /\ k.n = m /\ k.kind = "import" /\ j.kind = "import"
    BY <1>1 DEF ImportRecords
  <2>2. k.from = j.from /\ k.ids = j.ids /\ k.fetched = j.fetched /\ k.page = j.page
    BY <1>1 DEF ImportRecords
  <2> QED
    BY <2>1, <2>2 DEF IsJob, Offers, Carries, Matching
<1>2. CASE j \in SyncRecords(j.n)
  <2>1. k \in SyncRecords(m) /\ k.n = m /\ k.kind = "sync" /\ j.kind = "sync"
    BY <1>2 DEF SyncRecords
  <2>2. k.order = j.order /\ k.version = j.version
    BY <1>2 DEF SyncRecords
  <2> QED
    BY <2>1, <2>2 DEF IsJob, Offers, Carries
<1>3. CASE j \in WaitRecords(j.n)
  <2>1. k \in WaitRecords(m) /\ k.n = m /\ k.kind = "wait" /\ j.kind = "wait"
    BY <1>3 DEF WaitRecords
  <2>2. k.order = j.order /\ k.version = j.version
    BY <1>3 DEF WaitRecords
  <2> QED
    BY <2>1, <2>2 DEF IsJob, Offers, Carries
<1> QED
  BY <1>1, <1>2, <1>3 DEF IsJob

(* How many jobs there are.                                                *)
LEMMA Dropped ==
    ASSUME NEW js, NEW j, Counted(js)
    PROVE  Counted(js \ {j})
<1>1. IsFiniteSet(ImportsOf(js)) /\ IsFiniteSet(OthersOf(js))
  BY FS_Subset DEF Counted, ImportsOf, OthersOf
<1>2. IsFiniteSet(js \ {j})
  BY FS_RemoveElement DEF Counted
<1>3. ImportsOf(js \ {j}) \subseteq ImportsOf(js) /\ OthersOf(js \ {j}) \subseteq OthersOf(js)
  BY DEF ImportsOf, OthersOf
<1>4. /\ Cardinality(ImportsOf(js \ {j})) <= Cardinality(ImportsOf(js))
      /\ Cardinality(OthersOf(js \ {j})) <= Cardinality(OthersOf(js))
      /\ IsFiniteSet(ImportsOf(js \ {j})) /\ IsFiniteSet(OthersOf(js \ {j}))
  BY <1>1, <1>3, FS_Subset
<1>5. /\ Cardinality(ImportsOf(js)) \in Nat /\ Cardinality(OthersOf(js)) \in Nat
      /\ Cardinality(ImportsOf(js \ {j})) \in Nat /\ Cardinality(OthersOf(js \ {j})) \in Nat
  BY <1>1, <1>4, FS_CardinalityType
<1> QED
  BY <1>2, <1>4, <1>5 DEF Counted

LEMMA OneMore ==
    ASSUME NEW S, IsFiniteSet(S), NEW x
    PROVE  /\ IsFiniteSet(S \cup {x})
           /\ Cardinality(S) \in Nat /\ Cardinality(S \cup {x}) \in Nat
           /\ Cardinality(S \cup {x}) <= Cardinality(S) + 1
<1>1. IsFiniteSet(S \cup {x})
  BY FS_AddElement
<1>2. Cardinality(S) \in Nat /\ Cardinality(S \cup {x}) \in Nat
  BY <1>1, FS_CardinalityType
<1>3. CASE x \in S
  <2>1. S \cup {x} = S
    BY <1>3
  <2> QED
    BY <1>1, <1>2, <2>1
<1>4. CASE x \notin S
  BY <1>1, <1>2, <1>4, FS_AddElement
<1> QED
  BY <1>3, <1>4

LEMMA AddedImport ==
    ASSUME NEW js, Counted(js), NEW k, k.kind = "import",
           Cardinality(ImportsOf(js)) < MaxImports
    PROVE  Counted(js \cup {k})
<1>1. IsFiniteSet(ImportsOf(js))
  BY FS_Subset DEF Counted, ImportsOf
<1>2. ImportsOf(js \cup {k}) = ImportsOf(js) \cup {k} /\ OthersOf(js \cup {k}) = OthersOf(js)
  BY DEF ImportsOf, OthersOf
<1> DEFINE S == ImportsOf(js)
<1>3. Cardinality(ImportsOf(js \cup {k})) <= MaxImports
  <2>1. IsFiniteSet(S) /\ Cardinality(S) < MaxImports
    BY <1>1
  <2> HIDE DEF S
  <2>2. Cardinality(S) \in Nat /\ Cardinality(S \cup {k}) \in Nat /\ Cardinality(S \cup {k}) <= Cardinality(S) + 1
    BY <2>1, OneMore
  <2>3. MaxImports \in Nat
    BY DEF OrderImportAssumption
  <2>4. Cardinality(S \cup {k}) <= MaxImports
    BY <2>1, <2>2, <2>3
  <2> QED
    BY <1>2, <2>4 DEF S
<1>4. IsFiniteSet(js \cup {k})
  BY OneMore DEF Counted
<1> QED
  BY <1>2, <1>3, <1>4 DEF Counted

LEMMA AddedOther ==
    ASSUME NEW js, Counted(js), NEW k, k.kind # "import", Cardinality(OthersOf(js)) < MaxJobs
    PROVE  Counted(js \cup {k})
<1>1. IsFiniteSet(OthersOf(js))
  BY FS_Subset DEF Counted, OthersOf
<1>2. OthersOf(js \cup {k}) = OthersOf(js) \cup {k} /\ ImportsOf(js \cup {k}) = ImportsOf(js)
  BY DEF ImportsOf, OthersOf
<1> DEFINE S == OthersOf(js)
<1>3. Cardinality(OthersOf(js \cup {k})) <= MaxJobs
  <2>1. IsFiniteSet(S) /\ Cardinality(S) < MaxJobs
    BY <1>1
  <2> HIDE DEF S
  <2>2. Cardinality(S) \in Nat /\ Cardinality(S \cup {k}) \in Nat /\ Cardinality(S \cup {k}) <= Cardinality(S) + 1
    BY <2>1, OneMore
  <2>3. MaxJobs \in Nat
    BY DEF OrderImportAssumption
  <2>4. Cardinality(S \cup {k}) <= MaxJobs
    BY <2>1, <2>2, <2>3
  <2> QED
    BY <1>2, <2>4 DEF S
<1>4. IsFiniteSet(js \cup {k})
  BY OneMore DEF Counted
<1> QED
  BY <1>2, <1>3, <1>4 DEF Counted

LEMMA Swapped ==
    ASSUME NEW js, Counted(js), NEW j \in js, NEW k, k.kind = j.kind
    PROVE  Counted((js \ {j}) \cup {k})
<1> DEFINE rest == js \ {j}
<1>1. Counted(rest)
  BY Dropped
<1>2. IsFiniteSet(ImportsOf(js)) /\ IsFiniteSet(OthersOf(js))
  BY FS_Subset DEF Counted, ImportsOf, OthersOf
<1>3. CASE j.kind = "import"
  <2>1. ImportsOf(rest) = ImportsOf(js) \ {j} /\ j \in ImportsOf(js)
    BY <1>3 DEF ImportsOf
  <2> DEFINE S == ImportsOf(js)
  <2>2. Cardinality(ImportsOf(rest)) = Cardinality(ImportsOf(js)) - 1 /\ Cardinality(ImportsOf(js)) \in Nat
    <3>1. IsFiniteSet(S) /\ j \in S /\ ImportsOf(rest) = S \ {j}
      BY <1>2, <2>1
    <3> HIDE DEF S
    <3>2. Cardinality(S) \in Nat /\ Cardinality(S \ {j}) = Cardinality(S) - 1
      BY <3>1, FS_RemoveElement, FS_CardinalityType
    <3> QED
      BY <3>1, <3>2 DEF S
  <2>3. Cardinality(ImportsOf(rest)) < MaxImports
    BY <2>2 DEF Counted, OrderImportAssumption
  <2> HIDE DEF rest
  <2> QED
    BY <1>1, <1>3, <2>3, AddedImport DEF rest
<1>4. CASE j.kind # "import"
  <2>1. OthersOf(rest) = OthersOf(js) \ {j} /\ j \in OthersOf(js)
    BY <1>4 DEF OthersOf
  <2> DEFINE S == OthersOf(js)
  <2>2. Cardinality(OthersOf(rest)) = Cardinality(OthersOf(js)) - 1 /\ Cardinality(OthersOf(js)) \in Nat
    <3>1. IsFiniteSet(S) /\ j \in S /\ OthersOf(rest) = S \ {j}
      BY <1>2, <2>1
    <3> HIDE DEF S
    <3>2. Cardinality(S) \in Nat /\ Cardinality(S \ {j}) = Cardinality(S) - 1
      BY <3>1, FS_RemoveElement, FS_CardinalityType
    <3> QED
      BY <3>1, <3>2 DEF S
  <2>3. Cardinality(OthersOf(rest)) < MaxJobs
    BY <2>2 DEF Counted, OrderImportAssumption
  <2> HIDE DEF rest
  <2> QED
    BY <1>1, <1>4, <2>3, AddedOther DEF rest
<1> QED
  BY <1>3, <1>4

-----------------------------------------------------------------------------
(* What putting a job among the others does.                               *)

Covers(js, job) == \A o : Carries(job, o) => \E k \in js : Carries(k, o)
GoodJobs(js) == Counted(js) /\ \A k \in js : Fine(k, store)

LEMMA PutGood ==
    ASSUME NEW js, \A k \in js : Fine(k, store), NEW job, Fine(job, store)
    PROVE  \E m : LET k == [job EXCEPT !.n = m]
                  IN  /\ Put(js, job) = js \cup {k}
                      /\ k.kind = job.kind
                      /\ Fine(k, store)
                      /\ \A o : Carries(k, o) <=> Carries(job, o)
<1>1. PICK m : Put(js, job) = js \cup {[job EXCEPT !.n = m]}
  BY PutAdds
<1> DEFINE k == [job EXCEPT !.n = m]
<1>2. IsJob(job) /\ k = [job EXCEPT !.n = m]
  BY DEF Fine
<1> HIDE DEF k
<1>3. /\ IsJob(k) /\ k.kind = job.kind /\ Offers(k) = Offers(job)
      /\ \A o : Carries(k, o) <=> Carries(job, o)
  BY ONLY <1>2, Renumbered
<1>4. Fine(k, store)
  BY <1>3 DEF Fine
<1> QED
  BY <1>1, <1>3, <1>4 DEF k

LEMMA Becoming ==
    ASSUME GoodJobs(jobs), NEW j \in jobs, NEW job, Fine(job, store), job.kind = j.kind
    PROVE  /\ GoodJobs(Put(jobs \ {j}, job))
           /\ jobs \ {j} \subseteq Put(jobs \ {j}, job)
           /\ Covers(Put(jobs \ {j}, job), job)
<1> DEFINE js == jobs \ {j}
<1>1. \A k \in js : Fine(k, store)
  BY DEF GoodJobs
<1>2. PICK m : LET k == [job EXCEPT !.n = m]
               IN  /\ Put(js, job) = js \cup {k}
                   /\ k.kind = job.kind
                   /\ Fine(k, store)
                   /\ \A o : Carries(k, o) <=> Carries(job, o)
  <2> HIDE DEF js
  <2> QED
    BY <1>1, PutGood
<1> DEFINE k == [job EXCEPT !.n = m]
<1>3. /\ Put(js, job) = js \cup {k} /\ k.kind = j.kind /\ Fine(k, store)
      /\ \A o : Carries(k, o) <=> Carries(job, o)
  BY <1>2
<1> HIDE DEF k
<1>4. Counted((jobs \ {j}) \cup {k})
  <2>1. Counted(jobs) /\ k.kind = j.kind
    BY <1>3 DEF GoodJobs
  <2> QED
    BY <2>1, Swapped
<1> QED
  BY <1>1, <1>3, <1>4 DEF GoodJobs, Covers

(* create_jobs_for_synching leaves a job with the data, or an entry of the *)
(* log, if the order is wanted and may be written.                         *)
LEMMA Creating ==
    ASSUME NEW js, GoodJobs(js), errors \subseteq Orders,
           NEW o \in Orders, NEW v \in 1..store[o].version, store[o].version \in Nat,
           NEW update \in BOOLEAN, NEW noWait,
           CreateJobs(js, o, v, update, noWait)
    PROVE  /\ GoodJobs(jobs') /\ js \subseteq jobs'
           /\ errors \subseteq errors' /\ errors' \subseteq Orders
           /\ v = store[o].version /\ Wanted(o, v) /\ (update => AllowUpdate)
                => o \in errors' \/ \E k \in jobs' : Carries(k, o)
<1>1. CASE (update /\ ~AllowUpdate) \/ ~Wanted(o, v)
  <2>1. jobs' = js /\ UNCHANGED errors
    BY <1>1 DEF CreateJobs
  <2> QED
    BY <1>1, <2>1
<1>2. CASE ~((update /\ ~AllowUpdate) \/ ~Wanted(o, v))
  <2>1. ASSUME NEW job, Fine(job, store), job.kind # "import", Room(js),
               v = store[o].version => Carries(job, o),
               jobs' = Put(js, job), UNCHANGED errors
        PROVE  /\ GoodJobs(jobs') /\ js \subseteq jobs'
               /\ errors \subseteq errors' /\ errors' \subseteq Orders
               /\ v = store[o].version => \E k \in jobs' : Carries(k, o)
    <3>1. \A k \in js : Fine(k, store)
      BY DEF GoodJobs
    <3>2. PICK m : LET k == [job EXCEPT !.n = m]
                   IN  /\ Put(js, job) = js \cup {k}
                       /\ k.kind = job.kind
                       /\ Fine(k, store)
                       /\ \A i : Carries(k, i) <=> Carries(job, i)
      BY <2>1, <3>1, PutGood
    <3> DEFINE k == [job EXCEPT !.n = m]
    <3>3. /\ jobs' = js \cup {k} /\ k.kind # "import" /\ Fine(k, store)
          /\ Carries(k, o) <=> Carries(job, o)
      BY <2>1, <3>2
    <3> HIDE DEF k
    <3>4. Counted(js \cup {k})
      <4>1. Counted(js) /\ Cardinality(OthersOf(js)) < MaxJobs
        BY <2>1 DEF GoodJobs, Room, OthersOf
      <4> QED
        BY <3>3, <4>1, AddedOther
    <3> QED
      BY <2>1, <3>1, <3>3, <3>4 DEF GoodJobs
  <2>2. CASE HasListing(o) /\ Room(js) /\ jobs' = Put(js, SyncJob(o, v, update)) /\ UNCHANGED errors
    <3> DEFINE job == SyncJob(o, v, update)
    <3>1. job \in SyncRecords(1) /\ job.n = 1 /\ job.kind = "sync" /\ job.order = o /\ job.version = v
      BY DEF SyncJob, SyncRecords, States
    <3> HIDE DEF job
    <3>2. Fine(job, store) /\ job.kind # "import" /\ (v = store[o].version => Carries(job, o))
      BY <3>1 DEF Fine, IsJob, Offers, Carries
    <3>3. jobs' = Put(js, job)
      BY <2>2 DEF job
    <3> QED
      BY <2>1, <2>2, <3>2, <3>3
  <2>3. CASE jobs' = js /\ errors' = IF v = store[o].version THEN errors \cup {o} ELSE errors
    BY <2>3
  <2>4. ASSUME Room(js), UNCHANGED errors, NEW need \in {"failed", "pending"},
               jobs' = Put(js, WaitJob(o, v, need))
        PROVE  /\ GoodJobs(jobs') /\ js \subseteq jobs'
               /\ errors \subseteq errors' /\ errors' \subseteq Orders
               /\ v = store[o].version => \E k \in jobs' : Carries(k, o)
    <3> DEFINE job == WaitJob(o, v, need)
    <3>1. job \in WaitRecords(1) /\ job.n = 1 /\ job.kind = "wait" /\ job.order = o /\ job.version = v
      BY DEF WaitJob, WaitRecords, States
    <3> HIDE DEF job
    <3>2. Fine(job, store) /\ job.kind # "import" /\ (v = store[o].version => Carries(job, o))
      BY <3>1 DEF Fine, IsJob, Offers, Carries
    <3>3. jobs' = Put(js, job)
      BY <2>4 DEF job
    <3> QED
      BY <2>1, <2>4, <3>2, <3>3
  <2>5. \/ HasListing(o) /\ Room(js) /\ jobs' = Put(js, SyncJob(o, v, update)) /\ UNCHANGED errors
        \/ jobs' = js /\ errors' = IF v = store[o].version THEN errors \cup {o} ELSE errors
        \/ /\ Room(js) /\ UNCHANGED errors
           /\ \E need \in {"failed", "pending"} : jobs' = Put(js, WaitJob(o, v, need))
    BY <1>2 DEF CreateJobs
  <2> QED
    BY <2>2, <2>3, <2>4, <2>5
<1> QED
  BY <1>1, <1>2

-----------------------------------------------------------------------------
(* What keeps NoChangeLost in a step that writes no order: every job that  *)
(* has a change in its hands passes it on.                                 *)

Moves ==
    /\ UNCHANGED <<store, sale, reached>>
    /\ channel'.watermark = channel.watermark
    /\ errors \subseteq errors'
    /\ \A o \in Orders : excused'[o] = None => excused[o] = None
PassedOn(j) ==
    \A o \in Orders : excused'[o] = None /\ Missing(o) /\ Carries(j, o)
        => o \in errors' \/ \E k \in jobs' : Carries(k, o)

LEMMA AccountedIs ==
    ASSUME NEW o \in Orders
    PROVE  Accounted(o) <=> \/ store[o].modified >= channel.watermark
                            \/ \E j \in jobs : Carries(j, o)
                            \/ o \in errors
BY DEF Accounted, Carries, Imports

LEMMA AccountedNext ==
    ASSUME NEW o \in Orders, store'[o] = store[o]
    PROVE  /\ \A k : Carries(k, o)' <=> Carries(k, o)
           /\ Accounted(o)' <=> \/ store[o].modified >= channel'.watermark
                                \/ \E j \in jobs' : Carries(j, o)
                                \/ o \in errors'
<1>1. \A k : Carries(k, o)' <=> Carries(k, o)
  BY DEF Carries, Matching
<1> QED
  BY <1>1 DEF Accounted, Carries, Imports

LEMMA Kept ==
    ASSUME NoChangeLost, Moves, \A j \in jobs : j \in jobs' \/ PassedOn(j)
    PROVE  NoChangeLost'
<1> SUFFICES ASSUME NEW o \in Orders, Missing(o)', excused'[o] = None
             PROVE  Accounted(o)'
  BY DEF NoChangeLost
<1>1. store'[o] = store[o] /\ Missing(o) /\ excused[o] = None
  BY DEF Moves, Missing, Wanted, Cancelled, Exists
<1>2. Accounted(o)
  BY <1>1 DEF NoChangeLost
<1>3. CASE store[o].modified >= channel.watermark
  BY <1>1, <1>3, AccountedNext DEF Moves
<1>4. CASE o \in errors
  BY <1>1, <1>4, AccountedNext DEF Moves
<1>5. CASE \E j \in jobs : Carries(j, o)
  <2>1. o \in errors' \/ \E k \in jobs' : Carries(k, o)
    BY <1>1, <1>5 DEF PassedOn
  <2> QED
    BY <1>1, <2>1, AccountedNext
<1> QED
  BY <1>2, <1>3, <1>4, <1>5, AccountedIs

(* A job that becomes one that carries what it carried.                    *)
Same(j, job) ==
    /\ Fine(job, store) /\ job.kind = j.kind
    /\ \A o : Carries(j, o) => Carries(job, o)

LEMMA BecomesSame ==
    ASSUME IInv, NEW j \in jobs, NEW job, Same(j, job), Becomes(j, job)
    PROVE  GoodJobs(jobs') /\ (\A k \in jobs : k \in jobs' \/ PassedOn(k))
<1>1. GoodJobs(jobs) /\ Fine(job, store) /\ job.kind = j.kind
  BY DEF IInv, Types, GoodJobs, Same
<1>2. /\ GoodJobs(jobs') /\ jobs \ {j} \subseteq jobs' /\ Covers(jobs', job)
  BY <1>1, Becoming DEF Becomes
<1>3. PassedOn(j)
  BY <1>2 DEF PassedOn, Covers, Same
<1> QED
  BY <1>2, <1>3

(* The kinds of the jobs there are.                                        *)
LEMMA KindsOfJobs ==
    ASSUME IInv, NEW j \in jobs
    PROVE  /\ Fine(j, store) /\ IsJob(j)
           /\ j.kind \in {"import", "sync", "wait"} /\ j.state \in States
           /\ j.kind = "import" => j \in ImportRecords(j.n)
           /\ j.kind = "sync" => j \in SyncRecords(j.n)
           /\ j.kind = "wait" => j \in WaitRecords(j.n)
<1>1. Fine(j, store) /\ IsJob(j)
  BY DEF IInv, Types, Fine
<1>2. CASE j \in ImportRecords(j.n)
  <2>1. j.kind = "import" /\ j.state \in States
    BY <1>2 DEF ImportRecords
  <2> QED
    BY <1>1, <1>2, <2>1
<1>3. CASE j \in SyncRecords(j.n)
  <2>1. j.kind = "sync" /\ j.state \in States
    BY <1>3 DEF SyncRecords
  <2> QED
    BY <1>1, <1>3, <2>1
<1>4. CASE j \in WaitRecords(j.n)
  <2>1. j.kind = "wait" /\ j.state \in States
    BY <1>4 DEF WaitRecords
  <2> QED
    BY <1>1, <1>4, <2>1
<1> QED
  BY <1>1, <1>2, <1>3, <1>4 DEF IsJob

-----------------------------------------------------------------------------
(* Steps that write no order.                                              *)

(* Excuse only adds reasons.                                               *)
LEMMA Excused ==
    ASSUME excused \in [Orders -> Reasons \cup {None}],
           NEW os, NEW why \in Reasons, excused' = Excuse(os, why)
    PROVE  /\ excused' \in [Orders -> Reasons \cup {None}]
           /\ \A o \in Orders : excused'[o] = None => o \notin os /\ excused[o] = None
BY DEF Excuse, OrderImportAssumption

(* Values of the variables that jobs have no part in.                      *)
LEMMA ValuesKept ==
    ASSUME Values, UNCHANGED <<now, store, channel, sale, reached>>,
           listed' \subseteq Products, errors' \subseteq Orders,
           excused' \in [Orders -> Reasons \cup {None}]
    PROVE  Values'
BY DEF Values, Exists

LEMMA Together ==
    ASSUME Values', GoodJobs(jobs'), store' = store, NoChangeLost'
    PROVE  IInv'
BY DEF IInv, Types, GoodJobs

(* A place in the listing: the first one is 1.                             *)
LEMMA Places ==
    ASSUME NEW j, j \in ImportRecords(j.n), NEW o \in Matching(j)
    PROVE  Place(j, o) \in Nat /\ Place(j, o) >= 1
<1> DEFINE S == {p \in Matching(j) : UpTo(j, p, o)}
<1>1. Matching(j) \subseteq Orders
  BY DEF Matching, ImportRecords
<1>2. o \in S
  <2>1. o \in Nat
    BY <1>1 DEF OrderImportAssumption
  <2>2. UpTo(j, o, o)
    BY <2>1 DEF UpTo
  <2> QED
    BY <2>2
<1>3. IsFiniteSet(S)
  BY <1>1, FS_Subset DEF OrderImportAssumption
<1> HIDE DEF S
<1>4. Cardinality(S) \in Nat /\ Cardinality(S) # 0
  BY <1>2, <1>3, FS_CardinalityType, FS_EmptySet
<1> QED
  BY <1>4 DEF Place, S

LEMMA FetchPageKeeps ==
    ASSUME IInv, NEW j \in jobs, j.kind = "import", FetchPage(j)
    PROVE  IInv'
<1> DEFINE job == [j EXCEPT !.fetched = TRUE, !.page = PageOf(j)]
<1>1. Values /\ NoChangeLost /\ GoodJobs(jobs)
  BY DEF IInv, Types, GoodJobs
<1>2. j \in ImportRecords(j.n) /\ IsJob(j)
  BY KindsOfJobs
<1>3. Matching(j) \subseteq Orders /\ \A o \in Matching(j) : store[o].version \in Nat /\ store[o].version > 0
  BY <1>1, <1>2 DEF Matching, ImportRecords, Values
<1>4. PageOf(j) \in SUBSET (Orders \X Nat) /\ \A p \in PageOf(j) : p[2] \in 1..store[p[1]].version
  BY <1>3 DEF PageOf
<1>5. /\ job \in ImportRecords(j.n) /\ job.n = j.n /\ job.kind = "import"
      /\ job.fetched = TRUE /\ job.page = PageOf(j) /\ job.from = j.from /\ job.ids = j.ids
  BY <1>2, <1>4 DEF ImportRecords
<1>6. Becomes(j, job) /\ excused' = Excuse(LeftOut(j), "page")
      /\ UNCHANGED <<now, store, channel, sale, lines, listed, errors, disturbed, reached>>
  BY DEF FetchPage
<1> HIDE DEF job
<1>7. Fine(job, store) /\ job.kind = j.kind
  BY <1>4, <1>5 DEF Fine, IsJob, Offers
<1>8. GoodJobs(jobs') /\ jobs \ {j} \subseteq jobs' /\ Covers(jobs', job)
  BY <1>1, <1>6, <1>7, Becoming DEF Becomes
<1>9. /\ excused' \in [Orders -> Reasons \cup {None}]
      /\ \A o \in Orders : excused'[o] = None => o \notin LeftOut(j) /\ excused[o] = None
  BY <1>1, <1>6, Excused DEF Values, Reasons
<1>10. PassedOn(j)
  <2> SUFFICES ASSUME NEW o \in Orders, excused'[o] = None, Carries(j, o)
               PROVE  Carries(job, o)
    BY <1>8 DEF PassedOn, Covers
  <2>1. o \in Matching(j) /\ o \notin LeftOut(j)
    BY <1>9 DEF Carries
  <2>2. Place(j, o) \in Nat /\ Place(j, o) >= 1
    BY <1>2, <2>1, Places
  <2>3. Place(j, o) \in 1..PageSize
    BY <2>1, <2>2 DEF LeftOut, OrderImportAssumption
  <2>4. <<o, store[o].version>> \in PageOf(j)
    BY <2>1, <2>3 DEF PageOf
  <2>5. Matching(job) = Matching(j)
    BY <1>5 DEF Matching
  <2> QED
    BY <1>5, <2>1, <2>4, <2>5 DEF Carries
<1>11. NoChangeLost'
  BY <1>1, <1>6, <1>8, <1>9, <1>10, Kept DEF Moves
<1>12. Values'
  BY <1>1, <1>6, <1>9, ValuesKept DEF Values
<1> QED
  BY <1>6, <1>8, <1>11, <1>12, Together

LEMMA FetchRefusedKeeps ==
    ASSUME IInv, NEW j \in jobs, j.kind = "import", FetchRefused(j)
    PROVE  IInv'
<1> DEFINE job == [j EXCEPT !.fetched = TRUE]
<1>1. Values /\ NoChangeLost /\ GoodJobs(jobs)
  BY DEF IInv, Types, GoodJobs
<1>2. j \in ImportRecords(j.n) /\ Fine(j, store)
  BY KindsOfJobs
<1>3. job \in ImportRecords(j.n) /\ job.n = j.n /\ job.kind = "import" /\ job.page = j.page
  BY <1>2 DEF ImportRecords
<1>4. Becomes(j, job) /\ excused' = Excuse(Matching(j), "refused")
      /\ UNCHANGED <<now, store, channel, sale, lines, listed, errors, reached>>
  BY DEF FetchRefused
<1> HIDE DEF job
<1>5. Fine(job, store) /\ job.kind = j.kind
  BY <1>2, <1>3 DEF Fine, IsJob, Offers
<1>6. GoodJobs(jobs') /\ jobs \ {j} \subseteq jobs'
  BY <1>1, <1>4, <1>5, Becoming DEF Becomes
<1>7. /\ excused' \in [Orders -> Reasons \cup {None}]
      /\ \A o \in Orders : excused'[o] = None => o \notin Matching(j) /\ excused[o] = None
  BY <1>1, <1>4, Excused DEF Values, Reasons
<1>8. PassedOn(j)
  BY <1>7 DEF PassedOn, Carries
<1>9. NoChangeLost'
  BY <1>1, <1>4, <1>6, <1>7, <1>8, Kept DEF Moves
<1>10. Values'
  BY <1>1, <1>4, <1>7, ValuesKept DEF Values
<1> QED
  BY <1>4, <1>6, <1>9, <1>10, Together

(* Steps that leave everything but one job alone, or the listings.         *)
LEMMA OneJobKeeps ==
    ASSUME IInv, NEW j \in jobs, NEW job, Same(j, job), Becomes(j, job),
           UNCHANGED <<now, store, channel, sale, errors, reached, excused>>,
           listed' \subseteq Products
    PROVE  IInv'
<1>1. Values /\ NoChangeLost
  BY DEF IInv, Types
<1>2. GoodJobs(jobs') /\ \A k \in jobs : k \in jobs' \/ PassedOn(k)
  BY BecomesSame
<1>3. NoChangeLost'
  BY <1>1, <1>2, Kept DEF Moves
<1>4. Values'
  BY <1>1, ValuesKept DEF Values
<1> QED
  BY <1>2, <1>3, <1>4, Together

LEMMA FetchFailsKeeps ==
    ASSUME IInv, NEW j \in jobs, j.kind = "import", FetchFails(j)
    PROVE  IInv'
<1> DEFINE job == [j EXCEPT !.state = "failed", !.page = {}, !.fetched = FALSE]
<1>1. j \in ImportRecords(j.n)
  BY KindsOfJobs
<1>2. /\ job \in ImportRecords(j.n) /\ job.n = j.n /\ job.kind = "import" /\ job.page = {}
      /\ job.fetched = FALSE /\ job.from = j.from /\ job.ids = j.ids
  BY <1>1 DEF ImportRecords, States
<1>3. Becomes(j, job) /\ UNCHANGED <<now, store, channel, sale, lines, listed, errors, reached, excused>>
  BY DEF FetchFails
<1> HIDE DEF job
<1>4. Same(j, job)
  BY <1>2 DEF Same, Fine, IsJob, Offers, Carries, Matching
<1>5. listed' \subseteq Products
  BY <1>3 DEF IInv, Types, Values
<1> QED
  BY <1>3, <1>4, <1>5, OneJobKeeps

LEMMA RequeueKeeps ==
    ASSUME IInv, NEW j \in jobs, Requeue(j)
    PROVE  IInv'
<1> DEFINE job == IF j.kind = "import" THEN ImportJob(j.from, j.ids)
                  ELSE [j EXCEPT !.state = "pending", !.retry = 0]
<1>1. Becomes(j, job) /\ UNCHANGED <<now, store, channel, sale, lines, listed, errors, reached, excused>>
  BY DEF Requeue
<1>2. ASSUME j.kind = "import" PROVE Same(j, job)
  <2>1. j \in ImportRecords(j.n) /\ job = ImportJob(j.from, j.ids)
    BY <1>2, KindsOfJobs
  <2>2. /\ job \in ImportRecords(1) /\ job.n = 1 /\ job.kind = "import" /\ job.page = {}
        /\ job.fetched = FALSE /\ job.from = j.from /\ job.ids = j.ids
    BY <2>1 DEF ImportRecords, States, ImportJob
  <2> HIDE DEF job
  <2> QED
    BY <1>2, <2>2 DEF Same, Fine, IsJob, Offers, Carries, Matching
<1>3. ASSUME j.kind = "sync" PROVE Same(j, job)
  <2>1. j \in SyncRecords(j.n) /\ Fine(j, store) /\ job = [j EXCEPT !.state = "pending", !.retry = 0]
    BY <1>3, KindsOfJobs
  <2>2. /\ job \in SyncRecords(j.n) /\ job.n = j.n /\ job.kind = "sync"
        /\ job.order = j.order /\ job.version = j.version
    BY <2>1 DEF SyncRecords, States
  <2> HIDE DEF job
  <2> QED
    BY <1>3, <2>1, <2>2 DEF Same, Fine, IsJob, Offers, Carries
<1>4. ASSUME j.kind = "wait" PROVE Same(j, job)
  <2>1. j \in WaitRecords(j.n) /\ Fine(j, store) /\ job = [j EXCEPT !.state = "pending", !.retry = 0]
    BY <1>4, KindsOfJobs
  <2>2. /\ job \in WaitRecords(j.n) /\ job.n = j.n /\ job.kind = "wait"
        /\ job.order = j.order /\ job.version = j.version
    BY <2>1 DEF WaitRecords, States
  <2> HIDE DEF job
  <2> QED
    BY <1>4, <2>1, <2>2 DEF Same, Fine, IsJob, Offers, Carries
<1>5. Same(j, job)
  BY <1>2, <1>3, <1>4, KindsOfJobs
<1> HIDE DEF job
<1>6. listed' \subseteq Products
  BY <1>1 DEF IInv, Types, Values
<1> QED
  BY <1>1, <1>5, <1>6, OneJobKeeps

(* A wait job whose need is another, or that has been tried once more.     *)
LEMMA WaitSame ==
    ASSUME IInv, NEW j \in jobs, j.kind = "wait", NEW s \in {"done", "gone", "failed"}
    PROVE  Same(j, [j EXCEPT !.need = s])
<1> DEFINE job == [j EXCEPT !.need = s]
<1>1. j \in WaitRecords(j.n) /\ Fine(j, store)
  BY KindsOfJobs
<1>2. /\ job \in WaitRecords(j.n) /\ job.n = j.n /\ job.kind = "wait"
      /\ job.order = j.order /\ job.version = j.version
  BY <1>1 DEF WaitRecords
<1> HIDE DEF job
<1>3. Same(j, job)
  BY <1>1, <1>2 DEF Same, Fine, IsJob, Offers, Carries
<1> QED
  BY <1>3 DEF job

LEMMA RetriedSame ==
    ASSUME IInv, NEW j \in jobs, j.kind # "import", Retried(j)
    PROVE  \E job : Same(j, job) /\ Becomes(j, job)
<1> DEFINE job == IF j.retry + 1 < MaxRetries THEN [j EXCEPT !.retry = @ + 1]
                                             ELSE [j EXCEPT !.state = "failed"]
<1>1. Becomes(j, job)
  BY DEF Retried
<1>2. ASSUME j.kind = "sync" PROVE Same(j, job)
  <2>1. j \in SyncRecords(j.n) /\ Fine(j, store)
    BY <1>2, KindsOfJobs
  <2>2. /\ job \in SyncRecords(j.n) /\ job.n = j.n /\ job.kind = "sync"
        /\ job.order = j.order /\ job.version = j.version
    BY <2>1 DEF SyncRecords, States
  <2> HIDE DEF job
  <2> QED
    BY <1>2, <2>1, <2>2 DEF Same, Fine, IsJob, Offers, Carries
<1>3. ASSUME j.kind = "wait" PROVE Same(j, job)
  <2>1. j \in WaitRecords(j.n) /\ Fine(j, store)
    BY <1>3, KindsOfJobs
  <2>2. /\ job \in WaitRecords(j.n) /\ job.n = j.n /\ job.kind = "wait"
        /\ job.order = j.order /\ job.version = j.version
    BY <2>1 DEF WaitRecords, States
  <2> HIDE DEF job
  <2> QED
    BY <1>3, <2>1, <2>2 DEF Same, Fine, IsJob, Offers, Carries
<1> HIDE DEF job
<1> QED
  BY <1>1, <1>2, <1>3, KindsOfJobs

LEMMA RunProductKeeps ==
    ASSUME IInv, NEW j \in jobs, j.kind = "wait", RunProduct(j)
    PROVE  IInv'
<1>1. PICK s \in {"done", "gone", "failed"} :
         Becomes(j, [j EXCEPT !.need = s]) /\ listed' \in {listed, listed \cup {Product(j.order)}}
  BY DEF RunProduct
<1>2. UNCHANGED <<now, store, channel, sale, lines, errors, disturbed, reached, excused>>
  BY DEF RunProduct
<1>3. j.order \in Orders
  BY KindsOfJobs DEF WaitRecords
<1>4. listed' \subseteq Products
  BY <1>1, <1>3 DEF IInv, Types, Values, Products
<1>5. Same(j, [j EXCEPT !.need = s])
  BY WaitSame
<1> QED
  BY <1>1, <1>2, <1>4, <1>5, OneJobKeeps

LEMMA AutovacuumKeeps ==
    ASSUME IInv, NEW j \in jobs, j.kind = "wait", Autovacuum(j)
    PROVE  IInv'
<1>1. /\ Becomes(j, [j EXCEPT !.need = "gone"])
      /\ UNCHANGED <<now, store, channel, sale, lines, listed, errors, reached, excused>>
  BY DEF Autovacuum
<1>2. listed' \subseteq Products
  BY <1>1 DEF IInv, Types, Values
<1>3. Same(j, [j EXCEPT !.need = "gone"])
  BY WaitSame
<1> QED
  BY <1>1, <1>2, <1>3, OneJobKeeps

LEMMA SyncConflictsKeeps ==
    ASSUME IInv, NEW j \in jobs, j.kind = "sync", SyncConflicts(j)
    PROVE  IInv'
<1>1. Retried(j) /\ UNCHANGED <<now, store, channel, sale, lines, listed, errors, reached, excused>>
  BY DEF SyncConflicts
<1>2. PICK job : Same(j, job) /\ Becomes(j, job)
  BY <1>1, RetriedSame
<1>3. listed' \subseteq Products
  BY <1>1 DEF IInv, Types, Values
<1> QED
  BY <1>1, <1>2, <1>3, OneJobKeeps

LEMMA EndImportKeeps ==
    ASSUME IInv, NEW j \in jobs, j.kind = "import", EndImport(j)
    PROVE  IInv'
<1>1. Values /\ NoChangeLost /\ GoodJobs(jobs)
  BY DEF IInv, Types, GoodJobs
<1>2. /\ j.fetched /\ j.page = {} /\ jobs' = jobs \ {j}
      /\ UNCHANGED <<now, store, channel, sale, lines, listed, errors, disturbed, reached, excused>>
  BY DEF EndImport
<1>3. GoodJobs(jobs')
  BY <1>1, <1>2, Dropped DEF GoodJobs
<1>4. PassedOn(j)
  BY <1>2 DEF PassedOn, Carries
<1>5. NoChangeLost'
  BY <1>1, <1>2, <1>4, Kept DEF Moves
<1>6. Values'
  BY <1>1, <1>2, ValuesKept DEF Values
<1> QED
  BY <1>2, <1>3, <1>5, <1>6, Together

LEMMA ImportOrderKeeps ==
    ASSUME IInv, NEW j \in jobs, j.kind = "import", ImportOrder(j)
    PROVE  IInv'
<1>1. Values /\ NoChangeLost /\ GoodJobs(jobs)
  BY DEF IInv, Types, GoodJobs
<1>2. j \in ImportRecords(j.n) /\ Fine(j, store)
  BY KindsOfJobs
<1>3. PICK p \in j.page : CreateJobs(Put(jobs \ {j}, [j EXCEPT !.page = @ \ {p}]),
                                     p[1], p[2], Exists(p[1]), FALSE)
  BY DEF ImportOrder
<1>4. UNCHANGED <<now, store, channel, sale, lines, listed, disturbed, reached, excused>>
  BY DEF ImportOrder
<1> DEFINE job == [j EXCEPT !.page = @ \ {p}]
           js == Put(jobs \ {j}, job)
<1>5. j.page \subseteq Orders \X Nat
  BY <1>2 DEF ImportRecords
<1>6. p[1] \in Orders /\ p[2] \in Nat /\ p = <<p[1], p[2]>> /\ p[2] \in 1..store[p[1]].version
  BY <1>2, <1>5 DEF Fine, Offers
<1>7. /\ job \in ImportRecords(j.n) /\ job.n = j.n /\ job.kind = "import" /\ job.page = j.page \ {p}
      /\ job.fetched = j.fetched /\ job.from = j.from /\ job.ids = j.ids
  BY <1>2 DEF ImportRecords
<1> HIDE DEF job
<1>8. Fine(job, store) /\ job.kind = j.kind
  BY <1>2, <1>7 DEF Fine, IsJob, Offers
<1>9. GoodJobs(js) /\ jobs \ {j} \subseteq js /\ Covers(js, job)
  BY <1>1, <1>8, Becoming
<1>10. CreateJobs(js, p[1], p[2], Exists(p[1]), FALSE)
  BY <1>3 DEF job
<1> HIDE DEF js
<1>11. store[p[1]].version \in Nat /\ errors \subseteq Orders /\ Exists(p[1]) \in BOOLEAN
  BY <1>1, <1>6 DEF Values, Exists
<1>12. /\ GoodJobs(jobs') /\ js \subseteq jobs'
       /\ errors \subseteq errors' /\ errors' \subseteq Orders
       /\ p[2] = store[p[1]].version /\ Wanted(p[1], p[2]) /\ (Exists(p[1]) => AllowUpdate)
            => p[1] \in errors' \/ \E k \in jobs' : Carries(k, p[1])
  BY <1>6, <1>9, <1>10, <1>11, Creating
<1>13. PassedOn(j)
  <2> SUFFICES ASSUME NEW o \in Orders, Missing(o), Carries(j, o)
               PROVE  o \in errors' \/ \E k \in jobs' : Carries(k, o)
    BY DEF PassedOn
  <2>1. CASE p = <<o, store[o].version>>
    <3>1. o = p[1] /\ store[o].version = p[2]
      BY <2>1
    <3> QED
      BY <1>12, <3>1 DEF Missing
  <2>2. CASE p # <<o, store[o].version>>
    <3>1. Carries(job, o)
      BY <1>7, <2>2 DEF Carries, Matching
    <3> QED
      BY <1>9, <1>12, <3>1 DEF Covers
  <2> QED
    BY <2>1, <2>2
<1>14. \A k \in jobs : k \in jobs' \/ PassedOn(k)
  BY <1>9, <1>12, <1>13
<1>15. NoChangeLost'
  BY <1>1, <1>4, <1>12, <1>14, Kept DEF Moves
<1>16. Values'
  BY <1>1, <1>4, <1>12, ValuesKept DEF Values
<1> QED
  BY <1>4, <1>12, <1>15, <1>16, Together

LEMMA WaitingProductKeeps ==
    ASSUME IInv, NEW j \in jobs, j.kind = "wait", WaitingProduct(j)
    PROVE  IInv'
<1>1. Values /\ NoChangeLost /\ GoodJobs(jobs)
  BY DEF IInv, Types, GoodJobs
<1>2. j \in WaitRecords(j.n) /\ Fine(j, store)
  BY KindsOfJobs
<1>3. UNCHANGED <<now, store, channel, sale, lines, listed, disturbed, reached, excused>>
  BY DEF WaitingProduct
<1>4. CASE Retried(j) /\ UNCHANGED errors
  <2>1. PICK job : Same(j, job) /\ Becomes(j, job)
    BY <1>4, RetriedSame
  <2>2. listed' \subseteq Products
    BY <1>1, <1>3 DEF Values
  <2> QED
    BY <1>3, <1>4, <2>1, <2>2, OneJobKeeps
<1>5. CASE CreateJobs(jobs \ {j}, j.order, j.version, Exists(j.order), j.need # "gone")
  <2>1. GoodJobs(jobs \ {j})
    BY <1>1, Dropped DEF GoodJobs
  <2>2. j.order \in Orders /\ j.version \in 1..store[j.order].version
    BY <1>2 DEF WaitRecords, Fine, Offers
  <2>3. store[j.order].version \in Nat /\ errors \subseteq Orders /\ Exists(j.order) \in BOOLEAN
    BY <1>1, <2>2 DEF Values, Exists
  <2>4. /\ GoodJobs(jobs') /\ jobs \ {j} \subseteq jobs'
        /\ errors \subseteq errors' /\ errors' \subseteq Orders
        /\ j.version = store[j.order].version /\ Wanted(j.order, j.version) /\ (Exists(j.order) => AllowUpdate)
             => j.order \in errors' \/ \E k \in jobs' : Carries(k, j.order)
    BY <1>5, <2>1, <2>2, <2>3, Creating
  <2>5. PassedOn(j)
    BY <2>4 DEF PassedOn, Missing, Carries
  <2>6. NoChangeLost'
    BY <1>1, <1>3, <2>4, <2>5, Kept DEF Moves
  <2>7. Values'
    BY <1>1, <1>3, <2>4, ValuesKept DEF Values
  <2> QED
    BY <1>3, <2>4, <2>6, <2>7, Together
<1> QED
  BY <1>4, <1>5 DEF WaitingProduct

(* A new import is one more job, with nothing fetched.                     *)
LEMMA NewImportAdds ==
    ASSUME GoodJobs(jobs), NEW from \in Nat \cup {None}, NEW ids \in SUBSET Orders,
           NewImport(from, ids)
    PROVE  GoodJobs(jobs') /\ jobs \subseteq jobs' /\ Covers(jobs', ImportJob(from, ids))
<1> DEFINE job == ImportJob(from, ids)
<1>1. job \in ImportRecords(1) /\ job.n = 1 /\ job.kind = "import" /\ job.page = {}
  BY DEF ImportRecords, ImportJob, States
<1>2. jobs' = Put(jobs, job) /\ Cardinality(ImportsOf(jobs)) < MaxImports
  BY DEF NewImport, Imports, ImportsOf
<1> HIDE DEF job
<1>3. Fine(job, store)
  BY <1>1 DEF Fine, IsJob, Offers
<1>4. \A k \in jobs : Fine(k, store)
  BY DEF GoodJobs
<1>5. PICK m : LET k == [job EXCEPT !.n = m]
               IN  /\ Put(jobs, job) = jobs \cup {k}
                   /\ k.kind = job.kind
                   /\ Fine(k, store)
                   /\ \A o : Carries(k, o) <=> Carries(job, o)
  BY <1>3, <1>4, PutGood
<1> DEFINE k == [job EXCEPT !.n = m]
<1>6. /\ jobs' = jobs \cup {k} /\ k.kind = "import" /\ Fine(k, store)
      /\ \A o : Carries(k, o) <=> Carries(job, o)
  BY <1>1, <1>2, <1>5
<1> HIDE DEF k
<1>7. Counted(jobs \cup {k})
  BY <1>2, <1>6, AddedImport DEF GoodJobs
<1>8. GoodJobs(jobs') /\ jobs \subseteq jobs' /\ Covers(jobs', job)
  BY <1>4, <1>6, <1>7 DEF GoodJobs, Covers
<1> QED
  BY <1>8 DEF job

(* The import asks for what was the watermark's, so that what the          *)
(* watermark passes over is what the import carries.                       *)
LEMMA CheckNewOrdersKeeps ==
    ASSUME IInv, CheckNewOrders
    PROVE  IInv'
<1>1. Values /\ NoChangeLost /\ GoodJobs(jobs)
  BY DEF IInv, Types, GoodJobs
<1>2. /\ NewImport(channel.watermark, Orders)
      /\ channel' = [channel EXCEPT !.watermark = now]
      /\ UNCHANGED <<now, store, sale, lines, listed, errors, disturbed, reached, excused>>
  BY DEF CheckNewOrders
<1>3. channel.watermark \in Nat /\ channel.watermark \in Nat \cup {None} /\ channel.watermark # None
  BY <1>1 DEF Values, OrderImportAssumption
<1> DEFINE job == ImportJob(channel.watermark, Orders)
<1>4. GoodJobs(jobs') /\ jobs \subseteq jobs' /\ Covers(jobs', job)
  BY <1>1, <1>2, <1>3, NewImportAdds
<1>5. job.kind = "import" /\ job.from = channel.watermark /\ job.ids = Orders /\ job.fetched = FALSE
  BY DEF ImportJob
<1> HIDE DEF job
<1>6. ASSUME NEW o \in Orders, Missing(o)', excused'[o] = None
      PROVE  Accounted(o)'
  <2>1. store'[o] = store[o] /\ Missing(o) /\ excused[o] = None
    BY <1>2, <1>6 DEF Missing, Wanted, Cancelled, Exists
  <2>2. Accounted(o)
    BY <1>1, <2>1 DEF NoChangeLost
  <2>3. CASE store[o].modified >= channel.watermark
    <3>1. reached[o] \in Nat /\ store[o].version \in Nat /\ store[o].version > reached[o]
      BY <1>1, <2>1 DEF Values, Missing
    <3>2. o \in Matching(job)
      BY <1>5, <2>3, <3>1 DEF Matching
    <3>3. Carries(job, o)
      BY <1>5, <3>2 DEF Carries
    <3> QED
      BY <1>4, <2>1, <3>3, AccountedNext DEF Covers
  <2>4. CASE o \in errors
    BY <1>2, <2>1, <2>4, AccountedNext
  <2>5. CASE \E k \in jobs : Carries(k, o)
    BY <1>4, <2>1, <2>5, AccountedNext
  <2> QED
    BY <2>2, <2>3, <2>4, <2>5, AccountedIs
<1>7. NoChangeLost'
  BY <1>6 DEF NoChangeLost
<1>8. Values'
  BY <1>1, <1>2 DEF Values, Exists
<1> QED
  BY <1>2, <1>4, <1>7, <1>8, Together

LEMMA ImportManuallyKeeps ==
    ASSUME IInv, ImportManually
    PROVE  IInv'
<1>1. Values /\ NoChangeLost /\ GoodJobs(jobs)
  BY DEF IInv, Types, GoodJobs
<1>2. PICK low \in Orders, high \in Orders : NewImport(None, Orders \cap low..high)
  BY DEF ImportManually
<1>3. UNCHANGED <<now, store, channel, sale, lines, listed, errors, reached, excused>>
  BY DEF ImportManually
<1> DEFINE ids == Orders \cap low..high
<1>4. ids \in SUBSET Orders /\ None \in Nat \cup {None} /\ NewImport(None, ids)
  BY <1>2
<1> HIDE DEF ids
<1>5. GoodJobs(jobs') /\ jobs \subseteq jobs'
  BY <1>1, <1>4, NewImportAdds
<1>6. NoChangeLost'
  BY <1>1, <1>3, <1>5, Kept DEF Moves
<1>7. Values'
  BY <1>1, <1>3, ValuesKept DEF Values
<1> QED
  BY <1>3, <1>5, <1>6, <1>7, Together

-----------------------------------------------------------------------------
(* The world and people.                                                   *)

LEMMA TickKeeps ==
    ASSUME IInv, Tick
    PROVE  IInv'
<1>1. Values /\ NoChangeLost /\ GoodJobs(jobs)
  BY DEF IInv, Types, GoodJobs
<1>2. /\ now < MaxTime /\ now' = now + 1
      /\ UNCHANGED <<store, channel, sale, lines, listed, jobs, errors, disturbed, reached, excused>>
  BY DEF Tick
<1>3. NoChangeLost'
  BY <1>1, <1>2, Kept DEF Moves
<1>4. now \in 0..MaxTime /\ now' \in 0..MaxTime /\ 0..now \subseteq 0..now'
  BY <1>1, <1>2 DEF Values, OrderImportAssumption
<1>5. /\ store' \in [Orders -> [version : Nat, modified : 0..now']]
      /\ channel' \in [active : BOOLEAN, watermark : 0..now']
  BY <1>1, <1>2, <1>4 DEF Values
<1>6. Values'
  BY <1>1, <1>2, <1>4, <1>5 DEF Values, Exists
<1> QED
  BY <1>1, <1>2, <1>3, <1>6, Together

LEMMA ChangeKeeps ==
    ASSUME IInv, NEW c \in Orders, Change(c)
    PROVE  IInv'
<1>1. Values /\ NoChangeLost /\ GoodJobs(jobs)
  BY DEF IInv, Types, GoodJobs
<1>2. /\ store' = [store EXCEPT ![c] = [version |-> @.version + 1, modified |-> now]]
      /\ excused' = [excused EXCEPT ![c] = None] /\ errors' = errors \ {c}
      /\ UNCHANGED <<now, channel, sale, lines, listed, jobs, disturbed, reached>>
  BY DEF Change
<1>3. /\ store \in [Orders -> [version : Nat, modified : 0..now]] /\ now \in Nat
      /\ store'[c].version = store[c].version + 1 /\ store'[c].modified = now
      /\ \A o \in Orders \ {c} : store'[o] = store[o]
  BY <1>1, <1>2 DEF Values
<1>4. \A o \in Orders : 1..store[o].version \subseteq 1..store'[o].version
  BY <1>3
<1>5. store' \in [Orders -> [version : Nat, modified : 0..now']]
  BY <1>2, <1>3
<1>6. Values'
  <2>1. \A o \in Orders : Exists(o)' => sale'[o].version \in 1..store'[o].version
    BY <1>1, <1>2, <1>4 DEF Values, Exists
  <2> QED
    BY <1>1, <1>2, <1>5, <2>1 DEF Values
<1>7. \A j \in jobs : Fine(j, store')
  <2> SUFFICES ASSUME NEW j \in jobs, NEW p \in Offers(j)
               PROVE  p[2] \in 1..store'[p[1]].version
    BY <1>1 DEF GoodJobs, Fine
  <2>1. p[2] \in 1..store[p[1]].version /\ IsJob(j)
    BY <1>1 DEF GoodJobs, Fine
  <2>2. p[1] \in Orders
    BY <2>1 DEF IsJob, Offers, ImportRecords, SyncRecords, WaitRecords
  <2> QED
    BY <1>4, <2>1, <2>2
<1>8. ASSUME NEW o \in Orders, Missing(o)', excused'[o] = None
      PROVE  Accounted(o)'
  <2>1. CASE o = c
    BY <1>1, <1>2, <1>3, <2>1 DEF Values, Accounted
  <2>2. CASE o # c
    <3>1. store'[o] = store[o] /\ excused[o] = None
      BY <1>1, <1>2, <1>3, <1>8, <2>2 DEF Values
    <3>2. Missing(o)
      BY <1>2, <1>8, <3>1 DEF Missing, Wanted, Cancelled, Exists
    <3>3. Accounted(o)
      BY <1>1, <3>1, <3>2 DEF NoChangeLost
    <3> QED
      BY <1>2, <2>2, <3>1, <3>3, AccountedIs, AccountedNext
  <2> QED
    BY <2>1, <2>2
<1>9. NoChangeLost'
  BY <1>8 DEF NoChangeLost
<1> QED
  BY <1>1, <1>2, <1>6, <1>7, <1>9 DEF IInv, Types, GoodJobs

LEMMA DisconnectKeeps ==
    ASSUME IInv, Disconnect
    PROVE  IInv'
<1>1. Values /\ NoChangeLost /\ GoodJobs(jobs)
  BY DEF IInv, Types, GoodJobs
<1>2. /\ channel' = [channel EXCEPT !.active = FALSE]
      /\ UNCHANGED <<now, store, sale, lines, listed, jobs, errors, reached, excused>>
  BY DEF Disconnect
<1>3. channel' \in [active : BOOLEAN, watermark : 0..now] /\ channel'.watermark = channel.watermark
  BY <1>1, <1>2 DEF Values
<1>4. NoChangeLost'
  BY <1>1, <1>2, <1>3, Kept DEF Moves
<1>5. Values'
  BY <1>1, <1>2, <1>3 DEF Values, Exists
<1> QED
  BY <1>1, <1>2, <1>4, <1>5, Together

LEMMA ReconnectKeeps ==
    ASSUME IInv, Reconnect
    PROVE  IInv'
<1> DEFINE passed == {o \in Orders : store[o].modified \in channel.watermark..(now - 1)}
<1>1. Values /\ NoChangeLost /\ GoodJobs(jobs)
  BY DEF IInv, Types, GoodJobs
<1>2. /\ channel' = [active |-> TRUE, watermark |-> now]
      /\ excused' = Excuse(passed, "reconnect")
      /\ UNCHANGED <<now, store, sale, lines, listed, jobs, errors, disturbed, reached>>
  BY DEF Reconnect
<1>3. /\ excused' \in [Orders -> Reasons \cup {None}]
      /\ \A o \in Orders : excused'[o] = None => o \notin passed /\ excused[o] = None
  <2> HIDE DEF passed
  <2> QED
    BY <1>1, <1>2, Excused DEF Values, Reasons
<1>4. ASSUME NEW o \in Orders, Missing(o)', excused'[o] = None
      PROVE  Accounted(o)'
  <2>1. store'[o] = store[o] /\ Missing(o) /\ excused[o] = None
    BY <1>2, <1>3, <1>4 DEF Missing, Wanted, Cancelled, Exists
  <2>2. Accounted(o)
    BY <1>1, <2>1 DEF NoChangeLost
  <2>3. CASE store[o].modified >= channel.watermark
    <3>1. /\ store[o].modified \in 0..now /\ now \in Nat /\ channel.watermark \in Nat
          /\ ~(store[o].modified \in channel.watermark..(now - 1))
      BY <1>1, <1>3, <1>4 DEF Values
    <3>2. store[o].modified >= channel'.watermark
      BY <1>2, <2>3, <3>1
    <3> QED
      BY <2>1, <3>2, AccountedNext
  <2>4. CASE \E k \in jobs : Carries(k, o)
    BY <1>2, <2>1, <2>4, AccountedNext
  <2>5. CASE o \in errors
    BY <1>2, <2>1, <2>5, AccountedNext
  <2> QED
    BY <2>2, <2>3, <2>4, <2>5, AccountedIs
<1>5. NoChangeLost'
  BY <1>4 DEF NoChangeLost
<1>6. Values'
  BY <1>1, <1>2, <1>3 DEF Values, Exists
<1> QED
  BY <1>1, <1>2, <1>5, <1>6, Together

-----------------------------------------------------------------------------
(* Steps that write an order.  What they leave missing was missing before, *)
(* and nothing that carries it goes away.                                  *)

Lighter ==
    \A o \in Orders : Missing(o)' /\ excused'[o] = None
        => /\ Missing(o) /\ excused[o] = None
           /\ \A j \in jobs : Carries(j, o) => \E k \in jobs' : Carries(k, o)

LEMMA KeptWriting ==
    ASSUME NoChangeLost, UNCHANGED <<store, channel, errors>>, Lighter
    PROVE  NoChangeLost'
<1> SUFFICES ASSUME NEW o \in Orders, Missing(o)', excused'[o] = None
             PROVE  Accounted(o)'
  BY DEF NoChangeLost
<1>1. Accounted(o)
  BY DEF NoChangeLost, Lighter
<1>2. \A j \in jobs : Carries(j, o) => \E k \in jobs' : Carries(k, o)
  BY DEF Lighter
<1>3. store'[o] = store[o]
  OBVIOUS
<1>4. CASE \E j \in jobs : Carries(j, o)
  BY <1>2, <1>3, <1>4, AccountedNext
<1>5. CASE store[o].modified >= channel.watermark \/ o \in errors
  BY <1>3, <1>5, AccountedNext
<1> QED
  BY <1>1, <1>4, <1>5, AccountedIs

LEMMA CancelKeeps ==
    ASSUME IInv, NEW c \in Orders, Cancel(c)
    PROVE  IInv'
<1>1. Values /\ NoChangeLost /\ GoodJobs(jobs)
  BY DEF IInv, Types, GoodJobs
<1>2. /\ Exists(c) /\ sale' = [sale EXCEPT ![c].state = "cancel"]
      /\ UNCHANGED <<now, store, channel, lines, listed, jobs, errors, reached, excused>>
  BY DEF Cancel
<1>3. sale[c] \in Sales
  BY <1>1, <1>2 DEF Values, Exists
<1>4. /\ sale'[c] = [sale[c] EXCEPT !.state = "cancel"] /\ sale'[c] \in Sales
      /\ sale'[c].state = "cancel" /\ sale'[c].version = sale[c].version
      /\ \A o \in Orders \ {c} : sale'[o] = sale[o]
      /\ sale' \in [Orders -> Sales \cup {None}]
  BY <1>1, <1>2, <1>3 DEF Values, Sales
<1>5. sale'[c] # None
  BY <1>4 DEF OrderImportAssumption
<1>6. Lighter
  <2> SUFFICES ASSUME NEW o \in Orders, Missing(o)', excused'[o] = None
               PROVE  Missing(o) /\ excused[o] = None
    BY <1>2 DEF Lighter
  <2>1. o # c
    BY <1>4, <1>5 DEF Missing, Wanted, Cancelled, Exists
  <2> QED
    BY <1>2, <1>4, <2>1 DEF Missing, Wanted, Cancelled, Exists
<1>7. NoChangeLost'
  BY <1>1, <1>2, <1>6, KeptWriting
<1>8. \A o \in Orders : Exists(o)' => sale'[o].version \in 1..store'[o].version
  BY <1>1, <1>2, <1>4 DEF Values, Exists
<1>9. Values'
  BY <1>1, <1>2, <1>4, <1>8 DEF Values
<1> QED
  BY <1>1, <1>2, <1>7, <1>9, Together

LEMMA UnlinkKeeps ==
    ASSUME IInv, NEW c \in Orders, Unlink(c)
    PROVE  IInv'
<1>1. Values /\ NoChangeLost /\ GoodJobs(jobs)
  BY DEF IInv, Types, GoodJobs
<1>2. /\ sale' = [sale EXCEPT ![c] = None] /\ excused' = Excuse({c}, "unlink")
      /\ UNCHANGED <<now, store, channel, listed, jobs, errors, reached>>
  BY DEF Unlink
<1>3. /\ excused' \in [Orders -> Reasons \cup {None}]
      /\ \A o \in Orders : excused'[o] = None => o \notin {c} /\ excused[o] = None
  BY <1>1, <1>2, Excused DEF Values, Reasons
<1>4. /\ sale' \in [Orders -> Sales \cup {None}] /\ sale'[c] = None
      /\ \A o \in Orders \ {c} : sale'[o] = sale[o]
  BY <1>1, <1>2 DEF Values
<1>5. Lighter
  <2> SUFFICES ASSUME NEW o \in Orders, Missing(o)', excused'[o] = None
               PROVE  Missing(o) /\ excused[o] = None
    BY <1>2 DEF Lighter
  <2>1. o # c /\ excused[o] = None
    BY <1>3
  <2> QED
    BY <1>2, <1>4, <2>1 DEF Missing, Wanted, Cancelled, Exists
<1>6. NoChangeLost'
  BY <1>1, <1>2, <1>5, KeptWriting
<1>7. \A o \in Orders : Exists(o)' => sale'[o].version \in 1..store'[o].version
  BY <1>1, <1>2, <1>4 DEF Values, Exists
<1>8. Values'
  BY <1>1, <1>2, <1>3, <1>4, <1>7 DEF Values
<1> QED
  BY <1>1, <1>2, <1>6, <1>8, Together

(* An order that is written has reached the version of the job, and the    *)
(* store's newest version cannot be missing then.                          *)
LEMMA WritesKeeps ==
    ASSUME IInv, NEW j \in jobs, j.kind = "sync", NEW written, NEW state \in {"draft", "sale", "cancel"},
           Writes(j, written, state), UNCHANGED <<now, store, channel, listed, errors, excused>>,
           Exists(j.order) => state = sale[j.order].state
    PROVE  IInv'
<1> DEFINE c == j.order
<1>1. Values /\ NoChangeLost /\ GoodJobs(jobs)
  BY DEF IInv, Types, GoodJobs
<1>2. j \in SyncRecords(j.n) /\ Fine(j, store)
  BY KindsOfJobs
<1>3. c \in Orders /\ j.version \in Nat /\ j.version \in 1..store[c].version
  BY <1>2 DEF SyncRecords, Fine, Offers
<1>4. PICK s \in {state} \cup (IF state = "draft" THEN {"sale"} ELSE {}) :
         sale' = [sale EXCEPT ![c] = [version |-> j.version, state |-> s]]
  BY DEF Writes
<1>5. /\ reached' = [reached EXCEPT ![c] = IF j.version > @ THEN j.version ELSE @]
      /\ jobs' = jobs \ {j}
  BY DEF Writes
<1> HIDE DEF c
<1>6. s \in {"draft", "sale", "cancel"} /\ (s # "cancel" => state # "cancel")
  BY <1>4
<1>7. /\ sale' \in [Orders -> Sales \cup {None}]
      /\ sale'[c] = [version |-> j.version, state |-> s]
      /\ \A o \in Orders \ {c} : sale'[o] = sale[o]
  BY <1>1, <1>3, <1>4, <1>6 DEF Values, Sales
<1>8. /\ reached' \in [Orders -> Nat] /\ reached'[c] >= j.version /\ reached'[c] >= reached[c]
      /\ \A o \in Orders \ {c} : reached'[o] = reached[o]
  <2>1. reached[c] \in Nat
    BY <1>1, <1>3 DEF Values
  <2> QED
    BY <1>1, <1>3, <1>5, <2>1 DEF Values
<1>9. [version |-> j.version, state |-> s] \in Sales
  BY <1>3, <1>6 DEF Sales
<1>10. sale'[c] # None /\ sale'[c].state = s /\ sale'[c].version = j.version
  BY <1>7, <1>9 DEF OrderImportAssumption
<1>11. Lighter
  <2> SUFFICES ASSUME NEW o \in Orders, Missing(o)', excused'[o] = None
               PROVE  /\ Missing(o) /\ excused[o] = None
                      /\ \A k \in jobs : Carries(k, o) => \E m \in jobs' : Carries(m, o)
    BY DEF Lighter
  <2>1. CASE o = c
    <3>1. /\ store[c].version \in Nat /\ reached[c] \in Nat /\ reached'[c] \in Nat
          /\ store[c].version > reached'[c]
      BY <1>1, <1>3, <1>8, <2>1 DEF Values, Missing
    <3>2. store[c].version > reached[c] /\ store[c].version # j.version
      BY <1>3, <1>8, <3>1
    <3>3. s # "cancel"
      BY <1>10, <2>1 DEF Missing, Wanted, Cancelled, Exists
    <3>4. ~Cancelled(c)
      BY <1>6, <3>3 DEF Cancelled, Exists, c
    <3>5. AllowUpdate /\ <<c, store[c].version>> \in Accepted
      BY <1>10, <2>1 DEF Missing, Wanted, Exists
    <3>6. Missing(o)
      BY <2>1, <3>2, <3>4, <3>5 DEF Missing, Wanted
    <3>7. ~Carries(j, o)
      BY <2>1, <3>2 DEF Carries
    <3> QED
      BY <1>5, <3>6, <3>7
  <2>2. CASE o # c
    <3>1. Missing(o)
      BY <1>7, <1>8, <2>2 DEF Missing, Wanted, Cancelled, Exists
    <3>2. ~Carries(j, o)
      BY <2>2 DEF Carries, c
    <3> QED
      BY <1>5, <3>1, <3>2
  <2> QED
    BY <2>1, <2>2
<1>12. NoChangeLost'
  BY <1>1, <1>11, KeptWriting
<1>13. \A o \in Orders : Exists(o)' => sale'[o].version \in 1..store'[o].version
  <2> SUFFICES ASSUME NEW o \in Orders, sale'[o] # None
               PROVE  sale'[o].version \in 1..store[o].version
    BY DEF Exists
  <2>1. CASE o = c
    BY <1>3, <1>10, <2>1
  <2>2. CASE o # c
    BY <1>1, <1>7, <2>2 DEF Values, Exists
  <2> QED
    BY <2>1, <2>2
<1>14. Values'
  BY <1>1, <1>7, <1>8, <1>13 DEF Values
<1>15. GoodJobs(jobs')
  BY <1>1, <1>5, Dropped DEF GoodJobs
<1> QED
  BY <1>12, <1>14, <1>15, Together

LEMMA RunSyncKeeps ==
    ASSUME IInv, NEW j \in jobs, j.kind = "sync", RunSync(j)
    PROVE  IInv'
<1>1. UNCHANGED <<now, store, channel, listed, errors, disturbed, excused>>
  BY DEF RunSync
<1>2. j \in SyncRecords(j.n) /\ Fine(j, store) /\ j.order \in Orders
  BY KindsOfJobs DEF SyncRecords
<1>3. CASE Fails(j)
  <2> DEFINE job == [j EXCEPT !.state = "failed"]
  <2>1. Becomes(j, job) /\ UNCHANGED <<sale, lines, reached>>
    BY <1>3 DEF Fails
  <2>2. /\ job \in SyncRecords(j.n) /\ job.n = j.n /\ job.kind = "sync"
        /\ job.order = j.order /\ job.version = j.version
    BY <1>2 DEF SyncRecords, States
  <2> HIDE DEF job
  <2>3. Same(j, job)
    BY <1>2, <2>2 DEF Same, Fine, IsJob, Offers, Carries
  <2>4. listed' \subseteq Products
    BY <1>1 DEF IInv, Types, Values
  <2> QED
    BY <1>1, <2>1, <2>3, <2>4, OneJobKeeps
<1>4. CASE ~Exists(j.order) /\ Writes(j, Imported(j), "draft")
  BY <1>1, <1>4, WritesKeeps
<1>5. ASSUME Exists(j.order), NEW written, Writes(j, written, sale[j.order].state)
      PROVE  IInv'
  <2>1. sale[j.order].state \in {"draft", "sale", "cancel"}
    BY <1>2, <1>5 DEF IInv, Types, Values, Exists, Sales
  <2> QED
    BY <1>1, <1>5, <2>1, WritesKeeps
<1>6. \/ Fails(j)
      \/ ~Exists(j.order) /\ Writes(j, Imported(j), "draft")
      \/ Exists(j.order) /\ \E written : Writes(j, written, sale[j.order].state)
  BY DEF RunSync, CreateSale, UpdateSale
<1> QED
  BY <1>3, <1>4, <1>5, <1>6

-----------------------------------------------------------------------------
(* The theorems.                                                           *)

LEMMA InitHolds == Init => IInv
<1> SUFFICES ASSUME Init PROVE IInv
  OBVIOUS
<1>1. Values
  BY DEF Init, Values, Exists, OrderImportAssumption
<1>2. Counted(jobs)
  <2>1. jobs = {} /\ ImportsOf({}) = {} /\ OthersOf({}) = {}
    BY DEF Init, ImportsOf, OthersOf
  <2> QED
    BY <2>1, FS_EmptySet DEF Counted, OrderImportAssumption
<1>3. NoChangeLost
  BY DEF Init, NoChangeLost, Missing
<1> QED
  BY <1>1, <1>2, <1>3 DEF IInv, Types, Init

LEMMA StepKeeps == IInv /\ [Next]_vars => IInv'
<1> SUFFICES ASSUME IInv, [Next]_vars PROVE IInv'
  OBVIOUS
<1>1. CASE UNCHANGED vars
  <2>1. Values' /\ GoodJobs(jobs')
    BY <1>1 DEF vars, IInv, Types, Values, Exists, GoodJobs
  <2>2. NoChangeLost'
    BY <1>1, Kept DEF vars, IInv, Moves
  <2> QED
    BY <1>1, <2>1, <2>2, Together DEF vars
<1>2. CASE Tick \/ CheckNewOrders \/ ImportManually \/ Disconnect \/ Reconnect
  BY <1>2, TickKeeps, CheckNewOrdersKeeps, ImportManuallyKeeps, DisconnectKeeps, ReconnectKeeps
<1>3. CASE \E o \in Orders : Change(o) \/ Cancel(o) \/ Unlink(o)
  BY <1>3, ChangeKeeps, CancelKeeps, UnlinkKeeps
<1>4. CASE \E j \in Pending("import") : Import(j) \/ FetchRefused(j) \/ FetchFails(j)
  BY <1>4, FetchPageKeeps, ImportOrderKeeps, EndImportKeeps, FetchRefusedKeeps, FetchFailsKeeps
     DEF Pending, Import
<1>5. CASE \E j \in Pending("wait") : WaitingProduct(j) \/ RunProduct(j) \/ Autovacuum(j)
  BY <1>5, WaitingProductKeeps, RunProductKeeps, AutovacuumKeeps DEF Pending
<1>6. CASE \E j \in Pending("sync") : RunSync(j) \/ SyncConflicts(j)
  BY <1>6, RunSyncKeeps, SyncConflictsKeeps DEF Pending
<1>7. CASE \E j \in jobs : Requeue(j)
  BY <1>7, RequeueKeeps
<1> QED
  BY <1>1, <1>2, <1>3, <1>4, <1>5, <1>6, <1>7 DEF Next

(* The inductive invariant: the values, the jobs and what they carry, and  *)
(* that every change is accounted for.                                     *)
THEOREM OrderImportInvariant == Spec => []IInv
<1>1. Init => IInv
  BY InitHolds
<1>2. IInv /\ [Next]_vars => IInv'
  BY StepKeeps
<1> QED
  BY <1>1, <1>2, PTL DEF Spec

(* Every reachable state has the types of TypeOK, within the bounds on the *)
(* numbers of jobs.                                                        *)
THEOREM OrderImportTyped == Spec => []TypeOK
<1>1. IInv => TypeOK
  <2> SUFFICES ASSUME IInv PROVE TypeOK
    OBVIOUS
  <2>1. Imports = ImportsOf(jobs) /\ jobs \ Imports = OthersOf(jobs)
    BY DEF Imports, ImportsOf, OthersOf
  <2>2. \A j \in jobs : j.state \in {"pending", "failed"}
    BY KindsOfJobs DEF States
  <2> QED
    BY <2>1, <2>2 DEF IInv, Types, Values, Counted, TypeOK
<1> QED
  BY <1>1, OrderImportInvariant, PTL

(* No change of an order is lost without a trace (channel_import_order,    *)
(* bigcommerce_import_orders, create_jobs_for_synching, waiting_product):  *)
(* for any orders, contents, settings, page size and numbers of jobs.      *)
THEOREM NoChangeIsLost == Spec => []NoChangeLost
<1>1. IInv => NoChangeLost
  BY DEF IInv
<1> QED
  BY <1>1, OrderImportInvariant, PTL
=============================================================================
