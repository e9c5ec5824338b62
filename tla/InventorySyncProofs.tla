------------------------ MODULE InventorySyncProofs -------------------------
(***************************************************************************)
(* Proofs about InventorySync, for any channels, products, listings,       *)
(* settings and bounds: the types, and that no wrong level on a store is   *)
(* forgotten.  What a synchronisation has read may be stale when it        *)
(* commits; the invariant says what of it still holds.                     *)
(***************************************************************************)
EXTENDS InventorySync, FiniteSetTheorems, TLAPS

USE InventorySyncAssumption

-----------------------------------------------------------------------------
(* Levels, chunks and runs.                                                *)

LEMMA LevelIsInt ==
    ASSUME NEW s \in SettingRecords, NEW q \in Nat
    PROVE  Level(s, q) \in Int
<1> DEFINE share == (q * s.percentage) \div 100
<1>1. s.percentage \in Nat /\ s.maximum \in Nat \cup {None} /\ s.minimum \in Nat \cup {None}
  BY DEF SettingRecords
<1>2. q * s.percentage \in Nat
  BY <1>1
<1>3. share \in Int
  BY <1>2
<1> HIDE DEF share
<1>4. Level(s, q) = CASE s.maximum # None /\ share > s.maximum -> s.maximum
                      [] s.minimum # None /\ share < s.minimum -> s.minimum
                      [] OTHER -> share
  BY DEF Level, share
<1>5. QED
  BY <1>1, <1>3, <1>4

(* A map from a finite set, and what it makes.                             *)
LEMMA FiniteImage ==
    ASSUME NEW S, IsFiniteSet(S), NEW f, DOMAIN f = S
    PROVE  /\ IsFiniteSet({f[x] : x \in S})
           /\ Cardinality({f[x] : x \in S}) <= Cardinality(S)
<1> DEFINE T == {f[x] : x \in S}
<1>1. [x \in S |-> f[x]] \in Surjection(S, T)
  BY DEF Surjection
<1>2. QED
  BY <1>1, FS_Surjection

(* The chunks of a set are parts of it.                                    *)
LEMMA CutParts ==
    ASSUME NEW S, S \subseteq Products
    PROVE  /\ Cut(S) \subseteq SUBSET S
           /\ IsFiniteSet(Cut(S))
           /\ Cardinality(Cut(S)) \in Nat
           /\ \A p \in S : \E C \in Cut(S) : p \in C
<1>1. Cut(S) \subseteq SUBSET S
  BY DEF Cut
<1>2. IsFiniteSet(SUBSET S)
  BY FS_Subset, FS_SUBSET
<1>3. \A p \in S : \E C \in Cut(S) : p \in C
  <2> TAKE p \in S
  <2> DEFINE C == {q \in S : Place(S, q) = Place(S, p)}
  <2>1. C \in Cut(S) /\ p \in C
    BY DEF Cut
  <2> QED
    BY <2>1
<1>4. QED
  BY <1>1, <1>2, <1>3, FS_Subset, FS_CardinalityType

(* The number of a new run is no other job's.                              *)
LEMMA FreshRunIsFresh ==
    ASSUME TypeOK
    PROVE  /\ FreshRun \in Nat
           /\ \A j \in jobs \ {sync.job} : j.kind = "bulk" \/ j.run # FreshRun
<1> DEFINE N == Cardinality(jobs)
           f == [j \in jobs |-> IF j.kind = "bulk" THEN 0 ELSE j.run]
           Taken == {f[j] : j \in jobs}
           Fresh(r) == \A j \in jobs \ {sync.job} : j.kind = "bulk" \/ j.run # r
<1>1. IsFiniteSet(jobs) /\ N \in Nat
  BY FS_CardinalityType DEF TypeOK, Types
<1>2. IsFiniteSet(Taken) /\ Cardinality(Taken) <= N
  <2>1. DOMAIN f = jobs
    OBVIOUS
  <2> HIDE DEF f
  <2> QED
    BY <1>1, <2>1, FiniteImage
<1>3. PICK r \in 1..(N + 1) : r \notin Taken
  <2> SUFFICES ASSUME 1..(N + 1) \subseteq Taken PROVE FALSE
    OBVIOUS
  <2> HIDE DEF Taken, N
  <2>1. Cardinality(1..(N + 1)) = N + 1
    BY <1>1, FS_Interval
  <2>2. Cardinality(1..(N + 1)) <= Cardinality(Taken) /\ Cardinality(Taken) \in Nat
    BY <1>2, FS_Subset, FS_CardinalityType
  <2> QED
    BY <1>1, <1>2, <2>1, <2>2
<1>4. Fresh(r)
  BY <1>3
<1>5. FreshRun = CHOOSE n \in 1..(N + 1) : Fresh(n)
  BY DEF FreshRun
<1> HIDE DEF Fresh, N
<1>6. FreshRun \in 1..(N + 1) /\ Fresh(FreshRun)
  BY <1>3, <1>4, <1>5
<1>7. QED
  BY <1>1, <1>6 DEF Fresh

(* The jobs that a notification waits for, among the jobs J; there are no  *)
(* more of them than it was told.                                          *)
OfIn(J, n) == {j \in J : j.kind = "chunk" /\ j.run = n.run /\ j.channel = n.channel}
Counted(J) ==
    \A n \in J : n.kind = "notify" => n.chunks \in Nat /\ Cardinality(OfIn(J, n)) <= n.chunks

(* Jobs that come from other jobs, each chunk from one of its run.         *)
LEMMA CountedByImage ==
    ASSUME NEW J, IsFiniteSet(J), Counted(J), NEW K, NEW g \in [J -> K],
           \A k \in K : k.kind = "chunk" =>
              \E j \in J : /\ j.kind = "chunk" /\ j.run = k.run /\ j.channel = k.channel
                         /\ g[j] = k,
           \A n \in K : n.kind = "notify" =>
              \E m \in J : /\ m.kind = "notify" /\ m.run = n.run /\ m.channel = n.channel
                         /\ m.chunks = n.chunks
    PROVE  Counted(K)
<1> SUFFICES ASSUME NEW n \in K, n.kind = "notify"
             PROVE  n.chunks \in Nat /\ Cardinality(OfIn(K, n)) <= n.chunks
  BY DEF Counted
<1>1. PICK m \in J : /\ m.kind = "notify" /\ m.run = n.run /\ m.channel = n.channel
                     /\ m.chunks = n.chunks
  OBVIOUS
<1>2. m.chunks \in Nat /\ Cardinality(OfIn(J, m)) <= m.chunks
  BY <1>1 DEF Counted
<1> DEFINE Old == OfIn(J, m)
           f == [j \in Old |-> g[j]]
           Image == {f[j] : j \in Old}
<1>3. IsFiniteSet(Old) /\ Cardinality(Old) \in Nat
  BY FS_Subset, FS_CardinalityType DEF OfIn
<1>4. OfIn(K, n) \subseteq Image
  BY <1>1 DEF OfIn
<1>5. DOMAIN f = Old
  OBVIOUS
<1> HIDE DEF f
<1>6. IsFiniteSet(Image) /\ Cardinality(Image) <= Cardinality(Old)
  BY <1>3, <1>5, FiniteImage
<1> HIDE DEF Image, Old
<1>7. /\ Cardinality(OfIn(K, n)) <= Cardinality(Image)
      /\ Cardinality(OfIn(K, n)) \in Nat /\ Cardinality(Image) \in Nat
  BY <1>4, <1>6, FS_Subset, FS_CardinalityType
<1>8. Cardinality(Old) <= m.chunks
  BY <1>2 DEF Old
<1>9. QED
  BY <1>1, <1>2, <1>3, <1>6, <1>7, <1>8

(* Some jobs gone.                                                         *)
LEMMA CountedFewer ==
    ASSUME NEW J, IsFiniteSet(J), Counted(J), NEW K, K \subseteq J
    PROVE  Counted(K)
<1> SUFFICES ASSUME NEW n \in K, n.kind = "notify"
             PROVE  n.chunks \in Nat /\ Cardinality(OfIn(K, n)) <= n.chunks
  BY DEF Counted
<1>1. n.chunks \in Nat /\ Cardinality(OfIn(J, n)) <= n.chunks
  BY DEF Counted
<1>2. IsFiniteSet(OfIn(J, n)) /\ OfIn(K, n) \subseteq OfIn(J, n)
  BY FS_Subset DEF OfIn
<1>3. /\ Cardinality(OfIn(K, n)) <= Cardinality(OfIn(J, n))
      /\ Cardinality(OfIn(K, n)) \in Nat /\ Cardinality(OfIn(J, n)) \in Nat
  BY <1>2, FS_Subset, FS_CardinalityType
<1>4. QED
  BY <1>1, <1>3

(* A job in another state.                                                 *)
LEMMA CountedSwap ==
    ASSUME NEW J, IsFiniteSet(J), Counted(J), NEW j \in J, NEW k,
           k.kind = j.kind, k.run = j.run, k.channel = j.channel,
           k.kind = "notify" => k.chunks = j.chunks
    PROVE  Counted((J \ {j}) \cup {k})
<1> DEFINE K == (J \ {j}) \cup {k}
           g == [i \in J |-> IF i = j THEN k ELSE i]
<1>1. g \in [J -> K]
  OBVIOUS
<1>2. ASSUME NEW i \in K
      PROVE  \E h \in J : /\ h.kind = i.kind /\ h.run = i.run /\ h.channel = i.channel
                         /\ g[h] = i /\ (i.kind = "notify" => h.chunks = i.chunks)
  <2>1. CASE i = k
    <3> WITNESS j \in J
    <3> QED
      BY <2>1
  <2>2. CASE i # k
    <3>1. i \in J /\ g[i] = i
      BY <2>2
    <3> HIDE DEF g
    <3> QED
      BY <3>1
  <2> QED
    BY <2>1, <2>2
<1> HIDE DEF g, K
<1>3. /\ \A i \in K : i.kind = "chunk" =>
            \E h \in J : h.kind = "chunk" /\ h.run = i.run /\ h.channel = i.channel /\ g[h] = i
      /\ \A i \in K : i.kind = "notify" =>
            \E h \in J : /\ h.kind = "notify" /\ h.run = i.run /\ h.channel = i.channel
                       /\ h.chunks = i.chunks
  BY <1>2
<1>4. Counted(K)
  BY <1>1, <1>3, CountedByImage
<1> QED
  BY <1>4 DEF K

-----------------------------------------------------------------------------
(* What a synchronisation queues.                                          *)

LEMMA SyncIsRecord == TypeOK /\ sync # None => sync \in Syncs
BY DEF TypeOK, Types

LEMMA SentAreProducts == \A c : Sent(c) \subseteq Products
BY DEF Sent

LEMMA ChunkIsJob ==
    ASSUME TypeOK, sync # None, NEW c \in sync.channels, NEW S \in SUBSET Products
    PROVE  /\ Chunk(c, S) \in ChunkJobs(S) /\ Chunk(c, S).kind = "chunk"
           /\ Chunk(c, S).run = FreshRun /\ Chunk(c, S).channel = c
<1>1. sync \in Syncs
  BY SyncIsRecord
<1>2. c \in Channels /\ sync.setting[c] \in SettingRecords
  BY <1>1 DEF Syncs
<1>3. \A p \in S : Level(sync.setting[c], sync.stock[p]) \in Int
  <2> TAKE p \in S
  <2>1. sync.stock[p] \in Nat
    BY <1>1 DEF Syncs
  <2> QED
    BY <1>2, <2>1, LevelIsInt
<1>4. FreshRun \in Nat
  BY FreshRunIsFresh
<1> QED
  BY <1>2, <1>3, <1>4 DEF Chunk, ChunkJobs

LEMMA NewChunksAre ==
    ASSUME TypeOK, sync # None
    PROVE  /\ IsFiniteSet(NewChunks)
           /\ \A j \in NewChunks : \E c \in sync.channels : \E S \in Cut(Sent(c)) : j = Chunk(c, S)
           /\ \A j \in NewChunks : \E S \in SUBSET Products : j \in ChunkJobs(S)
           /\ \A j \in NewChunks : j.kind = "chunk" /\ j.run = FreshRun
<1>1. sync \in Syncs
  BY SyncIsRecord
<1>2. \A j \in NewChunks : \E c \in sync.channels : \E S \in Cut(Sent(c)) : j = Chunk(c, S)
  BY DEF NewChunks
<1>3. \A c : Cut(Sent(c)) \subseteq SUBSET Products
  BY SentAreProducts, CutParts
<1> DEFINE Pairs == Channels \X SUBSET Products
           f == [x \in Pairs |-> Chunk(x[1], x[2])]
           Image == {f[x] : x \in Pairs}
<1>4. IsFiniteSet(Pairs)
  BY FS_SUBSET, FS_Product
<1>5. NewChunks \subseteq Image
  <2> SUFFICES ASSUME NEW j \in NewChunks PROVE j \in Image
    OBVIOUS
  <2>1. PICK c \in sync.channels : \E S \in Cut(Sent(c)) : j = Chunk(c, S)
    BY <1>2
  <2>2. PICK S \in Cut(Sent(c)) : j = Chunk(c, S)
    BY <2>1
  <2>3. <<c, S>> \in Pairs
    BY <1>1, <1>3 DEF Syncs
  <2>4. f[<<c, S>>] = j
    BY <2>2, <2>3
  <2> HIDE DEF f, Pairs
  <2> QED
    BY <2>3, <2>4
<1>6. DOMAIN f = Pairs
  OBVIOUS
<1>7. IsFiniteSet(NewChunks)
  <2> HIDE DEF f, Pairs
  <2>1. IsFiniteSet(Image)
    BY <1>4, <1>6, FiniteImage
  <2> HIDE DEF Image
  <2> QED
    BY <1>5, <2>1, FS_Subset
<1>8. \A j \in NewChunks : /\ \E S \in SUBSET Products : j \in ChunkJobs(S)
                            /\ j.kind = "chunk" /\ j.run = FreshRun
  BY <1>2, <1>3, ChunkIsJob
<1> QED
  BY <1>2, <1>7, <1>8

LEMMA NewNotificationsAre ==
    ASSUME TypeOK, sync # None
    PROVE  /\ IsFiniteSet(NewNotifications)
           /\ NewNotifications \subseteq NotifyJobs
           /\ \A n \in NewNotifications : n.kind = "notify" /\ n.run = FreshRun
           /\ Counted(NewChunks \cup NewNotifications)
<1>1. sync \in Syncs
  BY SyncIsRecord
<1>2. FreshRun \in Nat
  BY FreshRunIsFresh
<1>3. \A c : IsFiniteSet(Cut(Sent(c))) /\ Cardinality(Cut(Sent(c))) \in Nat
  BY SentAreProducts, CutParts
<1> DEFINE Note(d) == [kind |-> "notify", run |-> FreshRun, channel |-> d, state |-> "pending",
                       lost |-> FALSE, chunks |-> Cardinality(Cut(Sent(d)))]
           f == [c \in Channels |-> Note(c)]
           Image == {f[c] : c \in Channels}
<1>4. \A n \in NewNotifications : \E c \in sync.channels : n = Note(c)
  BY DEF NewNotifications
<1>5. sync.channels \subseteq Channels
  BY <1>1 DEF Syncs
<1>6. NewNotifications \subseteq Image
  BY <1>4, <1>5
<1>7. IsFiniteSet(NewNotifications)
  <2>1. DOMAIN f = Channels
    OBVIOUS
  <2> HIDE DEF f
  <2>2. IsFiniteSet(Image)
    BY <2>1, FiniteImage
  <2> HIDE DEF Image
  <2> QED
    BY <1>6, <2>2, FS_Subset
<1>8. NewNotifications \subseteq NotifyJobs
  <2>1. \A c \in Channels : Note(c) \in NotifyJobs
    BY <1>2, <1>3 DEF NotifyJobs
  <2> HIDE DEF Note
  <2> QED
    BY <1>4, <1>5, <2>1
<1>9. \A n \in NewNotifications : n.kind = "notify" /\ n.run = FreshRun
  BY <1>4
<1> HIDE DEF f, Image
<1>10. Counted(NewChunks \cup NewNotifications)
  <2> DEFINE J == NewChunks \cup NewNotifications
  <2> SUFFICES ASSUME NEW n \in J, n.kind = "notify"
               PROVE  n.chunks \in Nat /\ Cardinality(OfIn(J, n)) <= n.chunks
    BY DEF Counted
  <2>1. n \in NewNotifications
    BY NewChunksAre
  <2>2. PICK c \in sync.channels : n = Note(c)
    BY <1>4, <2>1
  <2> DEFINE Parts == Cut(Sent(c))
             g == [S \in Parts |-> Chunk(c, S)]
             Made == {g[S] : S \in Parts}
  <2>3. n.chunks = Cardinality(Parts) /\ n.channel = c
    BY <2>2
  <2>4. OfIn(J, n) \subseteq Made
    <3> SUFFICES ASSUME NEW j \in OfIn(J, n) PROVE j \in Made
      OBVIOUS
    <3>1. j \in NewChunks /\ j.channel = c
      BY <1>9, <2>3 DEF OfIn
    <3>2. PICK d \in sync.channels : \E S \in Cut(Sent(d)) : j = Chunk(d, S)
      BY <3>1, NewChunksAre
    <3>3. PICK S \in Cut(Sent(d)) : j = Chunk(d, S)
      BY <3>2
    <3>4. d = c
      BY <3>1, <3>3, SentAreProducts, CutParts, ChunkIsJob
    <3> QED
      BY <3>3, <3>4
  <2>5. DOMAIN g = Parts
    OBVIOUS
  <2> HIDE DEF g, Parts
  <2>6. IsFiniteSet(Parts) /\ Cardinality(Parts) \in Nat
    BY <1>3 DEF Parts
  <2>7. IsFiniteSet(Made) /\ Cardinality(Made) <= Cardinality(Parts)
    BY <2>5, <2>6, FiniteImage
  <2> HIDE DEF Made, J
  <2>8. /\ Cardinality(OfIn(J, n)) <= Cardinality(Made)
        /\ Cardinality(OfIn(J, n)) \in Nat /\ Cardinality(Made) \in Nat
    BY <2>4, <2>7, FS_Subset, FS_CardinalityType
  <2> QED
    BY <2>3, <2>6, <2>7, <2>8
<1> QED
  BY <1>7, <1>8, <1>9, <1>10

-----------------------------------------------------------------------------
(* The types.                                                              *)

LEMMA TypeParts ==
    /\ TypeOK <=> Types /\ Counted(jobs)
    /\ TypeOK' <=> Types' /\ Counted(jobs')
<1>1. /\ \A n : Of(n) = OfIn(jobs, n)
      /\ \A n : Of(n)' = OfIn(jobs', n)
  BY DEF Of, OfIn, Chunks
<1>2. Types => \A n \in jobs : n.kind = "notify" => n.chunks \in Nat
  BY DEF Types, BulkJobs, ChunkJobs, NotifyJobs
<1>3. Types' => \A n \in jobs' : n.kind = "notify" => n.chunks \in Nat
  BY DEF Types, BulkJobs, ChunkJobs, NotifyJobs
<1>4. TypeOK <=> Types /\ Counted(jobs)
  BY <1>1, <1>2 DEF TypeOK, Counted
<1>5. TypeOK' <=> Types' /\ Counted(jobs')
  BY <1>1, <1>3 DEF TypeOK, Counted
<1> QED
  BY <1>4, <1>5

LEMMA TypeInit == Init => TypeOK
<1> SUFFICES ASSUME Init PROVE TypeOK
  OBVIOUS
<1>1. Level(InitialSetting, 0) \in Int
  BY LevelIsInt
<1>2. IsFiniteSet(jobs)
  BY FS_EmptySet DEF Init
<1>3. Types
  BY <1>1, <1>2 DEF Init, Types
<1>4. Counted(jobs)
  BY DEF Init, Counted
<1> QED
  BY <1>3, <1>4, TypeParts

LEMMA TypeStart ==
    ASSUME TypeOK, NEW cs \in SUBSET Channels, NEW all \in BOOLEAN,
           NEW ids \in (SUBSET Products) \cup {None}, NEW noDelay \in BOOLEAN,
           NEW nightly \in BOOLEAN, NEW job \in BulkJobs \cup {None},
           Start(cs, all, ids, noDelay, nightly, job), disturbed' \in 0..MaxDisturbances
    PROVE  TypeOK'
<1>1. Types
  BY DEF TypeOK
<1>2. sync' \in Syncs /\ sync'.at = now
  BY <1>1 DEF Types, Start, Syncs, Changed
<1>3. Types'
  BY <1>1, <1>2 DEF Types, Start, stocks, flags
<1>4. jobs' = jobs
  BY DEF Start
<1> QED
  BY <1>3, <1>4, TypeParts

LEMMA TypeMeets ==
    ASSUME Types, NEW ps \in SUBSET Products, NEW cs \in SUBSET Channels, Meets(ps, cs)
    PROVE  /\ sync' \in Syncs \cup {None}
           /\ sync' # None => sync'.at \in 1..now
BY DEF Types, Meets, Syncs

LEMMA TypeMoves ==
    ASSUME TypeOK, NEW p \in Products, BeginMove(p) \/ CommitMove(p)
    PROVE  TypeOK'
<1>1. Types /\ jobs' = jobs
  BY DEF TypeOK, BeginMove, CommitMove
<1>2. CASE BeginMove(p)
  <2>1. sync' \in Syncs \cup {None} /\ (sync' # None => sync'.at \in 1..now)
    BY <1>1, <1>2, TypeMeets DEF BeginMove
  <2>2. moving' \in [Products -> [since : 1..now, qty : Quantities] \cup {None}]
    BY <1>1, <1>2 DEF Types, BeginMove
  <2>3. Types'
    BY <1>1, <1>2, <2>1, <2>2 DEF Types, BeginMove, flags
  <2> QED
    BY <1>1, <2>3, TypeParts
<1>3. CASE CommitMove(p)
  <2>1. moving[p].since \in 1..now /\ moving[p].qty \in Quantities
    BY <1>1, <1>3 DEF Types, CommitMove
  <2>2. stock' \in [Products -> Quantities] /\ wrote' \in [Products -> 0..now]
    BY <1>1, <1>3, <2>1 DEF Types, CommitMove
  <2>3. moving' \in [Products -> [since : 1..now, qty : Quantities] \cup {None}]
    BY <1>1, <1>3 DEF Types, CommitMove
  <2>4. Types'
    BY <1>1, <1>3, <2>2, <2>3 DEF Types, CommitMove, flags, counts
  <2> QED
    BY <1>1, <2>4, TypeParts
<1> QED
  BY <1>2, <1>3

LEMMA TypeSettings ==
    ASSUME TypeOK, NEW c \in Channels, ChangeSettings(c)
    PROVE  TypeOK'
<1>1. Types /\ jobs' = jobs
  BY DEF TypeOK, ChangeSettings
<1>2. sync' \in Syncs \cup {None} /\ (sync' # None => sync'.at \in 1..now)
  BY <1>1, TypeMeets DEF ChangeSettings
<1>3. Types'
  BY <1>1, <1>2 DEF Types, ChangeSettings, stocks
<1> QED
  BY <1>1, <1>3, TypeParts

LEMMA TypeBulkButton ==
    ASSUME TypeOK, NEW c \in Channels, BulkButton(c)
    PROVE  TypeOK'
<1> DEFINE b == [kind |-> "bulk", channel |-> c, state |-> "pending"]
<1>1. Types /\ Counted(jobs)
  BY TypeParts
<1>2. sync' \in Syncs \cup {None} /\ (sync' # None => sync'.at \in 1..now)
  BY <1>1, TypeMeets DEF BulkButton
<1>3. b \in BulkJobs /\ b.kind = "bulk" /\ jobs' = jobs \cup {b}
  BY DEF BulkButton, BulkJobs
<1> HIDE DEF b
<1>4. IsFiniteSet(jobs')
  BY <1>1, <1>3, FS_AddElement DEF Types
<1>5. Types'
  <2>1. \A j \in jobs' : j \in BulkJobs \cup NotifyJobs \/ \E S \in SUBSET Products : j \in ChunkJobs(S)
    BY <1>1, <1>3 DEF Types
  <2>2. disturbed' \in 0..MaxDisturbances /\ running' \subseteq Channels /\ warning' \subseteq Channels
    BY <1>1 DEF Types, BulkButton, Disturb
  <2> QED
    BY <1>1, <1>2, <1>4, <2>1, <2>2 DEF Types, BulkButton, stocks
<1>6. Counted(jobs')
  <2>1. \A n : OfIn(jobs', n) = OfIn(jobs, n)
    BY <1>3 DEF OfIn
  <2> QED
    BY <1>1, <1>3, <2>1 DEF Counted
<1> QED
  BY <1>5, <1>6, TypeParts

LEMMA TypeEndOfSync ==
    ASSUME TypeOK, CommitSync \/ AbortSync
    PROVE  TypeOK'
<1>1. Types /\ Counted(jobs)
  BY TypeParts
<1>2. CASE CommitSync
  <2> DEFINE kept == jobs \ {sync.job}
             made == IF SendsAny THEN NewChunks \cup NewNotifications ELSE {}
  <2>1. sync # None /\ sync \in Syncs /\ jobs' = kept \cup made
    BY <1>2, SyncIsRecord DEF CommitSync
  <2>2. IsFiniteSet(kept) /\ IsFiniteSet(made)
    BY <1>1, <2>1, FS_RemoveElement, FS_EmptySet, FS_Union, NewChunksAre, NewNotificationsAre
       DEF Types
  <2>3. IsFiniteSet(jobs')
    BY <2>1, <2>2, FS_Union
  <2>4. \A j \in made : j \in NotifyJobs \/ \E S \in SUBSET Products : j \in ChunkJobs(S)
    BY <2>1, NewChunksAre, NewNotificationsAre
  <2>5. /\ Counted(kept)
        /\ Counted(made)
    <3>1. Counted(made)
      BY <2>1, NewNotificationsAre DEF Counted
    <3> QED
      BY <1>1, <3>1, CountedFewer DEF Types
  <2>6. \A j \in made : j.run = FreshRun /\ j.kind # "bulk"
    BY <2>1, NewChunksAre, NewNotificationsAre
  <2>7. \A j \in kept : j.kind = "bulk" \/ j.run # FreshRun
    BY FreshRunIsFresh
  <2>8. \A j \in kept \cup made : j.kind \in {"bulk", "chunk", "notify"}
    BY <1>1, <2>4 DEF Types, BulkJobs, NotifyJobs, ChunkJobs
  <2> HIDE DEF kept, made
  <2>9. Counted(jobs')
    <3>1. \A n \in kept : n.kind = "notify" => OfIn(kept \cup made, n) = OfIn(kept, n)
      BY <2>6, <2>7 DEF OfIn
    <3>2. \A n \in made : n.kind = "notify" => OfIn(kept \cup made, n) = OfIn(made, n)
      BY <2>6, <2>7 DEF OfIn
    <3> QED
      BY <2>1, <2>5, <3>1, <3>2 DEF Counted
  <2>10. Types'
    <3>1. \A j \in jobs' : j \in BulkJobs \cup NotifyJobs \/ \E S \in SUBSET Products : j \in ChunkJobs(S)
      BY <1>1, <2>1, <2>4 DEF Types, kept
    <3>2. sync.at \in 1..now /\ sync' = None
      BY <1>1, <1>2, <2>1 DEF Types, CommitSync
    <3>3. excused' \subseteq Listings
      BY <1>1, <1>2 DEF Types, CommitSync, Holes
    <3>4. running' \subseteq Channels /\ warning' \subseteq Channels
      BY <1>1, <1>2 DEF Types, CommitSync
    <3> QED
      BY <1>1, <1>2, <2>3, <3>1, <3>2, <3>3, <3>4 DEF Types, CommitSync, counts
  <2> QED
    BY <2>9, <2>10, TypeParts
<1>3. CASE AbortSync
  <2>1. jobs' \subseteq jobs
    BY <1>3 DEF AbortSync
  <2>2. Counted(jobs') /\ IsFiniteSet(jobs')
    BY <1>1, <2>1, CountedFewer, FS_Subset DEF Types
  <2>3. disturbed' \in 0..MaxDisturbances
    BY <1>1, <1>3 DEF Types, AbortSync, Disturb
  <2>4. Types'
    BY <1>1, <1>3, <2>1, <2>2, <2>3 DEF Types, AbortSync, stocks, flags
  <2> QED
    BY <2>2, <2>4, TypeParts
<1> QED
  BY <1>2, <1>3

(* The jobs: a level is set, and a job ends or changes its state.          *)
LEMMA TypeSends ==
    ASSUME Types, NEW S \in SUBSET Products, NEW j \in ChunkJobs(S), NEW ps \in SUBSET S, Sends(j, ps)
    PROVE  level' \in [Listings -> Int]
BY DEF Types, Sends, ChunkJobs

LEMMA TypeJobs ==
    ASSUME TypeOK, NEW j \in jobs,
           \/ RunChunk(j) \/ ChunkFails(j) \/ VariantsRefused(j) \/ Requeue(j)
           \/ DoneInventorySync(j) \/ NotifyGivesUp(j) \/ Autovacuum(j)
    PROVE  TypeOK'
<1>1. Types /\ Counted(jobs)
  BY TypeParts
<1> DEFINE Job(i) == i \in BulkJobs \cup NotifyJobs \/ \E S \in SUBSET Products : i \in ChunkJobs(S)
<1>2. \A i \in jobs : Job(i)
  BY <1>1 DEF Types
<1>3. CASE RunChunk(j)
  <2>1. PICK S \in SUBSET Products : j \in ChunkJobs(S)
    BY <1>2, <1>3 DEF RunChunk, BulkJobs, NotifyJobs
  <2>2. level' \in [Listings -> Int]
    BY <1>1, <1>3, <2>1, TypeSends DEF RunChunk, ChunkJobs
  <2>3. IsFiniteSet(jobs') /\ Counted(jobs')
    BY <1>1, <1>3, FS_RemoveElement, CountedFewer DEF RunChunk, Types
  <2>4. \A i \in jobs' : Job(i)
    BY <1>2, <1>3 DEF RunChunk
  <2>5. Types'
    BY <1>1, <1>3, <2>2, <2>3, <2>4 DEF RunChunk, Types, stocks, flags, counts
  <2> QED
    BY <2>3, <2>5, TypeParts
<1>4. CASE ChunkFails(j)
  <2> DEFINE k == [j EXCEPT !.state = "failed"]
  <2>1. PICK S \in SUBSET Products : j \in ChunkJobs(S)
    BY <1>2, <1>4 DEF ChunkFails, BulkJobs, NotifyJobs
  <2>2. level' \in [Listings -> Int]
    <3>1. PICK ps \in SUBSET DOMAIN j.levels : Sends(j, ps)
      BY <1>4 DEF ChunkFails
    <3> QED
      BY <1>1, <2>1, <3>1, TypeSends DEF ChunkJobs
  <2>3. k \in ChunkJobs(S) /\ k.kind = j.kind /\ k.run = j.run /\ k.channel = j.channel
    BY <2>1 DEF ChunkJobs
  <2>4. k.kind # "notify"
    BY <2>3 DEF ChunkJobs
  <2>5. jobs' = (jobs \ {j}) \cup {k}
    BY <1>4 DEF ChunkFails
  <2> HIDE DEF k
  <2>6. IsFiniteSet(jobs')
    BY <1>1, <2>5, FS_RemoveElement, FS_AddElement DEF Types
  <2>7. Counted(jobs')
    BY <1>1, <2>3, <2>4, <2>5, CountedSwap DEF Types
  <2>8. \A i \in jobs' : Job(i)
    BY <1>2, <2>3, <2>5
  <2>9. Types'
    BY <1>1, <1>4, <2>2, <2>6, <2>8 DEF ChunkFails, Disturb, Types, stocks, flags
  <2> QED
    BY <2>7, <2>9, TypeParts
<1>5. CASE Requeue(j)
  <2> DEFINE k == [j EXCEPT !.state = "pending"]
  <2>1. /\ Job(k) /\ k.kind = j.kind /\ k.run = j.run /\ k.channel = j.channel
        /\ k.kind = "notify" => k.chunks = j.chunks
    <3>1. CASE j \in NotifyJobs
      BY <3>1 DEF NotifyJobs
    <3>2. ASSUME NEW S \in SUBSET Products, j \in ChunkJobs(S)
          PROVE  k \in ChunkJobs(S) /\ k.kind = j.kind /\ k.run = j.run /\ k.channel = j.channel
                 /\ k.kind # "notify"
      BY <3>2 DEF ChunkJobs
    <3> QED
      BY <1>2, <1>5, <3>1, <3>2 DEF Requeue, BulkJobs
  <2>4. jobs' = (jobs \ {j}) \cup {k}
    BY <1>5 DEF Requeue
  <2> HIDE DEF k
  <2>5. IsFiniteSet(jobs')
    BY <1>1, <2>4, FS_RemoveElement, FS_AddElement DEF Types
  <2>6. Counted(jobs')
    BY <1>1, <2>1, <2>4, CountedSwap DEF Types
  <2>7. \A i \in jobs' : Job(i)
    BY <1>2, <2>1, <2>4
  <2>8. Types'
    BY <1>1, <1>5, <2>5, <2>7 DEF Requeue, Types, stocks, flags
  <2> QED
    BY <2>6, <2>8, TypeParts
<1>6. CASE DoneInventorySync(j)
  <2>1. j \in NotifyJobs
    BY <1>2, <1>6 DEF DoneInventorySync, BulkJobs, ChunkJobs
  <2>2. j.channel \in Channels
    BY <2>1 DEF NotifyJobs
  <2>3. sync' \in Syncs \cup {None} /\ (sync' # None => sync'.at \in 1..now)
    BY <1>1, <1>6, <2>2, TypeMeets DEF DoneInventorySync
  <2>4. IsFiniteSet(jobs') /\ Counted(jobs')
    BY <1>1, <1>6, FS_RemoveElement, CountedFewer DEF DoneInventorySync, Types
  <2>5. \A i \in jobs' : Job(i)
    BY <1>2, <1>6 DEF DoneInventorySync
  <2>6. Types'
    BY <1>1, <1>6, <2>3, <2>4, <2>5 DEF DoneInventorySync, Types, stocks, counts
  <2> QED
    BY <2>4, <2>6, TypeParts
<1>7. CASE NotifyGivesUp(j)
  <2> DEFINE k == [j EXCEPT !.state = "failed"]
  <2>1. j \in NotifyJobs
    BY <1>2, <1>7 DEF NotifyGivesUp, BulkJobs, ChunkJobs
  <2>2. /\ k \in NotifyJobs /\ k.kind = j.kind /\ k.run = j.run /\ k.channel = j.channel
        /\ k.chunks = j.chunks
    BY <2>1 DEF NotifyJobs
  <2>3. jobs' = (jobs \ {j}) \cup {k} /\ disturbed' \in 0..MaxDisturbances
    BY <1>1, <1>7 DEF NotifyGivesUp, Disturb, Types
  <2> HIDE DEF k
  <2>4. IsFiniteSet(jobs')
    BY <1>1, <2>3, FS_RemoveElement, FS_AddElement DEF Types
  <2>5. Counted(jobs')
    BY <1>1, <2>2, <2>3, CountedSwap DEF Types
  <2>6. \A i \in jobs' : Job(i)
    BY <1>2, <2>2, <2>3
  <2>7. Types'
    BY <1>1, <1>7, <2>3, <2>4, <2>6 DEF NotifyGivesUp, Types, stocks, flags
  <2> QED
    BY <2>5, <2>7, TypeParts
<1>8. CASE Autovacuum(j)
  <2> DEFINE k == [j EXCEPT !.lost = TRUE]
  <2>1. j \in NotifyJobs
    BY <1>2, <1>8 DEF Autovacuum, BulkJobs, ChunkJobs
  <2>2. /\ k \in NotifyJobs /\ k.kind = j.kind /\ k.run = j.run /\ k.channel = j.channel
        /\ k.chunks = j.chunks
    BY <2>1 DEF NotifyJobs
  <2>3. jobs' = (jobs \ {j}) \cup {k}
    BY <1>8 DEF Autovacuum
  <2> HIDE DEF k
  <2>4. IsFiniteSet(jobs')
    BY <1>1, <2>3, FS_RemoveElement, FS_AddElement DEF Types
  <2>5. Counted(jobs')
    BY <1>1, <2>2, <2>3, CountedSwap DEF Types
  <2>6. \A i \in jobs' : Job(i)
    BY <1>2, <2>2, <2>3
  <2>7. Types'
    BY <1>1, <1>8, <2>4, <2>6 DEF Autovacuum, Disturb, Types, stocks, flags
  <2> QED
    BY <2>5, <2>7, TypeParts
<1>9. CASE VariantsRefused(j)
  <2>1. PICK S \in SUBSET Products : j \in ChunkJobs(S)
    BY <1>2, <1>9 DEF VariantsRefused, BulkJobs, NotifyJobs
  <2>2. PICK ps \in SUBSET {p \in DOMAIN j.levels : <<j.channel, p>> \in ByVariant} :
           Sends(j, DOMAIN j.levels \ ps) /\ excused' = excused \cup {<<j.channel, p>> : p \in ps}
    BY <1>9 DEF VariantsRefused
  <2>3. level' \in [Listings -> Int]
    <3>1. DOMAIN j.levels \ ps \in SUBSET DOMAIN j.levels
      OBVIOUS
    <3> QED
      BY <1>1, <2>1, <2>2, <3>1, TypeSends DEF ChunkJobs
  <2>4. excused' \subseteq Listings
    BY <1>1, <2>2 DEF Types
  <2>5. IsFiniteSet(jobs') /\ Counted(jobs')
    BY <1>1, <1>9, FS_RemoveElement, CountedFewer DEF VariantsRefused, Types
  <2>6. \A i \in jobs' : Job(i)
    BY <1>2, <1>9 DEF VariantsRefused
  <2>7. Types'
    BY <1>1, <1>9, <2>3, <2>4, <2>5, <2>6 DEF VariantsRefused, Disturb, Types, stocks, flags
  <2> QED
    BY <2>5, <2>7, TypeParts
<1> QED
  BY <1>3, <1>4, <1>5, <1>6, <1>7, <1>8, <1>9

(* Every start of a synchronisation is one of these.                       *)
AnyStart ==
    \E cs \in SUBSET Channels, all \in BOOLEAN, ids \in (SUBSET Products) \cup {None},
       noDelay \in BOOLEAN, nightly \in BOOLEAN, job \in BulkJobs \cup {None} :
          Start(cs, all, ids, noDelay, nightly, job)

LEMMA StartIsAny ==
    ASSUME NEW cs \in SUBSET Channels, NEW all \in BOOLEAN,
           NEW ids \in (SUBSET Products) \cup {None}, NEW noDelay \in BOOLEAN,
           NEW nightly \in BOOLEAN, NEW job \in BulkJobs \cup {None},
           Start(cs, all, ids, noDelay, nightly, job)
    PROVE  AnyStart
BY DEF AnyStart

LEMMA StartsAre ==
    ASSUME TypeOK,
           \/ Cron \/ Nightly
           \/ \E c \in Channels, p \in Products : ListingButton(c, p)
           \/ \E l \in Listings : ExportListing(l)
           \/ \E j \in Pending : RunBulk(j)
    PROVE  AnyStart /\ disturbed' \in 0..MaxDisturbances
<1>1. disturbed \in 0..MaxDisturbances
  BY DEF TypeOK, Types
<1>2. CASE Cron \/ Nightly
  <2>1. /\ Channels \in SUBSET Channels /\ None \in (SUBSET Products) \cup {None}
        /\ None \in BulkJobs \cup {None} /\ TRUE \in BOOLEAN /\ FALSE \in BOOLEAN
    OBVIOUS
  <2>2. CASE Cron
    <3>1. Start(Channels, FALSE, None, FALSE, FALSE, None) /\ disturbed' = disturbed
      BY <2>2 DEF Cron
    <3> QED
      BY <1>1, <2>1, <3>1, StartIsAny
  <2>3. CASE Nightly
    <3>1. Start(Channels, TRUE, None, FALSE, TRUE, None) /\ disturbed' = disturbed
      BY <2>3 DEF Nightly
    <3> QED
      BY <1>1, <2>1, <3>1, StartIsAny
  <2> QED
    BY <1>2, <2>2, <2>3
<1>3. CASE \E c \in Channels, p \in Products : ListingButton(c, p)
  <2>1. PICK c \in Channels, p \in Products : ListingButton(c, p)
    BY <1>3
  <2>2. /\ {c} \in SUBSET Channels /\ {p} \in (SUBSET Products) \cup {None}
        /\ None \in BulkJobs \cup {None} /\ TRUE \in BOOLEAN /\ FALSE \in BOOLEAN
    OBVIOUS
  <2>3. Start({c}, TRUE, {p}, TRUE, FALSE, None)
    BY <2>1 DEF ListingButton
  <2>4. disturbed' \in 0..MaxDisturbances
    BY <1>1, <2>1 DEF ListingButton, Disturb
  <2> QED
    BY <2>2, <2>3, <2>4, StartIsAny
<1>4. CASE \E l \in Listings : ExportListing(l)
  <2>1. PICK l \in Listings : ExportListing(l)
    BY <1>4
  <2>2. /\ {l[1]} \in SUBSET Channels /\ {l[2]} \in (SUBSET Products) \cup {None}
        /\ None \in BulkJobs \cup {None} /\ FALSE \in BOOLEAN
    <3>1. l[1] \in Channels /\ l[2] \in Products
      OBVIOUS
    <3> QED
      BY <3>1
  <2>3. Start({l[1]}, FALSE, {l[2]}, FALSE, FALSE, None)
    BY <2>1 DEF ExportListing
  <2>4. disturbed' \in 0..MaxDisturbances
    BY <1>1, <2>1 DEF ExportListing, Disturb
  <2> QED
    BY <2>2, <2>3, <2>4, StartIsAny
<1>5. CASE \E j \in Pending : RunBulk(j)
  <2>1. PICK j \in Pending : RunBulk(j)
    BY <1>5
  <2>2. j \in BulkJobs
    BY <2>1 DEF RunBulk, Pending, TypeOK, Types, ChunkJobs, NotifyJobs
  <2>3. /\ {j.channel} \in SUBSET Channels /\ j \in BulkJobs \cup {None}
        /\ None \in (SUBSET Products) \cup {None} /\ TRUE \in BOOLEAN /\ FALSE \in BOOLEAN
    BY <2>2 DEF BulkJobs
  <2>4. Start({j.channel}, TRUE, None, FALSE, FALSE, j) /\ disturbed' = disturbed
    BY <2>1 DEF RunBulk
  <2> QED
    BY <1>1, <2>3, <2>4, StartIsAny
<1> QED
  BY <1>2, <1>3, <1>4, <1>5

LEMMA TypeNext == TypeOK /\ [Next]_vars => TypeOK'
<1> SUFFICES ASSUME TypeOK, [Next]_vars PROVE TypeOK'
  OBVIOUS
<1>1. CASE Tick
  <2>1. Types /\ jobs' = jobs
    BY <1>1 DEF TypeOK, Tick
  <2>2. Types'
    BY <1>1, <2>1 DEF Types, Tick, stocks, flags
  <2> QED
    BY <2>1, <2>2, TypeParts
<1>2. CASE \/ Cron \/ Nightly
           \/ \E c \in Channels, p \in Products : ListingButton(c, p)
           \/ \E l \in Listings : ExportListing(l)
           \/ \E j \in Pending : RunBulk(j)
  BY <1>2, StartsAre, TypeStart DEF AnyStart
<1>3. CASE CommitSync \/ AbortSync
  BY <1>3, TypeEndOfSync
<1>4. CASE \E p \in Products : BeginMove(p) \/ CommitMove(p)
  BY <1>4, TypeMoves
<1>5. CASE \E c \in Channels : ChangeSettings(c) \/ BulkButton(c)
  BY <1>5, TypeSettings, TypeBulkButton
<1>6. CASE \E j \in jobs : \/ RunChunk(j) \/ ChunkFails(j) \/ VariantsRefused(j) \/ Requeue(j)
                          \/ DoneInventorySync(j) \/ NotifyGivesUp(j) \/ Autovacuum(j)
  BY <1>6, TypeJobs
<1>7. CASE UNCHANGED vars
  <2>1. jobs' = jobs
    BY <1>7 DEF vars
  <2>2. Types'
    BY <1>7 DEF TypeOK, Types, vars, stocks, flags, counts
  <2> QED
    BY <2>1, <2>2, TypeParts
<1> QED
  BY <1>1, <1>2, <1>3, <1>4, <1>5, <1>6, <1>7 DEF Next, Pending

(* The types hold of every state, and a notification waits for no more     *)
(* jobs than its run made (inventory_sync, done_inventory_sync).           *)
THEOREM InventorySyncTyped == Spec => []TypeOK
<1>1. Init => TypeOK
  BY TypeInit
<1>2. TypeOK /\ [Next]_vars => TypeOK'
  BY TypeNext
<1> QED
  BY <1>1, <1>2, PTL DEF Spec

-----------------------------------------------------------------------------
(* No wrong level is forgotten.  The inductive invariant has two halves.   *)

(* What an open synchronisation has read.  It knows the stock that moves;  *)
(* of the rest it has the right quantity, and it has taken for changed     *)
(* what it was to look at and what is due.                                 *)
MovesMet == sync # None => \A p \in Products : moving[p] # None => p \in sync.touched
StockRead == sync # None => \A p \in Products \ sync.touched : stock[p] = sync.stock[p]
ChangesRead ==
    sync # None =>
        \A p \in Products \ sync.touched :
            Due(p) /\ (sync.ids # None => p \in sync.ids) => p \in sync.products
ReadWell == MovesMet /\ StockRead /\ ChangesRead

(* What is wrong on a store.  A move older than the watermark is excused,  *)
(* and a job that has a wrong level has it for a product that is due.      *)
LateMoves ==
    \A p \in Products :
        ~audited /\ moving[p] # None /\ moving[p].since < watermark =>
            \A l \in Listings : l[2] = p => l \in excused
ChunksRight ==
    \A l \in Listings \ excused : \A j \in Chunks :
        Covers(j, l) /\ j.levels[l[2]] # Right(l) => Due(l[2])
Remembered == LateMoves /\ ChunksRight /\ NoLevelForgotten

IInv == TypeOK /\ ReadWell /\ Remembered

LEMMA InitInv == Init => IInv
<1> SUFFICES ASSUME Init PROVE IInv
  OBVIOUS
<1>1. TypeOK
  BY TypeInit
<1>2. ReadWell
  BY DEF Init, ReadWell, MovesMet, StockRead, ChangesRead
<1>3. LateMoves /\ ChunksRight
  BY DEF Init, LateMoves, ChunksRight, Chunks
<1>4. \A l \in Listings : level[l] = Right(l)
  <2> SUFFICES ASSUME NEW l \in Listings PROVE level[l] = Right(l)
    OBVIOUS
  <2>1. l[1] \in Channels /\ l[2] \in Products
    OBVIOUS
  <2> QED
    BY <2>1 DEF Init, Right
<1>5. NoLevelForgotten
  BY <1>4 DEF NoLevelForgotten
<1> QED
  BY <1>1, <1>2, <1>3, <1>5 DEF IInv, Remembered

(* What is read stays read while no stock moves.                           *)
LEMMA ReadKept ==
    ASSUME TypeOK, ReadWell, UNCHANGED <<stocks, audited, watermark>>,
           \/ sync' = sync \/ sync' = None
           \/ \E ps \in SUBSET Products, cs \in SUBSET Channels : Meets(ps, cs)
    PROVE  ReadWell'
<1>1. UNCHANGED <<stock, moving, wrote, audit, audited, watermark>>
  BY DEF stocks
<1>2. CASE sync' = sync \/ sync' = None
  <2>1. CASE sync' = None
    BY <2>1 DEF ReadWell, MovesMet, StockRead, ChangesRead
  <2>2. CASE sync' = sync
    <3>1. \A p : Due(p)' <=> Due(p)
      BY <1>1 DEF Due
    <3> QED
      BY <1>1, <2>2, <3>1 DEF ReadWell, MovesMet, StockRead, ChangesRead
  <2> QED
    BY <1>2, <2>1, <2>2
<1>3. CASE \E ps \in SUBSET Products, cs \in SUBSET Channels : Meets(ps, cs)
  <2>1. PICK ps \in SUBSET Products, cs \in SUBSET Channels : Meets(ps, cs)
    BY <1>3
  <2>2. CASE sync = None
    <3>1. sync' = None
      BY <2>1, <2>2 DEF Meets
    <3> QED
      BY <1>2, <3>1
  <2>3. CASE sync # None
    <3>1. sync \in Syncs
      BY <2>3, SyncIsRecord
    <3>2. /\ sync.touched \subseteq sync'.touched /\ sync'.stock = sync.stock
          /\ sync'.ids = sync.ids /\ sync'.products = sync.products
      BY <2>1, <2>3, <3>1 DEF Meets, Syncs
    <3> QED
      BY <1>1, <2>3, <3>2 DEF ReadWell, MovesMet, StockRead, ChangesRead, Due
  <2> QED
    BY <2>2, <2>3
<1> QED
  BY <1>2, <1>3

(* A start reads well.                                                     *)
LEMMA ReadAtStart ==
    ASSUME TypeOK, NEW cs \in SUBSET Channels, NEW all \in BOOLEAN,
           NEW ids \in (SUBSET Products) \cup {None}, NEW noDelay \in BOOLEAN,
           NEW nightly \in BOOLEAN, NEW job \in BulkJobs \cup {None},
           Start(cs, all, ids, noDelay, nightly, job)
    PROVE  ReadWell'
<1>1. UNCHANGED <<stock, moving, wrote, audit, audited, watermark>>
  BY DEF Start, stocks
<1>2. /\ sync'.touched = {p \in Products : moving[p] # None} /\ sync'.stock = stock
      /\ sync'.ids = ids /\ sync'.products = Changed(all, ids)
  BY DEF Start
<1>3. \A p \in Products : wrote[p] \in Nat /\ watermark \in Nat
  BY DEF TypeOK, Types
<1>4. ASSUME NEW p \in Products, Due(p), ids # None => p \in ids
      PROVE  p \in Changed(all, ids)
  <2> DEFINE from == IF all \/ ids # None THEN 0 ELSE watermark
  <2>1. wrote[p] >= watermark => wrote[p] >= from
    BY <1>3
  <2>2. Changed(all, ids) = {q \in Products : /\ ids # None => q \in ids
                                              /\ IF audited THEN q \in audit ELSE wrote[q] >= from}
    BY DEF Changed
  <2> HIDE DEF from
  <2>3. IF audited THEN p \in audit ELSE wrote[p] >= from
    BY <1>4, <2>1 DEF Due
  <2> QED
    BY <1>4, <2>2, <2>3
<1>5. \A p : Due(p)' = Due(p)
  BY <1>1 DEF Due
<1> QED
  BY <1>1, <1>2, <1>4, <1>5 DEF ReadWell, MovesMet, StockRead, ChangesRead

(* The same levels in the jobs, the same stock and settings.               *)
SameChunks ==
    /\ \A k \in Chunks' : \E j \in Chunks : j.channel = k.channel /\ j.levels = k.levels
    /\ \A j \in Chunks : \E k \in Chunks' : j.channel = k.channel /\ j.levels = k.levels

LEMMA RememberedKept ==
    ASSUME Remembered, SameChunks,
           UNCHANGED <<stocks, setting, audited, watermark, level, excused>>
    PROVE  Remembered'
<1>1. UNCHANGED <<stock, moving, wrote, audit, setting, audited, watermark, level, excused>>
  BY DEF stocks
<1>2. \A p : Due(p)' <=> Due(p)
  BY <1>1 DEF Due
<1>3. \A l : Right(l)' = Right(l)
  BY <1>1 DEF Right
<1>4. LateMoves'
  BY <1>1 DEF Remembered, LateMoves
<1>5. ChunksRight'
  BY <1>1, <1>2, <1>3 DEF Remembered, ChunksRight, SameChunks, Covers
<1>6. NoLevelForgotten'
  BY <1>1, <1>2, <1>3 DEF Remembered, NoLevelForgotten, SameChunks, Covers
<1> QED
  BY <1>4, <1>5, <1>6 DEF Remembered

(* The steps, one by one.                                                  *)
LEMMA BeginMoveKeeps ==
    ASSUME IInv, NEW p \in Products, BeginMove(p)
    PROVE  ReadWell' /\ Remembered'
<1>1. TypeOK /\ ReadWell /\ Remembered /\ Types
  BY DEF IInv, TypeOK
<1>2. UNCHANGED <<stock, wrote, audit, setting, audited, watermark, jobs, level, excused>>
  BY DEF BeginMove, flags
<1>3. PICK q \in Quantities : moving' = [moving EXCEPT ![p] = [since |-> now, qty |-> q]]
  BY DEF BeginMove
<1>4. \A r \in Products : r # p => moving'[r] = moving[r]
  BY <1>1, <1>3 DEF Types
<1>5. moving'[p].since = now
  BY <1>1, <1>3 DEF Types
<1>6. \A r : Due(r)' <=> Due(r)
  BY <1>2 DEF Due
<1>7. \A l : Right(l)' = Right(l)
  BY <1>2 DEF Right
<1>8. ReadWell'
  <2>1. Meets({p}, {})
    BY DEF BeginMove
  <2>2. CASE sync = None
    BY <2>1, <2>2 DEF Meets, ReadWell, MovesMet, StockRead, ChangesRead
  <2>3. CASE sync # None
    <3>1. sync \in Syncs
      BY <1>1, <2>3, SyncIsRecord
    <3>2. /\ sync'.touched = sync.touched \cup {p} /\ sync'.stock = sync.stock
          /\ sync'.ids = sync.ids /\ sync'.products = sync.products
      BY <2>1, <2>3, <3>1 DEF Meets, Syncs
    <3> QED
      BY <1>1, <1>2, <1>4, <1>6, <2>3, <3>2 DEF ReadWell, MovesMet, StockRead, ChangesRead
  <2> QED
    BY <2>2, <2>3
<1>9. LateMoves'
  <2>1. watermark <= now
    BY <1>1 DEF Types
  <2>2. ~(moving'[p].since < watermark)
    BY <1>1, <1>5, <2>1 DEF Types
  <2> QED
    BY <1>1, <1>2, <1>4, <2>2 DEF Remembered, LateMoves
<1>10. ChunksRight' /\ NoLevelForgotten'
  BY <1>1, <1>2, <1>6, <1>7 DEF Remembered, ChunksRight, NoLevelForgotten, Chunks, Covers
<1> QED
  BY <1>8, <1>9, <1>10 DEF Remembered

LEMMA CommitMoveKeeps ==
    ASSUME IInv, NEW p \in Products, CommitMove(p)
    PROVE  ReadWell' /\ Remembered'
<1>1. TypeOK /\ ReadWell /\ Remembered /\ Types
  BY DEF IInv, TypeOK
<1>2. UNCHANGED <<setting, audited, watermark, jobs, level, sync>>
  BY DEF CommitMove, flags, counts
<1>3. moving[p] # None /\ moving'[p] = None
  BY <1>1 DEF CommitMove, Types
<1>4. /\ \A r \in Products : r # p => /\ moving'[r] = moving[r] /\ stock'[r] = stock[r]
                                      /\ wrote'[r] = wrote[r] /\ (r \in audit' <=> r \in audit)
      /\ wrote'[p] = moving[p].since
      /\ audited => p \in audit'
  BY <1>1 DEF CommitMove, Types
<1>5. \A r \in Products : r # p => (Due(r)' <=> Due(r))
  BY <1>2, <1>4 DEF Due
<1>6. \A l \in Listings : l[2] # p => Right(l)' = Right(l)
  BY <1>2, <1>4 DEF Right
<1>7. ReadWell'
  <2>1. sync # None => p \in sync.touched
    BY <1>1, <1>3 DEF ReadWell, MovesMet
  <2> QED
    BY <1>1, <1>2, <1>3, <1>4, <1>5, <2>1 DEF ReadWell, MovesMet, StockRead, ChangesRead
<1>8. \A l \in Listings : l[2] # p => (l \in excused' <=> l \in excused)
  BY DEF CommitMove
<1>9. LateMoves'
  BY <1>1, <1>2, <1>3, <1>4, <1>8 DEF Remembered, LateMoves
<1>10. \A l \in Listings : l[2] = p /\ l \notin excused' => Due(p)'
  <2>1. CASE audited \/ moving[p].since >= watermark
    BY <1>2, <1>4, <2>1 DEF Due
  <2>2. CASE ~audited /\ ~(moving[p].since >= watermark)
    <3>1. moving[p].since < watermark
      <4>1. moving[p].since \in Int /\ watermark \in Int
        BY <1>1, <1>3 DEF Types
      <4> QED
        BY <2>2, <4>1
    <3>2. excused' = excused
      BY <2>2 DEF CommitMove
    <3>3. \A l \in Listings : l[2] = p => l \in excused
      BY <1>1, <1>3, <2>2, <3>1 DEF Remembered, LateMoves
    <3> QED
      BY <3>2, <3>3
  <2> QED
    BY <2>1, <2>2
<1>11. ChunksRight' /\ NoLevelForgotten'
  <2>1. Chunks' = Chunks
    BY <1>2 DEF Chunks
  <2> SUFFICES ASSUME NEW l \in Listings, l \notin excused'
               PROVE  /\ \A j \in Chunks : Covers(j, l) /\ j.levels[l[2]] # Right(l)' => Due(l[2])'
                      /\ level[l] # Right(l)' =>
                           \/ Due(l[2])'
                           \/ \E j \in Chunks : Covers(j, l) /\ j.levels[l[2]] = Right(l)'
    BY <1>2, <2>1 DEF ChunksRight, NoLevelForgotten, Covers
  <2>2. CASE l[2] = p
    BY <1>10, <2>2
  <2>3. CASE l[2] # p
    <3>1. l \notin excused /\ Right(l)' = Right(l) /\ l[2] \in Products
      BY <1>6, <1>8, <2>3
    <3>2. Due(l[2])' <=> Due(l[2])
      BY <1>5, <2>3, <3>1
    <3> QED
      BY <1>1, <3>1, <3>2 DEF Remembered, ChunksRight, NoLevelForgotten
  <2> QED
    BY <2>2, <2>3
<1> QED
  BY <1>7, <1>9, <1>11 DEF Remembered

LEMMA ChangeSettingsKeeps ==
    ASSUME IInv, NEW c \in Channels, ChangeSettings(c)
    PROVE  ReadWell' /\ Remembered'
<1>1. TypeOK /\ ReadWell /\ Remembered /\ Types
  BY DEF IInv, TypeOK
<1>2. UNCHANGED <<stocks, stock, moving, wrote, audit, audited, watermark, jobs, level>>
  BY DEF ChangeSettings, stocks
<1>3. ReadWell'
  <2>1. Meets({}, {c})
    BY DEF ChangeSettings
  <2>2. {} \in SUBSET Products /\ {c} \in SUBSET Channels
    OBVIOUS
  <2> QED
    BY <1>1, <1>2, <2>1, <2>2, ReadKept
<1>4. /\ \A d \in Channels : d # c => setting'[d] = setting[d]
      /\ excused' = excused \cup {l \in Listings : l[1] = c}
  BY <1>1 DEF ChangeSettings, Types
<1>5. \A r : Due(r)' <=> Due(r)
  BY <1>2 DEF Due
<1>6. \A l \in Listings \ excused' : l \notin excused /\ Right(l)' = Right(l)
  BY <1>2, <1>4 DEF Right
<1>7. LateMoves'
  BY <1>1, <1>2, <1>4 DEF Remembered, LateMoves
<1>8. Chunks' = Chunks
  BY <1>2 DEF Chunks
<1>9. ChunksRight'
  BY <1>1, <1>5, <1>6, <1>8 DEF Remembered, ChunksRight, Covers
<1>10. NoLevelForgotten'
  BY <1>1, <1>2, <1>5, <1>6, <1>8 DEF Remembered, NoLevelForgotten, Covers
<1> QED
  BY <1>3, <1>7, <1>9, <1>10 DEF Remembered

(* What a synchronisation sends is right, unless its listing is one of the *)
(* holes; and what it does not send is not due any more.                   *)
LEMMA SentIsRight ==
    ASSUME IInv, CommitSync, NEW l \in Listings, l \notin Holes, NEW j \in NewChunks, Covers(j, l)
    PROVE  j.levels[l[2]] = Right(l)
<1>1. TypeOK /\ ReadWell /\ sync # None /\ sync \in Syncs
  BY SyncIsRecord DEF IInv, CommitSync
<1>2. l[1] \in Channels /\ l[2] \in Products
  OBVIOUS
<1>3. /\ l[2] \notin sync.touched /\ sync.setting[l[1]] = setting[l[1]]
  BY DEF Holes
<1>4. stock[l[2]] = sync.stock[l[2]]
  BY <1>1, <1>2, <1>3 DEF ReadWell, StockRead
<1>5. PICK c \in sync.channels : \E S \in Cut(Sent(c)) : j = Chunk(c, S)
  BY <1>1, NewChunksAre
<1>6. PICK S \in Cut(Sent(c)) : j = Chunk(c, S)
  BY <1>5
<1>7. c = l[1] /\ l[2] \in S
  BY <1>6 DEF Covers, Chunk
<1>8. j.levels[l[2]] = Level(sync.setting[c], sync.stock[l[2]])
  BY <1>6, <1>7 DEF Chunk
<1> QED
  BY <1>3, <1>4, <1>7, <1>8 DEF Right

LEMMA SentIsCovered ==
    ASSUME TypeOK, sync # None, NEW l \in Listings, l[1] \in sync.channels, l[2] \in Sent(l[1])
    PROVE  \E j \in NewChunks : Covers(j, l)
<1>1. PICK S \in Cut(Sent(l[1])) : l[2] \in S
  BY SentAreProducts, CutParts
<1>2. Chunk(l[1], S) \in NewChunks
  BY <1>1 DEF NewChunks
<1>3. Covers(Chunk(l[1], S), l)
  BY <1>1 DEF Covers, Chunk
<1> QED
  BY <1>2, <1>3

LEMMA CommitSyncKeeps ==
    ASSUME IInv, CommitSync
    PROVE  ReadWell' /\ Remembered'
<1>1. TypeOK /\ ReadWell /\ Remembered /\ Types /\ sync # None /\ sync \in Syncs
  BY SyncIsRecord DEF IInv, CommitSync, TypeOK
<1>2. UNCHANGED <<stock, moving, wrote, setting, audited, level>> /\ sync' = None
  BY DEF CommitSync, counts
<1>3. ReadWell'
  BY <1>2 DEF ReadWell, MovesMet, StockRead, ChangesRead
<1>4. \A l : Right(l)' = Right(l)
  BY <1>2 DEF Right
<1>5. Holes \subseteq excused' /\ \A l \in excused' : l \notin Holes => l \in excused
  BY DEF CommitSync
<1>6. LateMoves'
  <2> SUFFICES ASSUME NEW p \in Products, moving'[p] # None, NEW l \in Listings, l[2] = p
               PROVE  l \in excused'
    BY DEF LateMoves
  <2>1. p \in sync.touched
    BY <1>1, <1>2 DEF ReadWell, MovesMet
  <2> QED
    BY <1>5, <2>1 DEF Holes
<1>7. \A j \in Chunks' : j \in NewChunks \/ j \in Chunks
  <2> SUFFICES ASSUME NEW j \in Chunks', j \notin NewChunks PROVE j \in Chunks
    OBVIOUS
  <2>1. j \in jobs' /\ j.kind = "chunk"
    BY DEF Chunks
  <2>2. j \notin NewNotifications
    BY <1>1, <2>1, NewNotificationsAre
  <2>3. j \in jobs
    BY <2>1, <2>2 DEF CommitSync
  <2> QED
    BY <2>1, <2>3 DEF Chunks
<1>8. ASSUME NEW l \in Listings, l \notin excused', NEW j \in Chunks', Covers(j, l)
      PROVE  j.levels[l[2]] = Right(l)'
  <2>1. l \notin Holes
    BY <1>5, <1>8
  <2>2. j \in NewChunks
    BY <1>7, <1>8, <2>1 DEF Holes
  <2> QED
    BY <1>4, <1>8, <2>1, <2>2, SentIsRight
<1>9. ChunksRight'
  <2>1. \A j, l : Covers(j, l)' = Covers(j, l)
    BY DEF Covers
  <2> QED
    BY <1>8, <2>1 DEF ChunksRight
<1>10. NoLevelForgotten'
  <2> SUFFICES ASSUME NEW l \in Listings, l \notin excused', level[l] # Right(l)
               PROVE  \E j \in Chunks' : Covers(j, l) /\ j.levels[l[2]] = Right(l)
    BY <1>2, <1>4 DEF NoLevelForgotten, Covers
  <2>1. l \notin Holes
    BY <1>5
  <2>2. /\ l[1] \in sync.channels /\ l[2] \notin sync.touched /\ l[2] \in Products
        /\ sync.all \/ (sync.ids # None => l[2] \in sync.ids)
        /\ ~ \E j \in Chunks : Covers(j, l)
    BY <2>1 DEF Holes
  <2>3. CASE l[2] \in Sent(l[1])
    <3>1. SendsAny
      BY <2>3 DEF Sent, SendsAny
    <3>2. PICK j \in NewChunks : Covers(j, l)
      BY <1>1, <2>2, <2>3, SentIsCovered
    <3>3. j.kind = "chunk"
      BY <1>1, <3>2, NewChunksAre
    <3>4. j \in Chunks'
      BY <3>1, <3>2, <3>3 DEF CommitSync, Chunks
    <3> QED
      BY <2>1, <3>2, <3>4, SentIsRight
  <2>4. CASE l[2] \notin Sent(l[1])
    <3>1. ~sync.all /\ l[2] \notin sync.products
      <4>1. <<l[1], l[2]>> = l
        OBVIOUS
      <4> QED
        BY <2>2, <2>4, <4>1 DEF Sent
    <3>2. l \notin excused
      BY <2>2, <2>4 DEF CommitSync
    <3>3. Due(l[2])
      BY <1>1, <2>2, <3>2 DEF Remembered, NoLevelForgotten
    <3>4. l[2] \in sync.products
      BY <1>1, <2>2, <3>1, <3>3 DEF ReadWell, ChangesRead
    <3> QED
      BY <3>1, <3>4
  <2> QED
    BY <2>3, <2>4
<1> QED
  BY <1>3, <1>6, <1>9, <1>10 DEF Remembered

(* A chunk is sent, wholly or in part.  What it sends is right or due.     *)
LEMMA SendKeeps ==
    ASSUME IInv, NEW j \in Chunks, NEW ps \in SUBSET DOMAIN j.levels, Sends(j, ps),
           UNCHANGED <<stocks, setting, audited, watermark>>, excused \subseteq excused',
           \A k \in Chunks' : \E i \in Chunks : i.channel = k.channel /\ i.levels = k.levels,
           \A i \in Chunks : \/ i = j /\ \A p \in DOMAIN j.levels \ ps : <<j.channel, p>> \in excused'
                           \/ \E k \in Chunks' : i.channel = k.channel /\ i.levels = k.levels
    PROVE  Remembered'
<1>1. Remembered
  BY DEF IInv
<1>2. UNCHANGED <<stock, moving, wrote, audit, setting, audited, watermark>>
  BY DEF stocks
<1>3. \A p : Due(p)' <=> Due(p)
  BY <1>2 DEF Due
<1>4. \A l : Right(l)' = Right(l)
  BY <1>2 DEF Right
<1>5. LateMoves'
  BY <1>1, <1>2 DEF Remembered, LateMoves
<1>6. ChunksRight'
  BY <1>1, <1>2, <1>3, <1>4 DEF Remembered, ChunksRight, Covers
<1>7. NoLevelForgotten'
  <2> SUFFICES ASSUME NEW l \in Listings, l \notin excused', level'[l] # Right(l), ~Due(l[2])
               PROVE  \E k \in Chunks' : Covers(k, l) /\ k.levels[l[2]] = Right(l)
    BY <1>2, <1>3, <1>4 DEF NoLevelForgotten, Covers
  <2>3. l \notin excused /\ l = <<l[1], l[2]>>
    OBVIOUS
  <2>1. CASE l[1] = j.channel /\ l[2] \in ps
    <3>1. level'[l] = j.levels[l[2]] /\ Covers(j, l)
      BY <2>1 DEF Sends, Covers
    <3>2. FALSE
      BY <1>1, <2>3, <3>1 DEF Remembered, ChunksRight
    <3> QED
      BY <3>2
  <2>2. CASE ~(l[1] = j.channel /\ l[2] \in ps)
    <3>1. level'[l] = level[l]
      BY <2>2 DEF Sends
    <3>2. PICK i \in Chunks : Covers(i, l) /\ i.levels[l[2]] = Right(l)
      BY <1>1, <2>3, <3>1 DEF Remembered, NoLevelForgotten
    <3>3. ~(i = j /\ \A p \in DOMAIN j.levels \ ps : <<j.channel, p>> \in excused')
      BY <2>2, <2>3, <3>2 DEF Covers
    <3>4. PICK k \in Chunks' : i.channel = k.channel /\ i.levels = k.levels
      BY <3>3
    <3> QED
      BY <3>2, <3>4 DEF Covers
  <2> QED
    BY <2>1, <2>2
<1> QED
  BY <1>5, <1>6, <1>7 DEF Remembered

(* The steps that touch neither stock nor chunks.                          *)
LEMMA OtherStepsKeep ==
    ASSUME IInv,
           UNCHANGED <<stocks, setting, audited, watermark, level, excused>>,
           \A j : j.kind = "chunk" => (j \in jobs' <=> j \in jobs),
           \/ sync' = sync \/ sync' = None
           \/ \E ps \in SUBSET Products, cs \in SUBSET Channels : Meets(ps, cs)
    PROVE  ReadWell' /\ Remembered'
<1>1. TypeOK /\ ReadWell /\ Remembered
  BY DEF IInv
<1>2. ReadWell'
  BY <1>1, ReadKept
<1>3. Chunks' = Chunks
  BY DEF Chunks
<1>4. Remembered'
  BY <1>1, <1>3, RememberedKept DEF SameChunks
<1> QED
  BY <1>2, <1>4

LEMMA RunChunkKeeps ==
    ASSUME IInv, NEW j \in jobs, RunChunk(j) \/ ChunkFails(j) \/ VariantsRefused(j) \/ Requeue(j)
    PROVE  ReadWell' /\ Remembered'
<1>1. TypeOK /\ Types /\ ReadWell /\ Remembered
  BY DEF IInv, TypeOK
<1>2. UNCHANGED <<stocks, setting, audited, watermark, sync>>
  BY DEF RunChunk, ChunkFails, VariantsRefused, Requeue, flags, counts
<1>3. ReadWell'
  BY <1>1, <1>2, ReadKept
<1>4. CASE RunChunk(j)
  <2>1. /\ j \in Chunks /\ Sends(j, DOMAIN j.levels) /\ jobs' = jobs \ {j}
        /\ excused' = excused
    BY <1>4 DEF RunChunk, Chunks
  <2>2. /\ \A k \in Chunks' : k \in Chunks
        /\ \A i \in Chunks : i = j \/ i \in Chunks'
    BY <2>1 DEF Chunks
  <2>3. DOMAIN j.levels \in SUBSET DOMAIN j.levels
    OBVIOUS
  <2>4. Remembered'
    BY <1>2, <2>1, <2>2, <2>3, SendKeeps
  <2> QED
    BY <1>3, <2>4
<1>5. CASE ChunkFails(j)
  <2> DEFINE k == [j EXCEPT !.state = "failed"]
  <2>1. PICK ps \in SUBSET DOMAIN j.levels : Sends(j, ps)
    BY <1>5 DEF ChunkFails
  <2>2. j \in Chunks /\ jobs' = (jobs \ {j}) \cup {k} /\ excused' = excused
    BY <1>5 DEF ChunkFails, Chunks
  <2>3. PICK S \in SUBSET Products : j \in ChunkJobs(S)
    BY <1>1, <2>2 DEF Types, Chunks, BulkJobs, NotifyJobs
  <2>4. k.kind = "chunk" /\ k.channel = j.channel /\ k.levels = j.levels
    BY <2>3 DEF ChunkJobs
  <2> HIDE DEF k
  <2>5. /\ \A i \in Chunks' : i = k \/ i \in Chunks
        /\ \A i \in Chunks : i = j \/ i \in Chunks'
        /\ k \in Chunks'
    BY <2>2, <2>4 DEF Chunks
  <2>6. Remembered'
    BY <1>2, <2>1, <2>2, <2>4, <2>5, SendKeeps
  <2> QED
    BY <1>3, <2>6
<1>6. CASE VariantsRefused(j)
  <2>1. PICK ps \in SUBSET {p \in DOMAIN j.levels : <<j.channel, p>> \in ByVariant} :
           Sends(j, DOMAIN j.levels \ ps) /\ excused' = excused \cup {<<j.channel, p>> : p \in ps}
    BY <1>6 DEF VariantsRefused
  <2>2. j \in Chunks /\ jobs' = jobs \ {j}
    BY <1>6 DEF VariantsRefused, Chunks
  <2>3. /\ \A k \in Chunks' : k \in Chunks
        /\ \A i \in Chunks : i = j \/ i \in Chunks'
    BY <2>2 DEF Chunks
  <2>4. DOMAIN j.levels \ ps \in SUBSET DOMAIN j.levels /\ excused \subseteq excused'
    BY <2>1
  <2>5. \A p \in DOMAIN j.levels \ (DOMAIN j.levels \ ps) : <<j.channel, p>> \in excused'
    BY <2>1
  <2>6. Remembered'
    BY <1>2, <2>1, <2>2, <2>3, <2>4, <2>5, SendKeeps
  <2> QED
    BY <1>3, <2>6
<1>7. CASE Requeue(j) /\ j.kind = "chunk"
  <2> DEFINE k == [j EXCEPT !.state = "pending"]
  <2>1. PICK S \in SUBSET Products : j \in ChunkJobs(S)
    BY <1>1, <1>7 DEF Requeue, Types, BulkJobs, NotifyJobs
  <2>2. k.kind = "chunk" /\ k.channel = j.channel /\ k.levels = j.levels
    BY <2>1 DEF ChunkJobs
  <2>3. jobs' = (jobs \ {j}) \cup {k} /\ UNCHANGED <<level, excused>>
    BY <1>7 DEF Requeue
  <2> HIDE DEF k
  <2>4. /\ \A i \in Chunks' : i = k \/ i \in Chunks
        /\ \A i \in Chunks : i = j \/ i \in Chunks'
        /\ k \in Chunks' /\ j \in Chunks
    BY <1>7, <2>2, <2>3 DEF Chunks
  <2>5. SameChunks
    BY <2>2, <2>4 DEF SameChunks
  <2>6. Remembered'
    BY <1>1, <1>2, <2>3, <2>5, RememberedKept
  <2> QED
    BY <1>3, <2>6
<1>8. CASE Requeue(j) /\ j.kind # "chunk"
  <2>1. j \in NotifyJobs
    BY <1>1, <1>8 DEF Requeue, Types, BulkJobs, ChunkJobs
  <2>2. [j EXCEPT !.state = "pending"].kind # "chunk"
    BY <2>1 DEF NotifyJobs
  <2>3. \A i : i.kind = "chunk" => (i \in jobs' <=> i \in jobs)
    BY <1>8, <2>2 DEF Requeue
  <2> QED
    BY <1>2, <1>8, <2>3, OtherStepsKeep DEF Requeue
<1> QED
  BY <1>4, <1>5, <1>6, <1>7, <1>8

LEMMA NextKeeps == IInv /\ [Next]_vars => IInv'
<1> SUFFICES ASSUME IInv, [Next]_vars PROVE IInv'
  OBVIOUS
<1>1. TypeOK /\ Types
  BY DEF IInv, TypeOK
<1>2. TypeOK'
  BY <1>1, TypeNext
<1> SUFFICES ReadWell' /\ Remembered'
  BY <1>2 DEF IInv
<1> DEFINE Rest == UNCHANGED <<stocks, setting, audited, watermark, level, excused>>
<1>3. CASE Tick \/ UNCHANGED vars
  <2>1. Rest /\ jobs' = jobs /\ sync' = sync
    BY <1>3 DEF Tick, vars, flags, counts, stocks
  <2> QED
    BY <2>1, OtherStepsKeep
<1>4. CASE \/ Cron \/ Nightly
           \/ \E c \in Channels, p \in Products : ListingButton(c, p)
           \/ \E l \in Listings : ExportListing(l)
           \/ \E j \in Pending : RunBulk(j)
  <2>1. AnyStart
    BY <1>1, <1>4, StartsAre
  <2>2. ReadWell'
    BY <1>1, <2>1, ReadAtStart DEF AnyStart
  <2>3. Rest /\ jobs' = jobs
    BY <2>1 DEF AnyStart, Start, flags
  <2>4. SameChunks
    BY <2>3 DEF SameChunks, Chunks
  <2>5. Remembered'
    BY <2>3, <2>4, RememberedKept DEF IInv
  <2> QED
    BY <2>2, <2>5
<1>5. CASE CommitSync
  BY <1>5, CommitSyncKeeps
<1>6. CASE AbortSync
  <2>1. Rest /\ sync' = None
    BY <1>6 DEF AbortSync, flags
  <2>2. \A j : j.kind = "chunk" => (j \in jobs' <=> j \in jobs)
    <3>1. sync \in Syncs
      BY <1>1, <1>6, SyncIsRecord DEF AbortSync
    <3>2. \A j \in jobs : j.kind = "chunk" => j # sync.job
      BY <1>1, <3>1 DEF Types, Syncs, BulkJobs, NotifyJobs
    <3> QED
      BY <1>6, <3>2 DEF AbortSync
  <2> QED
    BY <2>1, <2>2, OtherStepsKeep
<1>7. CASE \E p \in Products : BeginMove(p) \/ CommitMove(p)
  BY <1>7, BeginMoveKeeps, CommitMoveKeeps
<1>8. ASSUME NEW c \in Channels, ChangeSettings(c) \/ BulkButton(c)
      PROVE  ReadWell' /\ Remembered'
  <2>1. CASE ChangeSettings(c)
    BY <2>1, ChangeSettingsKeeps
  <2>2. CASE BulkButton(c)
    <3>1. Rest /\ Meets({}, {c})
      BY <2>2 DEF BulkButton
    <3>2. \A j : j.kind = "chunk" => (j \in jobs' <=> j \in jobs)
      BY <2>2 DEF BulkButton
    <3>3. {} \in SUBSET Products /\ {c} \in SUBSET Channels
      OBVIOUS
    <3> QED
      BY <3>1, <3>2, <3>3, OtherStepsKeep
  <2> QED
    BY <1>8, <2>1, <2>2
<1>9. ASSUME NEW j \in jobs, RunChunk(j) \/ ChunkFails(j) \/ VariantsRefused(j) \/ Requeue(j)
      PROVE  ReadWell' /\ Remembered'
  BY <1>9, RunChunkKeeps
<1>10. ASSUME NEW n \in jobs, DoneInventorySync(n) \/ NotifyGivesUp(n) \/ Autovacuum(n)
       PROVE  ReadWell' /\ Remembered'
  <2>1. n.kind = "notify" /\ n \in NotifyJobs
    BY <1>1, <1>10 DEF DoneInventorySync, NotifyGivesUp, Autovacuum, Types, BulkJobs, ChunkJobs
  <2>2. {} \in SUBSET Products /\ {n.channel} \in SUBSET Channels
    BY <2>1 DEF NotifyJobs
  <2>3. Rest /\ (sync' = sync \/ Meets({}, {n.channel}))
    BY <1>10 DEF DoneInventorySync, NotifyGivesUp, Autovacuum, flags, counts
  <2>4. \A j : j.kind = "chunk" => (j \in jobs' <=> j \in jobs)
    <3>1. [n EXCEPT !.lost = TRUE].kind = "notify" /\ [n EXCEPT !.state = "failed"].kind = "notify"
      BY <2>1 DEF NotifyJobs
    <3> QED
      BY <1>10, <2>1, <3>1 DEF DoneInventorySync, NotifyGivesUp, Autovacuum
  <2> QED
    BY <2>2, <2>3, <2>4, OtherStepsKeep
<1> QED
  BY <1>3, <1>4, <1>5, <1>6, <1>7, <1>8, <1>9, <1>10 DEF Next, Pending

(* Every open run has read what it was to read and remembers what has      *)
(* moved since it began (inventory_sync and the trigger on stock_quant).   *)
THEOREM InventorySyncInvariant == Spec => []IInv
<1> QED
  BY InitInv, NextKeeps, PTL DEF Spec

(* A wrong level on a store is never forgotten: the next synchronisation   *)
(* takes the product for changed or a job carries the right level, but for *)
(* the holes that NoLevelForgotten names (inventory_sync,                  *)
(* _get_products_to_sync_inventory, the trigger on stock_quant).           *)
THEOREM NoLevelIsForgotten == Spec => []NoLevelForgotten
<1>1. IInv => NoLevelForgotten
  BY DEF IInv, Remembered
<1> QED
  BY <1>1, InventorySyncInvariant, PTL

=============================================================================
