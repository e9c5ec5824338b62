------------------------- MODULE ProductImportProofs -------------------------
(***************************************************************************)
(* Proofs about ProductImport, for any products and offers, any number of  *)
(* workers and any settings, in two parts.  No edit that the staff of the  *)
(* store make falls between two imports: there a run ends with the job     *)
(* pending again, failed, or done, whatever it did to the products of      *)
(* Odoo.  Then that: the links of a mapping lead to products with the SKU  *)
(* of the variant.                                                         *)
(***************************************************************************)
EXTENDS ProductImport, FiniteSetTheorems, WellFoundedInduction, TLAPS

LEMMA NoneIsNoJob == None \notin JobRecords
BY ProductImportAssumption

USE NoneIsNoJob

-----------------------------------------------------------------------------
(* The version that the store has.                                         *)
Version(p) == store[p].version

(* The version has been imported, or a job has it that is pending, runs or *)
(* failed, or it was passed over.  What the listing holds is not counted:  *)
(* it may break.                                                           *)
Settled(p) ==
    \/ reached[p] = Version(p)
    \/ \E j \in jobs : j.product = p /\ j.version = Version(p)
    \/ \E w \in Workers : runs[w] # None /\ runs[w].product = p /\ runs[w].version = Version(p)
    \/ <<p, Version(p)>> \in failed \cup passed

(* An import of what changed after t need not list the product, or does.   *)
After(p, t) == Settled(p) \/ Version(p) > t

Held(p) == pull.held # None /\ pull.held.product = p /\ pull.held.version = Version(p)

PullRecords ==
    [n : Nat, from : Int, left : SUBSET Products, auto : BOOLEAN, moves : BOOLEAN,
     held : JobRecords \cup {None}, seen : [Products -> Int], last : Nat \cup {None}]

Old(j) == j \in JobRecords /\ j.version <= Version(j.product)

Values ==
    /\ edits \in Nat /\ pulls \in Nat
    /\ store \in [Products -> [offer : Offered, version : Nat]]
    /\ watermark \in Int /\ watermark <= edits
    /\ reached \in [Products -> Int]
    /\ \A p \in Products : Version(p) <= edits /\ reached[p] <= Version(p)
    /\ runs \in [Workers -> JobRecords \cup {None}]
    /\ \A j \in jobs : Old(j)
    /\ \A w \in Workers : runs[w] # None => Old(runs[w])
    /\ \A e \in ends : e.last \in Nat /\ e.last <= edits

PullValues ==
    pull # None =>
        /\ pull \in PullRecords /\ pull.from <= edits
        /\ pull.held # None => Old(pull.held)
        /\ pull.last # None => pull.last <= edits
        /\ \A p \in Products : pull.seen[p] <= Version(p)

(* A listing that moves the watermark: a product that it has been given    *)
(* and that nobody edited since is settled or held; one that was edited    *)
(* since was passed over, or was edited after the last job was queued.     *)
Listing ==
    pull # None /\ pull.moves =>
        \A p \in Products \ pull.left :
            /\ pull.seen[p] >= 0
            /\ Version(p) = pull.seen[p] => Settled(p) \/ Held(p)
            /\ Version(p) # pull.seen[p] /\ pull.last # None => After(p, pull.last)

Dates ==
    /\ \A p \in Products : After(p, watermark)
    /\ \A e \in ends : e.moves => \A p \in Products : After(p, e.last)
    /\ pull # None => \A p \in Products : After(p, pull.from)

IInv == Values /\ PullValues /\ Listing /\ Dates

-----------------------------------------------------------------------------
(* Steps that settle what was settled.                                     *)

Settles == \A p \in Products : Settled(p) => Settled(p)'

(* The dates do not move and the listing goes on as it was.                *)
LEMMA DatesKept ==
    ASSUME IInv, Settles, UNCHANGED <<store, watermark, pull>>, ends' \subseteq ends
    PROVE  Dates' /\ Listing'
<1>1. Dates /\ Listing
  BY DEF IInv
<1>2. \A p \in Products : Version(p)' = Version(p) /\ (Held(p)' <=> Held(p))
  BY DEF Version, Held
<1>3. \A p \in Products : \A t : After(p, t) => After(p, t)'
  BY <1>2 DEF After, Settles
<1>4. Dates'
  <2>1. \A p \in Products : After(p, watermark)'
    BY <1>1, <1>3 DEF Dates
  <2>2. \A e \in ends' : e.moves => \A p \in Products : After(p, e.last)'
    BY <1>1, <1>3 DEF Dates
  <2>3. pull' # None => \A p \in Products : After(p, pull.from)'
    BY <1>1, <1>3 DEF Dates
  <2> QED
    BY <2>1, <2>2, <2>3 DEF Dates, After, Settled, Version
<1>5. Listing'
  BY <1>1, <1>2, <1>3 DEF Listing, Settles, After, Settled, Version, Held
<1> QED
  BY <1>4, <1>5

-----------------------------------------------------------------------------
(* The staff and the user.                                                 *)

LEMMA StaffEditsKeeps ==
    ASSUME IInv, NEW c \in Products, StaffEdits(c)
    PROVE  IInv'
<1>1. PICK offer \in Offers(c) : store' = [store EXCEPT ![c] = [offer |-> offer, version |-> edits + 1]]
  BY DEF StaffEdits
<1>2. /\ edits' = edits + 1
      /\ UNCHANGED <<odoo, queue, workers, pulls, disturbed, histories>>
  BY DEF StaffEdits
<1>3. Values /\ PullValues /\ Listing /\ Dates
  BY DEF IInv
<1>4. /\ edits \in Nat /\ offer \in Offered
      /\ store' \in [Products -> [offer : Offered, version : Nat]]
      /\ store'[c].version = edits + 1
      /\ \A p \in Products \ {c} : store'[p] = store[p]
  BY <1>1, <1>3 DEF Values, Offered
<1>5. \A p \in Products : /\ Version(p) \in Nat /\ Version(p)' \in Nat /\ Version(p) <= edits
                          /\ Version(p)' <= edits' /\ Version(p) <= Version(p)'
  BY <1>2, <1>3, <1>4 DEF Values, Version
<1>6. \A j : Old(j) => Old(j)'
  <2> SUFFICES ASSUME NEW j, Old(j) PROVE j.version <= Version(j.product)'
    BY DEF Old
  <2>1. j.product \in Products /\ j.version \in Nat /\ j.version <= Version(j.product)
    BY DEF Old, JobRecords
  <2> QED
    BY <1>5, <2>1
<1>7. Values'
  <2>1. \A p \in Products : Version(p)' <= edits' /\ reached'[p] <= Version(p)'
    BY <1>2, <1>3, <1>5 DEF Values, histories
  <2>2. watermark' \in Int /\ watermark' <= edits' /\ edits' \in Nat
    BY <1>2, <1>3 DEF Values, queue
  <2>3. \A e \in ends' : e.last \in Nat /\ e.last <= edits'
    BY <1>2, <1>3, <1>4 DEF Values, queue
  <2>4. (\A j \in jobs' : Old(j)') /\ (\A w \in Workers : runs'[w] # None => Old(runs[w])')
    BY <1>2, <1>3, <1>6 DEF Values, queue, workers
  <2> QED
    BY <1>2, <1>3, <1>4, <2>1, <2>2, <2>3, <2>4 DEF Values, queue, workers, histories, Old
<1>8. PullValues'
  <2> SUFFICES ASSUME pull # None
               PROVE  /\ pull.from <= edits' /\ (pull.held # None => Old(pull.held)')
                      /\ (pull.last # None => pull.last <= edits')
                      /\ \A p \in Products : pull.seen[p] <= Version(p)'
    BY <1>2, <1>3 DEF PullValues, queue, Old
  <2>1. pull \in PullRecords
    BY <1>3 DEF PullValues
  <2>2. pull.from \in Int /\ pull.last \in Nat \cup {None} /\ \A p \in Products : pull.seen[p] \in Int
    BY <2>1 DEF PullRecords
  <2>3. pull.from <= edits' /\ (pull.last # None => pull.last <= edits')
    BY <1>2, <1>3, <1>4, <2>2 DEF PullValues
  <2>4. pull.held # None => Old(pull.held)'
    <3>1. pull' = pull
      BY <1>2 DEF queue
    <3> QED
      BY <1>3, <1>6, <3>1 DEF PullValues
  <2>5. \A p \in Products : pull.seen[p] <= Version(p)'
    BY <1>3, <1>5, <2>2 DEF PullValues
  <2> QED
    BY <2>3, <2>4, <2>5
<1>9. \A p \in Products \ {c} : /\ Version(p)' = Version(p) /\ (Held(p)' <=> Held(p))
                                /\ (Settled(p)' <=> Settled(p))
  BY <1>2, <1>4 DEF Version, Held, Settled, queue, workers, histories
<1>10. Version(c)' = edits + 1
  BY <1>4 DEF Version
<1>11. \A p \in Products : \A i \in Int : i <= edits /\ After(p, i) => After(p, i)'
  BY <1>4, <1>9, <1>10 DEF After
<1>12. Dates'
  <2>1. \A p \in Products : After(p, watermark)'
    BY <1>2, <1>3, <1>11 DEF Dates, Values, queue, After
  <2>2. \A e \in ends' : e.moves => \A p \in Products : After(p, e.last)'
    BY <1>2, <1>3, <1>11 DEF Dates, Values, queue, After
  <2>3. pull' # None => \A p \in Products : After(p, pull.from)'
    <3>1. pull # None => pull.from \in Int /\ pull.from <= edits
      BY <1>3 DEF PullValues, PullRecords
    <3> QED
      BY <1>2, <1>3, <1>11, <3>1 DEF Dates, queue, After
  <2> QED
    BY <1>2, <2>1, <2>2, <2>3 DEF Dates, After, queue, Settled, Version
<1>13. Listing'
  <2> SUFFICES ASSUME pull # None, pull.moves, NEW p \in Products \ pull.left
               PROVE  /\ pull.seen[p] >= 0
                      /\ Version(p)' = pull.seen[p] => Settled(p)' \/ Held(p)'
                      /\ Version(p)' # pull.seen[p] /\ pull.last # None => After(p, pull.last)'
    BY <1>2 DEF Listing, queue, Settled, Held, Version, After
  <2>1. /\ pull.seen[p] >= 0 /\ pull.seen[p] \in Int /\ pull.seen[p] <= edits
        /\ (pull.last # None => pull.last \in Int /\ pull.last <= edits)
    <3>1. pull \in PullRecords
      BY <1>3 DEF PullValues
    <3>2. pull.seen[p] \in Int /\ pull.last \in Nat \cup {None}
      BY <3>1 DEF PullRecords
    <3>3. pull.seen[p] <= Version(p) /\ Version(p) \in Nat /\ Version(p) <= edits
      BY <1>3, <1>5 DEF PullValues
    <3> QED
      BY <1>3, <1>4, <3>2, <3>3 DEF PullValues, Listing
  <2>2. pull' = pull
    BY <1>2 DEF queue
  <2>3. CASE p = c
    <3>1. Version(p)' > edits /\ edits \in Nat /\ Version(p)' \in Nat
      BY <1>4, <1>10, <2>3
    <3>2. Version(p)' # pull.seen[p]
      BY <2>1, <3>1
    <3>3. pull.last # None => Version(p)' > pull.last
      BY <2>1, <3>1
    <3> QED
      BY <2>1, <2>2, <3>2, <3>3 DEF After
  <2>4. CASE p # c
    <3>1. Version(p)' = Version(p) /\ (Held(p)' <=> Held(p)) /\ (Settled(p)' <=> Settled(p))
      BY <1>9, <2>4
    <3> QED
      BY <1>3, <2>1, <2>2, <3>1 DEF Listing, After
  <2> QED
    BY <2>3, <2>4
<1> QED
  BY <1>7, <1>8, <1>12, <1>13 DEF IInv

(* The products of Odoo have no part in the dates.                         *)
LEMMA OthersKeep ==
    ASSUME IInv, UNCHANGED <<store, queue, runs, edits, pulls, histories>>
    PROVE  IInv'
<1>1. Settles
  BY DEF Settles, Settled, Version, queue, histories
<1>2. Dates' /\ Listing'
  BY <1>1, DatesKept DEF queue
<1>3. Values' /\ PullValues'
  BY DEF IInv, Values, PullValues, Old, Version, queue, histories
<1> QED
  BY <1>2, <1>3 DEF IInv

-----------------------------------------------------------------------------
(* The listing.                                                            *)

(* A listing starts from a date that every unsettled version lies after,   *)
(* and one that moves the watermark asks for every product.                *)
LEMMA NewPullKeeps ==
    ASSUME IInv, NEW from \in {Always, watermark}, NEW ps \in SUBSET Products, NEW moves \in BOOLEAN,
           moves => ps = Products, NewPull(from, ps, moves)
    PROVE  IInv'
<1>1. Values /\ PullValues /\ Listing /\ Dates
  BY DEF IInv
<1>2. PICK auto \in BOOLEAN :
         pull' = [n |-> pulls + 1, from |-> from, left |-> ps, auto |-> auto, moves |-> moves,
                  held |-> None, seen |-> [p \in Products |-> Always], last |-> None]
  BY DEF NewPull
<1>3. /\ pulls' = pulls + 1
      /\ UNCHANGED <<store, odoo, watermark, jobs, ends, failed, workers, edits, disturbed, histories>>
  BY DEF NewPull
<1>4. from \in Int /\ from <= edits /\ edits \in Nat /\ pulls + 1 \in Nat
  BY <1>1 DEF Values, Always
<1>5. Values'
  BY <1>1, <1>3, <1>4 DEF Values, Old, Version, workers, histories
<1>6. \A p \in Products : Version(p) \in Nat /\ Version(p)' = Version(p) /\ (Settled(p)' <=> Settled(p))
  BY <1>1, <1>3 DEF Values, Version, Settled, workers, histories
<1>7. pull' \in PullRecords
  BY <1>2, <1>4 DEF PullRecords, Always
<1>8. /\ pull'.from = from /\ pull'.held = None /\ pull'.last = None /\ pull'.moves = moves
      /\ pull'.left = ps /\ \A p \in Products : pull'.seen[p] = Always
  BY <1>2
<1>9. PullValues'
  BY <1>4, <1>6, <1>3, <1>7, <1>8 DEF PullValues, Always
<1>10. Listing'
  BY <1>8 DEF Listing
<1>11. \A p \in Products : After(p, from)
  BY <1>1, <1>6 DEF Dates, After, Always
<1>12. Dates'
  <2>1. \A p \in Products : \A t : After(p, t) => After(p, t)'
    BY <1>6 DEF After
  <2>2. \A p \in Products : After(p, watermark)'
    BY <1>1, <1>3, <2>1 DEF Dates, After
  <2>3. \A e \in ends' : e.moves => \A p \in Products : After(p, e.last)'
    BY <1>1, <1>3, <2>1 DEF Dates
  <2>4. \A p \in Products : After(p, pull.from)'
    BY <1>8, <1>11, <2>1 DEF After
  <2> QED
    BY <1>3, <2>2, <2>3, <2>4 DEF Dates
<1> QED
  BY <1>5, <1>9, <1>10, <1>12 DEF IInv

LEMMA FetchProductKeeps ==
    ASSUME IInv, NEW c \in Products, FetchProduct(c)
    PROVE  IInv'
<1> DEFINE job == [pull |-> pull.n, product |-> c, version |-> store[c].version,
                   offer |-> store[c].offer, auto |-> pull.auto]
<1>1. Values /\ PullValues /\ Listing /\ Dates
  BY DEF IInv
<1>2. /\ pull # None /\ pull.held = None /\ c \in pull.left
      /\ pull' = [pull EXCEPT !.left = @ \ {c}, !.seen[c] = store[c].version,
                     !.held = IF store[c].version > pull.from THEN job ELSE None]
      /\ UNCHANGED <<store, odoo, watermark, jobs, ends, failed, workers, counts, histories>>
  BY DEF FetchProduct
<1>3. pull \in PullRecords
  BY <1>1, <1>2 DEF PullValues
<1>4. Version(c) \in Nat /\ store[c].offer \in Offered /\ Version(c) = store[c].version
  BY <1>1 DEF Values, Version
<1>5. job \in JobRecords /\ job.product = c /\ job.version = Version(c)
  BY <1>3, <1>4 DEF PullRecords, JobRecords
<1> HIDE DEF job
<1>6. job # None
  BY <1>5 DEF ProductImportAssumption
<1>7. /\ pull' \in PullRecords /\ pull'.from = pull.from /\ pull'.last = pull.last
      /\ pull'.moves = pull.moves /\ pull'.left = pull.left \ {c}
      /\ pull'.held = IF Version(c) > pull.from THEN job ELSE None
      /\ pull'.seen[c] = Version(c) /\ \A p \in Products \ {c} : pull'.seen[p] = pull.seen[p]
  <2> DEFINE seen == [pull.seen EXCEPT ![c] = Version(c)]
             held == IF Version(c) > pull.from THEN job ELSE None
             left == pull.left \ {c}
  <2>1. pull' = [pull EXCEPT !.left = left, !.seen = seen, !.held = held]
    BY <1>2, <1>4
  <2>2. pull.seen \in [Products -> Int] /\ pull.left \in SUBSET Products
    BY <1>3 DEF PullRecords
  <2>3. /\ seen \in [Products -> Int] /\ held \in JobRecords \cup {None} /\ left \in SUBSET Products
        /\ seen[c] = Version(c) /\ \A p \in Products \ {c} : seen[p] = pull.seen[p]
    BY <1>4, <1>5, <2>2
  <2> HIDE DEF seen, held, left
  <2>4. /\ pull' \in PullRecords /\ pull'.from = pull.from /\ pull'.last = pull.last
        /\ pull'.moves = pull.moves /\ pull'.left = left /\ pull'.held = held /\ pull'.seen = seen
    BY <1>3, <2>1, <2>3 DEF PullRecords
  <2> QED
    BY <2>3, <2>4 DEF held, left
<1>8. \A p \in Products : Version(p)' = Version(p) /\ (Settled(p)' <=> Settled(p))
  BY <1>2 DEF Version, Settled, workers, histories
<1>9. \A p \in Products : \A t : After(p, t) => After(p, t)'
  BY <1>8 DEF After
<1>10. Values'
  BY <1>1, <1>2 DEF Values, Old, Version, workers, histories, counts
<1>11. job \in JobRecords /\ job.version <= store[job.product].version
  BY <1>4, <1>5
<1>12. PullValues'
  <2>1. pull'.held # None => Old(pull.held)'
    <3>1. pull'.held # None
            => pull'.held \in JobRecords /\ pull'.held.version <= store[pull'.held.product].version
      BY <1>7, <1>11
    <3> QED
      BY <1>2, <3>1 DEF Old, Version
  <2>2. \A p \in Products : pull'.seen[p] <= Version(p)'
    BY <1>1, <1>2, <1>4, <1>7, <1>8 DEF PullValues
  <2> QED
    BY <1>1, <1>2, <1>7, <2>1, <2>2 DEF PullValues, counts
<1>13. Dates'
  <2>1. \A p \in Products : After(p, watermark)'
    BY <1>1, <1>2, <1>9 DEF Dates, After
  <2>2. \A e \in ends' : e.moves => \A p \in Products : After(p, e.last)'
    BY <1>1, <1>2, <1>9 DEF Dates
  <2>3. \A p \in Products : After(p, pull.from)'
    BY <1>1, <1>2, <1>7, <1>9 DEF Dates, After
  <2> QED
    BY <1>2, <2>1, <2>2, <2>3 DEF Dates
<1>14. Listing'
  <2> SUFFICES ASSUME pull'.moves, NEW p \in Products \ pull'.left
               PROVE  /\ pull'.seen[p] >= 0
                      /\ Version(p)' = pull'.seen[p] => Settled(p)' \/ Held(p)'
                      /\ Version(p)' # pull'.seen[p] /\ pull'.last # None => After(p, pull.last)'
    BY DEF Listing
  <2>1. CASE p = c
    <3>1. Settled(c) \/ Version(c) > pull.from
      BY <1>1, <1>2 DEF Dates, After
    <3>2. CASE Version(c) > pull.from
      <4>1. pull'.held = job /\ Version(c)' = Version(c)
        BY <1>7, <1>8, <3>2
      <4> QED
        BY <1>4, <1>5, <1>6, <1>7, <1>8, <2>1, <4>1 DEF Held
    <3> QED
      BY <1>4, <1>7, <1>8, <2>1, <3>1, <3>2
  <2>2. CASE p # c
    <3>1. /\ pull.seen[p] >= 0
          /\ Version(p) = pull.seen[p] => Settled(p)
          /\ Version(p) # pull.seen[p] /\ pull.last # None => After(p, pull.last)
      BY <1>1, <1>2, <1>7, <2>2 DEF Listing, Held
    <3> QED
      BY <1>7, <1>8, <1>9, <2>2, <3>1 DEF After
  <2> QED
    BY <2>1, <2>2
<1> QED
  BY <1>10, <1>12, <1>13, <1>14 DEF IInv

LEMMA QueueJobKeeps ==
    ASSUME IInv, QueueJob
    PROVE  IInv'
<1>1. Values /\ PullValues /\ Listing /\ Dates
  BY DEF IInv
<1>2. /\ pull # None /\ pull.held # None
      /\ jobs' = jobs \cup {pull.held}
      /\ pull' = [pull EXCEPT !.held = None, !.last = edits]
      /\ passed' = (IF pull.moves THEN passed \cup Passed ELSE passed)
      /\ UNCHANGED <<store, odoo, watermark, ends, failed, workers, counts, reached>>
  BY DEF QueueJob
<1>3. pull \in PullRecords /\ Old(pull.held) /\ edits \in Nat
  BY <1>1, <1>2 DEF PullValues, Values
<1>4. /\ pull' \in PullRecords /\ pull'.from = pull.from /\ pull'.last = edits
      /\ pull'.moves = pull.moves /\ pull'.left = pull.left /\ pull'.held = None /\ pull'.seen = pull.seen
  BY <1>2, <1>3 DEF PullRecords
<1>5. \A p \in Products : Version(p)' = Version(p)
  BY <1>2 DEF Version
<1>6. \A p \in Products : Settled(p) \/ Held(p) => Settled(p)'
  <2> SUFFICES ASSUME NEW p \in Products, Settled(p) \/ Held(p)
               PROVE  Settled(p)'
    OBVIOUS
  <2>1. passed \subseteq passed' /\ jobs \subseteq jobs' /\ pull.held \in jobs'
    BY <1>2
  <2> QED
    BY <1>2, <1>5, <2>1 DEF Settled, Held, workers, Version
<1>7. \A p \in Products : \A t : After(p, t) => After(p, t)'
  BY <1>5, <1>6 DEF After
<1>8. Values'
  BY <1>1, <1>2, <1>3 DEF Values, Old, Version, workers, counts
<1>9. PullValues'
  BY <1>1, <1>2, <1>3, <1>4, <1>5 DEF PullValues, counts
<1>10. Dates'
  <2>1. \A p \in Products : After(p, watermark)'
    BY <1>1, <1>2, <1>7 DEF Dates, After
  <2>2. \A e \in ends' : e.moves => \A p \in Products : After(p, e.last)'
    BY <1>1, <1>2, <1>7 DEF Dates
  <2>3. \A p \in Products : After(p, pull.from)'
    BY <1>1, <1>2, <1>4, <1>7 DEF Dates, After
  <2> QED
    BY <1>2, <2>1, <2>2, <2>3 DEF Dates
<1>11. Listing'
  <2> SUFFICES ASSUME pull.moves, NEW p \in Products \ pull.left
               PROVE  pull.seen[p] >= 0 /\ Settled(p)'
    BY <1>4 DEF Listing, After
  <2>1. pull.seen[p] >= 0 /\ (Version(p) = pull.seen[p] => Settled(p) \/ Held(p))
    BY <1>1, <1>2 DEF Listing
  <2>2. CASE Version(p) = pull.seen[p]
    BY <1>6, <2>1, <2>2
  <2>3. CASE Version(p) # pull.seen[p]
    <3>1. /\ pull.seen[p] \in Int /\ Version(p) \in Nat
          /\ pull.seen[p] <= Version(p) /\ store[p].version = Version(p)
      BY <1>1, <1>2, <1>3 DEF PullRecords, PullValues, Values, Version
    <3>2. pull.seen[p] \in 0..(store[p].version - 1)
      BY <2>1, <2>3, <3>1
    <3>3. <<p, store[p].version>> \in Passed
      BY <3>2 DEF Passed
    <3> QED
      BY <1>2, <1>5, <2>1, <3>1, <3>3 DEF Settled
  <2> QED
    BY <2>1, <2>2, <2>3
<1> QED
  BY <1>8, <1>9, <1>10, <1>11 DEF IInv

(* A listing ends: it has left out no product, or passed over those that   *)
(* it has left out.                                                        *)
LEMMA ListingEndsKeeps ==
    ASSUME IInv, ListingEnds, passed \subseteq passed',
           \A t \in Nat : pull.last = t /\ t # None /\ pull.moves => \A p \in pull.left : After(p, t)'
    PROVE  IInv'
<1> DEFINE end == [pull |-> pull.n, last |-> pull.last, moves |-> pull.moves]
<1>1. Values /\ PullValues /\ Listing /\ Dates
  BY DEF IInv
<1>2. /\ pull # None /\ pull.held = None
      /\ ends' = (IF pull.last = None THEN ends ELSE ends \cup {end})
      /\ pull' = None
      /\ UNCHANGED <<store, odoo, watermark, jobs, failed, workers, edits, pulls, reached>>
  BY DEF ListingEnds
<1>3. pull \in PullRecords
  BY <1>1, <1>2 DEF PullValues
<1>4. \A p \in Products : Version(p)' = Version(p) /\ (Settled(p) => Settled(p)')
  BY <1>2 DEF Version, Settled, workers
<1>5. \A p \in Products : \A t : After(p, t) => After(p, t)'
  BY <1>4 DEF After
<1>6. end.last = pull.last /\ end.moves = pull.moves
  OBVIOUS
<1> HIDE DEF end
<1>7. \A t \in Nat : pull.last = t /\ t # None /\ pull.moves => \A p \in Products : After(p, t)'
  <2> SUFFICES ASSUME NEW t \in Nat, pull.last = t, t # None, pull.moves, NEW p \in Products
               PROVE  After(p, t)'
    OBVIOUS
  <2>1. CASE p \in pull.left
    BY <2>1
  <2>2. CASE p \notin pull.left
    <3>1. After(p, t)
      BY <1>1, <1>2, <2>2 DEF Listing, After, Held
    <3> QED
      BY <1>5, <3>1
  <2> QED
    BY <2>1, <2>2
<1>8. Values'
  <2>1. \A e \in ends' : e.last \in Nat /\ e.last <= edits'
    <3>1. pull.last # None => end.last \in Nat /\ end.last <= edits
      BY <1>1, <1>2, <1>3, <1>6 DEF PullValues, PullRecords
    <3> QED
      BY <1>1, <1>2, <3>1 DEF Values
  <2> QED
    BY <1>1, <1>2, <2>1 DEF Values, Old, Version, workers
<1>9. PullValues' /\ Listing'
  BY <1>2 DEF PullValues, Listing
<1>10. Dates'
  <2>1. \A p \in Products : After(p, watermark)'
    BY <1>1, <1>2, <1>5 DEF Dates, After
  <2>2. \A e \in ends' : e.moves => \A p \in Products : After(p, e.last)'
    <3>1. pull.last # None => end.last \in Nat
      BY <1>2, <1>3, <1>6 DEF PullRecords
    <3>2. \A e \in ends : e.moves => \A p \in Products : After(p, e.last)'
      BY <1>1, <1>5 DEF Dates
    <3> QED
      BY <1>2, <1>6, <1>7, <3>1, <3>2
  <2> QED
    BY <1>2, <2>1, <2>2 DEF Dates
<1> QED
  BY <1>8, <1>9, <1>10 DEF IInv

LEMMA EndPullKeeps ==
    ASSUME IInv, EndPull
    PROVE  IInv'
<1>1. ListingEnds /\ pull.left = {} /\ passed' = passed
  BY DEF EndPull
<1> QED
  BY <1>1, ListingEndsKeeps

LEMMA RefusePageKeeps ==
    ASSUME IInv, RefusePage
    PROVE  IInv'
<1>1. /\ ListingEnds /\ pull.left # {}
      /\ passed' = (IF pull.moves /\ pull.last # None THEN passed \cup LeftOut ELSE passed)
  BY DEF RefusePage
<1>2. passed \subseteq passed'
  BY <1>1
<1>3. \A t \in Nat : pull.last = t /\ t # None /\ pull.moves => \A p \in pull.left : After(p, t)'
  <2> SUFFICES ASSUME NEW t \in Nat, pull.last = t, t # None, pull.moves, NEW p \in pull.left
               PROVE  After(p, t)'
    OBVIOUS
  <2>1. /\ pull # None /\ pull \in PullRecords /\ After(p, pull.from) /\ p \in Products
        /\ Version(p) \in Nat /\ store' = store
    BY <1>1 DEF ListingEnds, IInv, PullValues, PullRecords, Dates, Values, Version
  <2>2. CASE Settled(p)
    BY <1>1, <1>2, <2>1, <2>2 DEF ListingEnds, After, Settled, Version, workers
  <2>3. CASE Version(p) > t
    BY <2>1, <2>3 DEF After, Version
  <2>4. CASE Version(p) > pull.from /\ ~(Version(p) > t)
    <3>1. pull.from \in Int /\ pull.last \in Nat
      BY <2>1 DEF PullRecords
    <3>2. store[p].version \in (pull.from + 1)..t
      BY <2>1, <2>4, <3>1 DEF Version
    <3>3. <<p, store[p].version>> \in passed'
      BY <1>1, <3>2 DEF LeftOut
    <3> QED
      BY <2>1, <3>3 DEF After, Settled, Version
  <2> QED
    BY <2>1, <2>2, <2>3, <2>4 DEF After
<1> QED
  BY <1>1, <1>2, <1>3, ListingEndsKeeps

LEMMA BreakPullKeeps ==
    ASSUME IInv, BreakPull
    PROVE  IInv'
<1>1. Values /\ PullValues /\ Listing /\ Dates
  BY DEF IInv
<1>2. /\ pull' = None
      /\ UNCHANGED <<store, odoo, watermark, jobs, ends, failed, workers, edits, pulls, histories>>
  BY DEF BreakPull
<1>3. \A p \in Products : \A t : After(p, t) => After(p, t)'
  BY <1>2 DEF After, Version, Settled, workers, histories
<1>4. Values'
  BY <1>1, <1>2 DEF Values, Old, Version, workers, histories
<1>5. PullValues' /\ Listing'
  BY <1>2 DEF PullValues, Listing
<1>6. Dates'
  <2>1. \A p \in Products : After(p, watermark)'
    BY <1>1, <1>2, <1>3 DEF Dates, After
  <2>2. \A e \in ends' : e.moves => \A p \in Products : After(p, e.last)'
    BY <1>1, <1>2, <1>3 DEF Dates
  <2> QED
    BY <1>2, <2>1, <2>2 DEF Dates
<1> QED
  BY <1>4, <1>5, <1>6 DEF IInv

LEMMA DoneSynchingKeeps ==
    ASSUME IInv, NEW end \in ends, DoneSynching(end)
    PROVE  IInv'
<1>1. Values /\ PullValues /\ Listing /\ Dates
  BY DEF IInv
<1>2. /\ ends' = ends \ {end}
      /\ watermark' = (IF end.moves THEN end.last ELSE watermark)
      /\ UNCHANGED <<store, odoo, pull, jobs, failed, workers, counts, histories>>
  BY DEF DoneSynching
<1>3. \A p \in Products : /\ Version(p)' = Version(p) /\ (Settled(p)' <=> Settled(p))
                          /\ (Held(p)' <=> Held(p))
  BY <1>2 DEF Version, Settled, Held, workers, histories
<1>4. \A p \in Products : \A t : After(p, t) => After(p, t)'
  BY <1>3 DEF After
<1>5. watermark' \in Int /\ watermark' <= edits
  BY <1>1, <1>2 DEF Values
<1>6. Values'
  BY <1>1, <1>2, <1>5 DEF Values, Old, Version, workers, counts, histories
<1>7. PullValues'
  BY <1>1, <1>2 DEF PullValues, Old, Version, counts
<1>8. Listing'
  BY <1>1, <1>2, <1>3, <1>4 DEF Listing, After
<1>9. Dates'
  <2>1. \A p \in Products : After(p, watermark)'
    BY <1>1, <1>2, <1>4 DEF Dates, After
  <2>2. \A e \in ends' : e.moves => \A p \in Products : After(p, e.last)'
    BY <1>1, <1>2, <1>4 DEF Dates
  <2>3. pull' # None => \A p \in Products : After(p, pull.from)'
    BY <1>1, <1>2, <1>4 DEF Dates, After
  <2> QED
    BY <1>2, <2>1, <2>2, <2>3 DEF Dates
<1> QED
  BY <1>6, <1>7, <1>8, <1>9 DEF IInv

-----------------------------------------------------------------------------
(* The jobs of products.                                                   *)

LEMMA StartJobKeeps ==
    ASSUME IInv, NEW w \in Workers, NEW j \in jobs, StartJob(w, j)
    PROVE  IInv'
<1>1. Values /\ PullValues
  BY DEF IInv
<1>2. /\ runs[w] = None /\ jobs' = jobs \ {j}
      /\ runs' = [runs EXCEPT ![w] = j]
      /\ UNCHANGED <<store, odoo, watermark, pull, ends, failed, counts, histories>>
  BY DEF StartJob
<1>3. Old(j) /\ j \in JobRecords /\ j # None
  BY <1>1 DEF Values, Old
<1>4. /\ runs' \in [Workers -> JobRecords \cup {None}] /\ runs'[w] = j
      /\ \A u \in Workers \ {w} : runs'[u] = runs[u]
  BY <1>1, <1>2, <1>3 DEF Values
<1>5. Settles
  <2> SUFFICES ASSUME NEW p \in Products, Settled(p) PROVE Settled(p)'
    BY DEF Settles
  <2>1. Version(p)' = Version(p) /\ reached' = reached /\ failed' = failed /\ passed' = passed
    BY <1>2 DEF Version, histories
  <2>2. CASE \E k \in jobs : k.product = p /\ k.version = Version(p)
    <3>1. PICK k \in jobs : k.product = p /\ k.version = Version(p)
      BY <2>2
    <3>2. k = j \/ k \in jobs'
      BY <1>2
    <3> QED
      BY <1>3, <1>4, <2>1, <3>1, <3>2 DEF Settled
  <2>3. CASE \E u \in Workers : runs[u] # None /\ runs[u].product = p /\ runs[u].version = Version(p)
    <3>1. PICK u \in Workers : runs[u] # None /\ runs[u].product = p /\ runs[u].version = Version(p)
      BY <2>3
    <3>2. runs'[u] = runs[u]
      BY <1>2, <1>4, <3>1
    <3> QED
      BY <2>1, <3>1, <3>2 DEF Settled
  <2>4. CASE reached[p] = Version(p) \/ <<p, Version(p)>> \in failed \cup passed
    BY <2>1, <2>4 DEF Settled
  <2> QED
    BY <2>2, <2>3, <2>4 DEF Settled
<1>6. Dates' /\ Listing'
  BY <1>2, <1>5, DatesKept
<1>7. Values'
  <2>1. \A u \in Workers : runs'[u] # None => Old(runs[u])'
    BY <1>1, <1>2, <1>3, <1>4 DEF Values, Old, Version
  <2> QED
    BY <1>1, <1>2, <1>4, <2>1 DEF Values, Old, Version, counts, histories
<1>8. PullValues'
  BY <1>1, <1>2 DEF PullValues, Old, Version, counts
<1> QED
  BY <1>6, <1>7, <1>8 DEF IInv

(* However a run ends, its version is settled.                             *)
RunEnds(w) ==
    /\ runs[w] # None /\ runs' = [runs EXCEPT ![w] = None]
    /\ \/ jobs' = jobs \cup {runs[w]} /\ UNCHANGED <<failed, reached>>
       \/ failed' = failed \cup {<<runs[w].product, runs[w].version>>} /\ UNCHANGED <<jobs, reached>>
       \/ /\ reached' = [reached EXCEPT ![runs[w].product] = Max({@, runs[w].version})]
          /\ UNCHANGED <<jobs, failed>>
    /\ UNCHANGED <<store, watermark, pull, ends, edits, pulls, passed>>

LEMMA MaxOfTwo ==
    ASSUME NEW a \in Int, NEW b \in Int
    PROVE  Max({a, b}) = IF a >= b THEN a ELSE b
<1> DEFINE m == IF a >= b THEN a ELSE b
<1>1. m \in {a, b} /\ \A y \in {a, b} : m >= y
  OBVIOUS
<1>2. \A x \in {a, b} : (\A y \in {a, b} : x >= y) => x = m
  OBVIOUS
<1>3. (CHOOSE x \in {a, b} : \A y \in {a, b} : x >= y) \in {a, b}
      /\ \A y \in {a, b} : (CHOOSE x \in {a, b} : \A z \in {a, b} : x >= z) >= y
  BY <1>1
<1> QED
  BY <1>2, <1>3 DEF Max

LEMMA RunEndsKeeps ==
    ASSUME IInv, NEW w \in Workers, RunEnds(w)
    PROVE  IInv'
<1> DEFINE job == runs[w]
           c == job.product
<1>1. Values /\ PullValues
  BY DEF IInv
<1>2. /\ job # None /\ runs' = [runs EXCEPT ![w] = None]
      /\ UNCHANGED <<store, watermark, pull, ends, edits, pulls, passed>>
  BY DEF RunEnds
<1>3. \/ jobs' = jobs \cup {job} /\ UNCHANGED <<failed, reached>>
      \/ failed' = failed \cup {<<c, job.version>>} /\ UNCHANGED <<jobs, reached>>
      \/ reached' = [reached EXCEPT ![c] = Max({@, job.version})] /\ UNCHANGED <<jobs, failed>>
  BY DEF RunEnds
<1>4. Old(job) /\ c \in Products /\ job.version \in Nat /\ job.version <= Version(c)
  BY <1>1, <1>2 DEF Values, Old, JobRecords
<1>5. /\ runs' \in [Workers -> JobRecords \cup {None}] /\ runs'[w] = None
      /\ \A u \in Workers \ {w} : runs'[u] = runs[u]
  BY <1>1, <1>2 DEF Values
<1>6. \A p \in Products : Version(p)' = Version(p) /\ Version(p) \in Nat /\ reached[p] \in Int
  BY <1>1, <1>2 DEF Values, Version
<1> HIDE DEF c, job
<1>7. /\ reached' \in [Products -> Int]
      /\ \A p \in Products : reached'[p] <= Version(p) /\ (reached[p] = Version(p) => reached'[p] = Version(p))
      /\ jobs \subseteq jobs' /\ failed \subseteq failed'
      /\ (reached' # reached => reached'[c] >= job.version)
  <2>1. CASE UNCHANGED reached
    BY <1>1, <1>3, <2>1 DEF Values
  <2>2. CASE reached' = [reached EXCEPT ![c] = Max({@, job.version})] /\ UNCHANGED <<jobs, failed>>
    <3>1. Max({reached[c], job.version}) = IF reached[c] >= job.version THEN reached[c] ELSE job.version
      BY <1>4, <1>6, MaxOfTwo
    <3>2. reached[c] \in Int /\ reached[c] <= Version(c) /\ Version(c) \in Nat
      BY <1>1, <1>4, <1>6 DEF Values
    <3>3. /\ reached'[c] = (IF reached[c] >= job.version THEN reached[c] ELSE job.version)
          /\ \A p \in Products \ {c} : reached'[p] = reached[p]
          /\ reached' \in [Products -> Int]
      BY <1>1, <1>4, <2>2, <3>1, <3>2 DEF Values
    <3>4. reached'[c] <= Version(c) /\ reached'[c] >= job.version /\ (reached[c] = Version(c) => reached'[c] = Version(c))
      BY <1>4, <3>2, <3>3
    <3> QED
      BY <1>1, <2>2, <3>3, <3>4 DEF Values
  <2> QED
    BY <1>3, <2>1, <2>2
<1>8. ASSUME NEW p \in Products, p = c, Version(p) = job.version
      PROVE  Settled(p)'
  <2>1. CASE jobs' = jobs \cup {job}
    BY <1>6, <1>8, <2>1 DEF Settled, c
  <2>2. CASE failed' = failed \cup {<<c, job.version>>}
    BY <1>6, <1>8, <2>2 DEF Settled
  <2>3. CASE reached' = [reached EXCEPT ![c] = Max({@, job.version})]
    <3>1. Max({reached[c], job.version}) = IF reached[c] >= job.version THEN reached[c] ELSE job.version
      BY <1>4, <1>6, MaxOfTwo
    <3>2. reached[c] \in Int /\ reached[c] <= Version(c) /\ Version(c) \in Nat /\ reached \in [Products -> Int]
      BY <1>1, <1>4, <1>6 DEF Values
    <3>3. reached'[c] = Version(c)
      BY <1>4, <1>8, <2>3, <3>1, <3>2
    <3> QED
      BY <1>4, <1>6, <1>8, <3>3 DEF Settled
  <2> QED
    BY <1>3, <2>1, <2>2, <2>3
<1>9. Settles
  <2> SUFFICES ASSUME NEW p \in Products, Settled(p) PROVE Settled(p)'
    BY DEF Settles
  <2>1. Version(p)' = Version(p) /\ passed' = passed
    BY <1>2, <1>6
  <2>2. CASE \E u \in Workers : runs[u] # None /\ runs[u].product = p /\ runs[u].version = Version(p)
    <3>1. PICK u \in Workers : runs[u] # None /\ runs[u].product = p /\ runs[u].version = Version(p)
      BY <2>2
    <3>2. CASE u = w
      BY <1>8, <3>1, <3>2 DEF c, job
    <3>3. CASE u # w
      <4>1. runs'[u] = runs[u]
        BY <1>5, <3>3
      <4> QED
        BY <2>1, <3>1, <4>1 DEF Settled
    <3> QED
      BY <3>2, <3>3
  <2>3. CASE \E k \in jobs : k.product = p /\ k.version = Version(p)
    BY <1>7, <2>1, <2>3 DEF Settled
  <2>4. CASE reached[p] = Version(p) \/ <<p, Version(p)>> \in failed \cup passed
    BY <1>7, <2>1, <2>4 DEF Settled
  <2> QED
    BY <2>2, <2>3, <2>4 DEF Settled
<1>10. Dates' /\ Listing'
  BY <1>2, <1>9, DatesKept
<1>11. Values'
  <2>1. \A u \in Workers : runs'[u] # None => Old(runs[u])'
    BY <1>1, <1>2, <1>5 DEF Values, Old, Version
  <2>2. \A j \in jobs' : Old(j)'
    <3>1. \A j \in jobs' : j \in jobs \/ j = job
      BY <1>3
    <3>2. \A j \in jobs' : Old(j)
      BY <1>1, <1>4, <3>1 DEF Values
    <3> QED
      BY <1>2, <3>2 DEF Old, Version
  <2>3. \A p \in Products : Version(p)' <= edits' /\ reached'[p] <= Version(p)'
    BY <1>1, <1>2, <1>6, <1>7 DEF Values
  <2> QED
    BY <1>1, <1>2, <1>5, <1>7, <2>1, <2>2, <2>3 DEF Values
<1>12. PullValues'
  BY <1>1, <1>2 DEF PullValues, Old, Version
<1> QED
  BY <1>10, <1>11, <1>12 DEF IInv

LEMMA CommitEnds ==
    ASSUME NEW w \in Workers, CommitJob(w)
    PROVE  RunEnds(w)
<1>1. /\ runs[w] # None /\ Ends(w) /\ passed' = passed
  BY DEF CommitJob
<1>2. \/ jobs' = jobs \cup {runs[w]} /\ UNCHANGED <<failed, reached>>
      \/ failed' = failed \cup {<<runs[w].product, runs[w].version>>} /\ UNCHANGED <<jobs, reached>>
      \/ /\ reached' = [reached EXCEPT ![runs[w].product] = Max({@, runs[w].version})]
         /\ UNCHANGED <<jobs, failed>>
  BY Zenon DEF CommitJob
<1> QED
  BY <1>1, <1>2 DEF RunEnds, Ends

LEMMA LoseEnds ==
    ASSUME NEW w \in Workers, LoseJob(w)
    PROVE  RunEnds(w)
BY DEF LoseJob, RunEnds, Ends, histories

-----------------------------------------------------------------------------
(* The theorems.                                                           *)

LEMMA InitHolds == Init => IInv
<1> SUFFICES ASSUME Init PROVE IInv
  OBVIOUS
<1>1. \A p \in Products : store[p].version = 0 /\ store[p].offer \in Offered
  <2> SUFFICES ASSUME NEW p \in Products
               PROVE  store[p].version = 0 /\ store[p].offer \in Offered
    OBVIOUS
  <2>1. PICK q \in Products : store[p] \in [offer : Offers(q), version : {0}]
    BY DEF Init
  <2> QED
    BY <2>1 DEF Offered
<1>2. store \in [Products -> [offer : Offered, version : Nat]]
  <2>1. \A p \in Products : store[p] \in [offer : Offered, version : Nat]
    <3> SUFFICES ASSUME NEW p \in Products
                 PROVE  store[p] \in [offer : Offered, version : Nat]
      OBVIOUS
    <3>1. PICK q \in Products : store[p] \in [offer : Offers(q), version : {0}]
      BY DEF Init
    <3> QED
      BY <3>1 DEF Offered
  <2> QED
    BY <2>1 DEF Init
<1>3. Values
  BY <1>1, <1>2 DEF Init, Values, Version, Always
<1>4. PullValues /\ Listing
  BY DEF Init, PullValues, Listing
<1>5. Dates
  BY <1>1 DEF Init, Dates, After, Version, Always
<1> QED
  BY <1>3, <1>4, <1>5 DEF IInv

LEMMA StepKeeps == IInv /\ [Next]_vars => IInv'
<1> SUFFICES ASSUME IInv, [Next]_vars PROVE IInv'
  OBVIOUS
<1>1. CASE UNCHANGED vars
  BY <1>1, OthersKeep DEF vars, workers, counts
<1>2. CASE \E p \in Products : StaffEdits(p) \/ ImportAgain(p) \/ FetchProduct(p)
  <2> SUFFICES ASSUME NEW p \in Products, StaffEdits(p) \/ ImportAgain(p) \/ FetchProduct(p)
               PROVE  IInv'
    BY <1>2
  <2>1. CASE ImportAgain(p)
    <3>1. NewPull(Always, {p}, FALSE) /\ {p} \in SUBSET Products
      BY <2>1 DEF ImportAgain
    <3> QED
      BY <3>1, NewPullKeeps
  <2> QED
    BY <2>1, StaffEditsKeeps, FetchProductKeeps
<1>3. CASE \E sku \in StoreSkus : UserCreates(sku)
  BY <1>3, OthersKeep DEF UserCreates, workers
<1>4. CASE \E sku \in 1..MaxSku, v \in Known(master) : UserChangesSku(v, sku)
  BY <1>4, OthersKeep DEF UserChangesSku, workers
<1>5. CASE ImportSinceLast \/ ImportAll
  <2>1. NewPull(watermark, Products, TRUE) \/ NewPull(Always, Products, TRUE)
    BY <1>5 DEF ImportSinceLast, ImportAll
  <2>2. Products \in SUBSET Products
    OBVIOUS
  <2>3. CASE NewPull(watermark, Products, TRUE)
    BY <2>2, <2>3, NewPullKeeps
  <2>4. CASE NewPull(Always, Products, TRUE)
    BY <2>2, <2>4, NewPullKeeps
  <2> QED
    BY <2>1, <2>3, <2>4
<1>6. CASE QueueJob \/ EndPull \/ RefusePage \/ BreakPull
  BY <1>6, QueueJobKeeps, EndPullKeeps, RefusePageKeeps, BreakPullKeeps
<1>7. CASE \E end \in ends : DoneSynching(end)
  BY <1>7, DoneSynchingKeeps
<1>8. CASE \E w \in Workers : (\E j \in jobs : StartJob(w, j)) \/ CommitJob(w) \/ LoseJob(w)
  BY <1>8, StartJobKeeps, CommitEnds, LoseEnds, RunEndsKeeps
<1> QED
  BY <1>1, <1>2, <1>3, <1>4, <1>5, <1>6, <1>7, <1>8 DEF Next

(* The inductive invariant: values, and what every date that may become    *)
(* the watermark says of each product.                                     *)
THEOREM ProductImportInvariant == Spec => []IInv
<1>1. Init => IInv
  BY InitHolds
<1>2. IInv /\ [Next]_vars => IInv'
  BY StepKeeps
<1> QED
  BY <1>1, <1>2, PTL DEF Spec

(* No edit of the staff of the store falls between two imports, unless a   *)
(* listing that ran meanwhile, or whose page was refused, passed it over:  *)
(* whatever listings break, jobs overlap, fail or are lost, and whenever the        *)
(* watermark moves (_import_product, create_jobs_for_synching,             *)
(* done_synching): for any products, offers, workers and settings.         *)
THEOREM EditsAreFollowed == Spec => []EditsFollowed
<1>1. IInv => EditsFollowed
  BY DEF IInv, Dates, After, Settled, EditsFollowed, OnItsWay, Version
<1> QED
  BY <1>1, ProductImportInvariant, PTL
-----------------------------------------------------------------------------
(* The second part.  Least elements, and the fold over the variants of an  *)
(* offer.                                                                  *)

LEMMA SmallestPart ==
    ASSUME NEW A, IsFiniteSet(A), NEW T \in SUBSET SUBSET A, T # {}
    PROVE  \E S \in T : \A U \in T : U \subseteq S => U = S
<1>1. IsWellFoundedOn(StrictSubsetOrdering(A), FiniteSubsetsOf(A))
  BY FS_StrictSubsetOrderingWellFounded
<1>2. FiniteSubsetsOf(A) = SUBSET A
  BY FS_FiniteSubsetsOfFinite
<1>3. IsWellFoundedOn(StrictSubsetOrdering(A), SUBSET A)
  BY ONLY <1>1, <1>2, Zenon
<1>4. PICK S \in T : \A U \in T : <<U, S>> \notin StrictSubsetOrdering(A)
  BY <1>3, WFMin
<1>5. ASSUME NEW U \in T, U \subseteq S, U # S
      PROVE  <<U, S>> \in StrictSubsetOrdering(A)
  BY <1>5 DEF StrictSubsetOrdering
<1>6. \A U \in T : U \subseteq S => U = S
  BY <1>4, <1>5
<1> QED
  BY <1>6

LEMMA LeastExists ==
    ASSUME NEW S, IsFiniteSet(S), S # {}, NEW R,
           \A x, y \in S : <<x, y>> \in R \/ <<y, x>> \in R,
           \A x, y, z \in S : <<x, y>> \in R /\ <<y, z>> \in R => <<x, z>> \in R
    PROVE  \E x \in S : \A y \in S : <<x, y>> \in R
<1> DEFINE C == {T \in SUBSET S : T # {} /\ ~ \E x \in T : \A y \in T : <<x, y>> \in R}
<1> SUFFICES ASSUME C # {} PROVE FALSE
  OBVIOUS
<1>1. PICK T \in C : \A U \in C : U \subseteq T => U = T
  <2>1. C \in SUBSET SUBSET S
    OBVIOUS
  <2> HIDE DEF C
  <2> QED
    BY <2>1, SmallestPart
<1>2. T \in SUBSET S /\ T # {} /\ ~ \E x \in T : \A y \in T : <<x, y>> \in R
  OBVIOUS
<1>3. PICK x \in T : TRUE
  BY <1>2
<1>4. T \ {x} \notin C
  <2> HIDE DEF C
  <2>1. T \ {x} \subseteq T /\ T \ {x} # T
    BY <1>3
  <2> QED
    BY <1>1, <2>1
<1>5. CASE T \ {x} = {}
  BY <1>2, <1>3, <1>5
<1>6. CASE T \ {x} # {}
  <2>1. PICK y \in (T \ {x}) : \A z \in (T \ {x}) : <<y, z>> \in R
    BY <1>2, <1>4, <1>6
  <2>2. CASE <<x, y>> \in R
    <3>1. \A z \in T : <<x, z>> \in R
      BY <1>2, <1>3, <2>1, <2>2
    <3> QED
      BY <1>2, <1>3, <3>1
  <2>3. CASE <<y, x>> \in R
    BY <1>2, <1>3, <2>1, <2>3
  <2> QED
    BY <1>2, <1>3, <2>1, <2>2, <2>3
<1> QED
  BY <1>5, <1>6

LEMMA MaxIs ==
    ASSUME NEW S \in SUBSET Int, IsFiniteSet(S), S # {}
    PROVE  Max(S) \in S /\ \A y \in S : Max(S) >= y
<1> DEFINE R == {p \in S \X S : p[1] >= p[2]}
<1>1. \A x, y \in S : <<x, y>> \in R <=> x >= y
  OBVIOUS
<1> HIDE DEF R
<1>2. \A x, y \in S : <<x, y>> \in R \/ <<y, x>> \in R
  <2> SUFFICES ASSUME NEW x \in S, NEW y \in S PROVE <<x, y>> \in R \/ <<y, x>> \in R
    OBVIOUS
  <2>1. x \in Int /\ y \in Int
    OBVIOUS
  <2>2. x >= y \/ y >= x
    BY <2>1
  <2> QED
    BY <1>1, <2>2
<1>3. \A x, y, z \in S : <<x, y>> \in R /\ <<y, z>> \in R => <<x, z>> \in R
  BY <1>1
<1>4. \E x \in S : \A y \in S : <<x, y>> \in R
  BY <1>2, <1>3, LeastExists
<1>5. \E x \in S : \A y \in S : x >= y
  BY <1>1, <1>4
<1> QED
  BY <1>5 DEF Max

LEMMA MinIs ==
    ASSUME NEW S \in SUBSET Int, IsFiniteSet(S), S # {}
    PROVE  Min(S) \in S
<1> DEFINE R == {p \in S \X S : p[1] =< p[2]}
<1>1. \A x, y \in S : <<x, y>> \in R <=> x =< y
  OBVIOUS
<1> HIDE DEF R
<1>2. \A x, y \in S : <<x, y>> \in R \/ <<y, x>> \in R
  <2> SUFFICES ASSUME NEW x \in S, NEW y \in S PROVE <<x, y>> \in R \/ <<y, x>> \in R
    OBVIOUS
  <2>1. x \in Int /\ y \in Int
    OBVIOUS
  <2>2. x =< y \/ y =< x
    BY <2>1
  <2> QED
    BY <1>1, <2>2
<1>3. \A x, y, z \in S : <<x, y>> \in R /\ <<y, z>> \in R => <<x, z>> \in R
  BY <1>1
<1>4. \E x \in S : \A y \in S : <<x, y>> \in R
  BY <1>2, <1>3, LeastExists
<1>5. \E x \in S : \A y \in S : x =< y
  BY <1>1, <1>4
<1> QED
  BY <1>5 DEF Min

MasterTables == [Masters -> MasterRecords \cup {None}]

LEMMA MastersAre == Masters \subseteq Int /\ IsFiniteSet(Masters)
<1>1. IsFiniteSet(1..MaxMasters)
  BY ProductImportAssumption, FS_Interval
<1> QED
  BY <1>1 DEF Masters

LEMMA FirstIs ==
    ASSUME NEW ms \in MasterTables, NEW vs \in SUBSET Known(ms), vs # {}
    PROVE  FirstOf(ms, vs) \in vs
<1> DEFINE Before(v, u) == ms[v].sku < ms[u].sku \/ (ms[v].sku = ms[u].sku /\ v >= u)
           R == {p \in vs \X vs : Before(p[1], p[2])}
<1>1. IsFiniteSet(vs) /\ vs \subseteq Masters /\ vs \subseteq Int
  BY MastersAre, FS_Subset DEF Known
<1>2. \A v \in vs : ms[v].sku \in Int
  BY DEF Known, MasterTables, MasterRecords
<1>3. \A v, u \in vs : <<v, u>> \in R <=> Before(v, u)
  OBVIOUS
<1>4. \A v, u \in vs : Before(v, u) \/ Before(u, v)
  BY <1>1, <1>2
<1>5. \A v, u, x \in vs : Before(v, u) /\ Before(u, x) => Before(v, x)
  BY <1>1, <1>2
<1> HIDE DEF R, Before
<1>6. \A v, u \in vs : <<v, u>> \in R \/ <<u, v>> \in R
  BY <1>3, <1>4
<1>7. \A v, u, x \in vs : <<v, u>> \in R /\ <<u, x>> \in R => <<v, x>> \in R
  BY <1>3, <1>5
<1>8. \E v \in vs : \A u \in vs : <<v, u>> \in R
  BY <1>1, <1>6, <1>7, LeastExists
<1>9. \E v \in vs : \A u \in vs : Before(v, u)
  BY <1>3, <1>8
<1> QED
  BY <1>9 DEF FirstOf, Before

(* Processing the variants one after the other, by a function on the sets  *)
(* of variants that have been processed.                                   *)
Does(work, t, offer, auto, s) == Process(work, t, s, offer.variants[s], auto)

IsRun(g, start, t, offer, auto, D) ==
    g = [S \in SUBSET D |-> IF S = {} THEN start
                            ELSE Does(g[S \ {Max(S)}], t, offer, auto, Max(S))]

Runs(g, start, t, offer, auto, D) ==
    D \subseteq Int /\ IsFiniteSet(D) /\ IsRun(g, start, t, offer, auto, D)

LEMMA RunStep ==
    ASSUME NEW g, NEW start, NEW t, NEW offer, NEW auto, NEW D, Runs(g, start, t, offer, auto, D)
    PROVE  /\ g[{}] = start
           /\ \A S \in SUBSET D : S # {} =>
                 /\ Max(S) \in S
                 /\ g[S] = Does(g[S \ {Max(S)}], t, offer, auto, Max(S))
<1> USE DEF Runs
<1>1. \A S \in SUBSET D : S # {} => Max(S) \in S
  <2> SUFFICES ASSUME NEW S \in SUBSET D, S # {} PROVE Max(S) \in S
    OBVIOUS
  <2>1. S \in SUBSET Int /\ IsFiniteSet(S)
    BY FS_Subset
  <2> QED
    BY <2>1, MaxIs
<1>2. \A S \in SUBSET D :
         g[S] = IF S = {} THEN start ELSE Does(g[S \ {Max(S)}], t, offer, auto, Max(S))
  BY DEF IsRun
<1> QED
  BY <1>1, <1>2

LEMMA RunUnique ==
    ASSUME NEW start, NEW t, NEW offer, NEW auto,
           NEW g, NEW D, Runs(g, start, t, offer, auto, D),
           NEW h, NEW u, Runs(h, start, t, offer, auto, u), u \subseteq D
    PROVE  g[u] = h[u]
<1> DEFINE C == {s \in SUBSET u : g[s] # h[s]}
<1> SUFFICES ASSUME C # {} PROVE FALSE
  OBVIOUS
<1>0. IsFiniteSet(u)
  BY DEF Runs
<1>1. PICK s \in C : \A v \in C : v \subseteq s => v = s
  <2>1. C \in SUBSET SUBSET u
    OBVIOUS
  <2>2. C # {}
    OBVIOUS
  <2> HIDE DEF C
  <2> QED
    BY ONLY <1>0, <2>1, <2>2, SmallestPart
<1>2. s \in SUBSET D /\ s \in SUBSET u /\ g[s] # h[s]
  OBVIOUS
<1>3. s # {}
  BY <1>2, RunStep
<1>4. /\ Max(s) \in s
      /\ g[s] = Does(g[s \ {Max(s)}], t, offer, auto, Max(s))
      /\ h[s] = Does(h[s \ {Max(s)}], t, offer, auto, Max(s))
  BY <1>2, <1>3, RunStep
<1>5. s \ {Max(s)} \notin C
  <2> HIDE DEF C
  <2>1. s \ {Max(s)} \subseteq s /\ s \ {Max(s)} # s
    BY <1>4
  <2> QED
    BY <1>1, <2>1
<1>6. g[s \ {Max(s)}] = h[s \ {Max(s)}]
  BY <1>5
<1> QED
  BY <1>2, <1>4, <1>6

LEMMA RunExists ==
    ASSUME NEW start, NEW t, NEW offer, NEW auto, NEW D, D \subseteq Int, IsFiniteSet(D)
    PROVE  \E g : IsRun(g, start, t, offer, auto, D)
<1> DEFINE C == {s \in SUBSET D : ~ \E g : IsRun(g, start, t, offer, auto, s)}
<1> SUFFICES ASSUME C # {} PROVE FALSE
  OBVIOUS
<1>1. PICK s \in C : \A v \in C : v \subseteq s => v = s
  <2>1. C \in SUBSET SUBSET D
    OBVIOUS
  <2>2. C # {}
    OBVIOUS
  <2>3. IsFiniteSet(D)
    OBVIOUS
  <2> HIDE DEF C
  <2> QED
    BY ONLY <2>1, <2>2, <2>3, SmallestPart
<1>2. s \in SUBSET D /\ s \subseteq Int /\ IsFiniteSet(s)
  BY FS_Subset
<1> DEFINE G(v) == CHOOSE g : IsRun(g, start, t, offer, auto, v)
<1>3. \A v \in SUBSET s : v # s => IsRun(G(v), start, t, offer, auto, v)
  <2> TAKE v \in SUBSET s
  <2> HAVE v # s
  <2>1. \E g : IsRun(g, start, t, offer, auto, v)
    BY <1>1
  <2> QED
    BY <2>1
<1> HIDE DEF G
<1> DEFINE below == [v \in SUBSET s |-> G(v)[v]]
           g == [v \in SUBSET s |->
                    IF v = {} THEN start ELSE Does(below[v \ {Max(v)}], t, offer, auto, Max(v))]
<1>4. \A v \in SUBSET s : v # {} => Max(v) \in v
  <2> SUFFICES ASSUME NEW v \in SUBSET s, v # {} PROVE Max(v) \in v
    OBVIOUS
  <2>1. v \in SUBSET Int /\ IsFiniteSet(v)
    BY <1>2, FS_Subset
  <2> QED
    BY <2>1, MaxIs
<1>5. \A v \in SUBSET s : v # s => below[v] = g[v]
  <2> TAKE v \in SUBSET s
  <2> HAVE v # s
  <2>0. v \subseteq Int /\ IsFiniteSet(v)
    BY <1>2, FS_Subset
  <2>1. Runs(G(v), start, t, offer, auto, v)
    BY <1>3, <2>0 DEF Runs
  <2>2. CASE v = {}
    <3>1. G(v)[v] = start
      BY <2>0, <2>1, <2>2, RunStep
    <3> QED
      BY <2>2, <3>1
  <2>3. CASE v # {}
    <3> DEFINE u == v \ {Max(v)}
    <3>1. Max(v) \in v /\ G(v)[v] = Does(G(v)[u], t, offer, auto, Max(v))
      BY <2>0, <2>1, <2>3, RunStep
    <3>2. u \in SUBSET s /\ u # s /\ u \subseteq v /\ u \subseteq Int /\ IsFiniteSet(u)
      <4>1. u \subseteq v /\ Max(v) \notin u /\ Max(v) \in s
        BY <3>1
      <4>2. IsFiniteSet(u)
        BY <2>0, <4>1, FS_Subset
      <4> HIDE DEF u
      <4> QED
        BY <2>0, <4>1, <4>2
    <3>3. Runs(G(u), start, t, offer, auto, u)
      BY <1>3, <3>2 DEF Runs
    <3>4. G(v)[u] = G(u)[u]
      <4> HIDE DEF u
      <4> QED
        BY <2>1, <3>2, <3>3, RunUnique
    <3>5. below[u] = G(u)[u]
      BY <3>2
    <3> QED
      BY <2>3, <3>1, <3>4, <3>5
  <2> QED
    BY <2>2, <2>3
<1>6. \A v \in SUBSET s : v # {} => below[v \ {Max(v)}] = g[v \ {Max(v)}]
  <2> TAKE v \in SUBSET s
  <2> HAVE v # {}
  <2>1. v \ {Max(v)} \in SUBSET s /\ v \ {Max(v)} # s
    BY <1>4
  <2> HIDE DEF g, below
  <2> QED
    BY <1>5, <2>1
<1>7. IsRun(g, start, t, offer, auto, s)
  <2>1. g = [v \in SUBSET s |-> IF v = {} THEN start ELSE Does(g[v \ {Max(v)}], t, offer, auto, Max(v))]
    <3>1. \A v \in SUBSET s :
            (IF v = {} THEN start ELSE Does(below[v \ {Max(v)}], t, offer, auto, Max(v)))
            = (IF v = {} THEN start ELSE Does(g[v \ {Max(v)}], t, offer, auto, Max(v)))
      <4> HIDE DEF g, below
      <4> QED
        BY <1>6
    <3> QED
      BY <3>1
  <2> QED
    BY <2>1 DEF IsRun
<1> QED
  BY <1>7

(* The work of a job that goes on.                                         *)
Worked(start, t, offer, auto) ==
    MapThenFoldSet(LAMBDA s, work : Process(work, t, s, offer.variants[s], auto),
                   start, LAMBDA s : s, Max, DOMAIN offer.variants)

LEMMA WorkedIs ==
    ASSUME NEW start, NEW t, NEW offer, WellFormed(offer), NEW auto
    PROVE  \E g : /\ Runs(g, start, t, offer, auto, DOMAIN offer.variants)
                  /\ Worked(start, t, offer, auto) = g[DOMAIN offer.variants]
<1> DEFINE D == DOMAIN offer.variants
<1>1. D \subseteq Int /\ IsFiniteSet(D)
  BY DEF WellFormed
<1>2. PICK h : IsRun(h, start, t, offer, auto, D)
  BY <1>1, RunExists
<1> DEFINE g == CHOOSE it : it = [S \in SUBSET D |->
                    IF S = {} THEN start
                    ELSE Process(it[S \ {Max(S)}], t, Max(S), offer.variants[Max(S)], auto)]
<1>3. Runs(g, start, t, offer, auto, D)
  BY <1>1, <1>2 DEF Runs, IsRun, Does
<1>4. Worked(start, t, offer, auto) = g[D]
  BY DEF Worked, MapThenFoldSet
<1> QED
  BY <1>3, <1>4

-----------------------------------------------------------------------------
(* What a job makes of the data of a product.                              *)

LinkRecords == [sku : Int, as : Int, product : Masters, crossed : BOOLEAN]

LinkFine(ms, link) ==
    /\ link \in LinkRecords
    /\ link.crossed \/ (ms[link.product] # None /\ ms[link.product].sku = link.as)

LinksFine(ms, links) ==
    /\ links = [s \in DOMAIN links |-> links[s]]
    /\ \A s \in DOMAIN links : LinkFine(ms, links[s])

WorkRecord(work) ==
    work = [ms |-> work.ms, free |-> work.free, links |-> work.links, told |-> work.told,
            ok |-> work.ok, gone |-> work.gone, tmpl |-> work.tmpl]

(* The work changes the masters that were free only, and its links lead to *)
(* masters with their SKUs.                                                *)
WorkFine(work, ms, free, t) ==
    /\ WorkRecord(work)
    /\ work.ms \in MasterTables
    /\ work.free = free /\ work.tmpl = t
    /\ \A v \in Masters : work.ms[v] = ms[v] \/ v \in free
    /\ LinksFine(work.ms, work.links)

Left(work) == {v \in work.free : work.ms[v] = None}

LEMMA SameMastersFine ==
    ASSUME NEW work, NEW ms, NEW free, NEW t, WorkFine(work, ms, free, t),
           NEW new, WorkRecord(new), new.ms = work.ms, new.free = work.free, new.tmpl = work.tmpl,
           LinksFine(work.ms, new.links)
    PROVE  WorkFine(new, ms, free, t) /\ Left(new) = Left(work)
BY DEF WorkFine, Left

LEMMA FailsFine ==
    ASSUME NEW work, NEW ms, NEW free, NEW t, WorkFine(work, ms, free, t)
    PROVE  WorkFine(Fails(work), ms, free, t) /\ Left(Fails(work)) = Left(work)
<1> DEFINE new == Fails(work)
           no == FALSE
<1>1. WorkRecord(work) /\ LinksFine(work.ms, work.links)
  BY DEF WorkFine
<1>2. new = [ms |-> work.ms, free |-> work.free, links |-> work.links, told |-> work.told,
             ok |-> no, gone |-> work.gone, tmpl |-> work.tmpl]
  <2>1. new = [work EXCEPT !.ok = no]
    BY DEF Fails
  <2> HIDE DEF no, new
  <2> QED
    BY <1>1, <2>1 DEF WorkRecord
<1> HIDE DEF no
<1>3. /\ WorkRecord(new) /\ new.ms = work.ms /\ new.free = work.free /\ new.tmpl = work.tmpl
      /\ new.links = work.links
  BY <1>2 DEF WorkRecord
<1> HIDE DEF new
<1>4. WorkFine(new, ms, free, t) /\ Left(new) = Left(work)
  BY <1>1, <1>3, SameMastersFine
<1> QED
  BY <1>4 DEF new

LEMMA ToldFine ==
    ASSUME NEW work, NEW ms, NEW free, NEW t, WorkFine(work, ms, free, t), NEW s
    PROVE  WorkFine(Told(work, s), ms, free, t) /\ Left(Told(work, s)) = Left(work)
<1> DEFINE new == Told(work, s)
<1>1. WorkRecord(work) /\ LinksFine(work.ms, work.links)
  BY DEF WorkFine
<1>2. new = [ms |-> work.ms, free |-> work.free, links |-> work.links, told |-> work.told \cup {s},
             ok |-> work.ok, gone |-> work.gone, tmpl |-> work.tmpl]
  BY <1>1 DEF Told, WorkRecord
<1>3. /\ WorkRecord(new) /\ new.ms = work.ms /\ new.free = work.free /\ new.tmpl = work.tmpl
      /\ new.links = work.links
  BY <1>2 DEF WorkRecord
<1> HIDE DEF new
<1>4. WorkFine(new, ms, free, t) /\ Left(new) = Left(work)
  BY <1>1, <1>3, SameMastersFine
<1> QED
  BY <1>4 DEF new

LEMMA UnlinkedFine ==
    ASSUME NEW work, NEW ms, NEW free, NEW t, WorkFine(work, ms, free, t), NEW s
    PROVE  WorkFine(Unlinked(work, s), ms, free, t) /\ Left(Unlinked(work, s)) = Left(work)
<1> DEFINE new == Unlinked(work, s)
           left == Restrict(work.links, DOMAIN work.links \ {s})
           empty == s \in DOMAIN work.links /\ DOMAIN left = {}
<1>1. WorkRecord(work) /\ LinksFine(work.ms, work.links)
  BY DEF WorkFine
<1>2. LinksFine(work.ms, left)
  BY <1>1 DEF LinksFine, Restrict
<1> HIDE DEF left
<1>3. new = [work EXCEPT !.links = left, !.gone = empty]
  BY DEF Unlinked, left
<1> HIDE DEF empty
<1>4. new = [ms |-> work.ms, free |-> work.free, links |-> left, told |-> work.told,
             ok |-> work.ok, gone |-> empty, tmpl |-> work.tmpl]
  BY <1>1, <1>3 DEF WorkRecord
<1>5. /\ WorkRecord(new) /\ new.ms = work.ms /\ new.free = work.free /\ new.tmpl = work.tmpl
      /\ new.links = left
  BY <1>4 DEF WorkRecord
<1> HIDE DEF new
<1>6. WorkFine(new, ms, free, t) /\ Left(new) = Left(work)
  BY <1>2, <1>5, SameMastersFine
<1> QED
  BY <1>6 DEF new

LEMMA LinkedFine ==
    ASSUME NEW work, NEW ms, NEW free, NEW t, WorkFine(work, ms, free, t), NEW s,
           NEW variant, variant.sku \in Int,
           NEW v \in Masters, work.ms[v] # None, work.ms[v].sku = variant.sku
    PROVE  WorkFine(Linked(work, s, variant, v), ms, free, t) /\ Left(Linked(work, s, variant, v)) = Left(work)
<1> DEFINE new == Linked(work, s, variant, v)
           link == [sku |-> variant.sku, as |-> variant.sku, product |-> v, crossed |-> FALSE]
           links == [x \in DOMAIN work.links \cup {s} |-> IF x = s THEN link ELSE work.links[x]]
<1>1. WorkRecord(work) /\ LinksFine(work.ms, work.links)
  BY DEF WorkFine
<1>2. LinkFine(work.ms, link)
  BY DEF LinkFine, LinkRecords
<1> HIDE DEF link
<1>3. LinksFine(work.ms, links)
  BY <1>1, <1>2 DEF LinksFine
<1>4. new = [work EXCEPT !.links = links]
  BY <1>1 DEF Linked, link, WorkRecord
<1> HIDE DEF links
<1>5. new = [ms |-> work.ms, free |-> work.free, links |-> links, told |-> work.told,
             ok |-> work.ok, gone |-> work.gone, tmpl |-> work.tmpl]
  BY <1>1, <1>4 DEF WorkRecord
<1>6. /\ WorkRecord(new) /\ new.ms = work.ms /\ new.free = work.free /\ new.tmpl = work.tmpl
      /\ new.links = links
  BY <1>5 DEF WorkRecord
<1> HIDE DEF new
<1>7. WorkFine(new, ms, free, t) /\ Left(new) = Left(work)
  BY <1>3, <1>6, SameMastersFine
<1> QED
  BY <1>7 DEF new

(* A master is made.                                                       *)
WithMaster(work, v, made) == [work EXCEPT !.ms[v] = made]

LEMMA WithMasterIs ==
    ASSUME NEW work, WorkRecord(work), NEW v, NEW made
    PROVE  WithMaster(work, v, made)
             = [ms |-> [work.ms EXCEPT ![v] = made], free |-> work.free, links |-> work.links,
                told |-> work.told, ok |-> work.ok, gone |-> work.gone, tmpl |-> work.tmpl]
BY DEF WorkRecord, WithMaster

LEMMA MadeFine ==
    ASSUME NEW work, NEW ms, NEW free, NEW t, WorkFine(work, ms, free, t), free \subseteq Masters,
           NEW v \in Left(work), NEW made \in MasterRecords
    PROVE  /\ WorkFine(WithMaster(work, v, made), ms, free, t)
           /\ Left(WithMaster(work, v, made)) = Left(work) \ {v}
           /\ WithMaster(work, v, made).ms[v] = made
<1> DEFINE new == WithMaster(work, v, made)
<1>1. WorkRecord(work) /\ LinksFine(work.ms, work.links) /\ work.ms \in MasterTables /\ work.free = free
  BY DEF WorkFine
<1>2. v \in free /\ work.ms[v] = None /\ v \in Masters
  BY <1>1 DEF Left
<1> DEFINE table == [work.ms EXCEPT ![v] = made]
<1>3. new = [ms |-> table, free |-> work.free, links |-> work.links, told |-> work.told,
             ok |-> work.ok, gone |-> work.gone, tmpl |-> work.tmpl]
  BY <1>1 DEF WorkRecord, WithMaster
<1>4. /\ table \in MasterTables /\ table[v] = made
      /\ \A u \in Masters \ {v} : table[u] = work.ms[u]
  BY <1>1, <1>2 DEF MasterTables
<1> HIDE DEF table, new
<1>5. /\ WorkRecord(new) /\ new.ms = table /\ new.free = work.free /\ new.tmpl = work.tmpl
      /\ new.links = work.links
  BY ONLY <1>3 DEF WorkRecord
<1>6. LinksFine(table, work.links)
  <2> SUFFICES ASSUME NEW s \in DOMAIN work.links PROVE LinkFine(table, work.links[s])
    BY <1>1 DEF LinksFine
  <2>1. LinkFine(work.ms, work.links[s])
    BY <1>1 DEF LinksFine
  <2> QED
    BY <1>2, <1>4, <2>1 DEF LinkFine, LinkRecords
<1>7. made # None
  BY ProductImportAssumption
<1>8. Left(new) = Left(work) \ {v}
  BY <1>1, <1>2, <1>4, <1>5, <1>7 DEF Left
<1>9. \A u \in Masters : table[u] = ms[u] \/ u \in free
  BY <1>2, <1>4 DEF WorkFine
<1>10. WorkFine(new, ms, free, t) /\ new.ms[v] = made
  BY <1>1, <1>4, <1>5, <1>6, <1>9 DEF WorkFine
<1> QED
  BY <1>8, <1>10 DEF new

(* One variant takes one free master at most.                              *)
Turns(new, work, ms, free, t) ==
    WorkFine(new, ms, free, t) /\ \E v : Left(work) \ {v} \subseteq Left(new)

LEMMA TurnsSame ==
    ASSUME NEW work, NEW ms, NEW free, NEW t, NEW new,
           WorkFine(new, ms, free, t), Left(new) = Left(work)
    PROVE  Turns(new, work, ms, free, t)
BY DEF Turns

LEMMA CreateFine ==
    ASSUME NEW work, NEW ms, NEW free \in SUBSET Masters, NEW t \in Nat, WorkFine(work, ms, free, t),
           NEW s, NEW variant, variant.sku \in Int, variant.opts \in Options, variant.opts # Plain,
           NEW auto \in BOOLEAN, Left(work) # {}
    PROVE  Turns(Create(work, t, s, variant, auto), work, ms, free, t)
<1> DEFINE same == {v \in Of(work.ms, t) : work.ms[v].opts = variant.opts}
           new == {v \in work.free : work.ms[v] = None}
<1>1. work.ms \in MasterTables /\ work.free = free /\ new = Left(work)
  BY DEF WorkFine, Left
<1>2. same \subseteq Masters /\ \A v \in same : work.ms[v] # None
  BY DEF Of, Known
<1>3. CASE \E v \in same : work.ms[v].sku # variant.sku
  <2>1. Create(work, t, s, variant, auto) = Unlinked(Told(work, s), s)
    BY <1>3 DEF Create
  <2>2. WorkFine(Told(work, s), ms, free, t) /\ Left(Told(work, s)) = Left(work)
    BY ToldFine
  <2>3. WorkFine(Unlinked(Told(work, s), s), ms, free, t) /\ Left(Unlinked(Told(work, s), s)) = Left(work)
    BY <2>2, UnlinkedFine
  <2> QED
    BY <2>1, <2>3, TurnsSame
<1>4. CASE ~(\E v \in same : work.ms[v].sku # variant.sku) /\ ~auto /\ same = {}
  <2>1. Create(work, t, s, variant, auto) = Told(work, s)
    BY <1>4 DEF Create
  <2> QED
    BY <2>1, ToldFine, TurnsSame
<1>5. CASE ~(\E v \in same : work.ms[v].sku # variant.sku) /\ ~auto /\ same # {}
  <2>1. Create(work, t, s, variant, auto) = Linked(work, s, variant, Min(same))
    BY <1>5 DEF Create
  <2>2. Min(same) \in same
    <3>1. same \subseteq Int /\ IsFiniteSet(same) /\ same # {}
      BY <1>2, <1>5, MastersAre, FS_Subset
    <3> HIDE DEF same
    <3> QED
      BY <3>1, MinIs
  <2>3. Min(same) \in Masters /\ work.ms[Min(same)] # None /\ work.ms[Min(same)].sku = variant.sku
    <3> HIDE DEF same
    <3> QED
      BY <1>2, <1>5, <2>2
  <2> HIDE DEF same
  <2>4. WorkFine(Linked(work, s, variant, Min(same)), ms, free, t)
        /\ Left(Linked(work, s, variant, Min(same))) = Left(work)
    BY <2>3, LinkedFine
  <2> QED
    BY <2>1, <2>4, TurnsSame
<1>6. CASE /\ ~(\E v \in same : work.ms[v].sku # variant.sku) /\ auto
           /\ same # {} \/ Taken(work.ms, variant.sku)
  <2>1. Create(work, t, s, variant, auto) = Fails(work)
    BY <1>6 DEF Create
  <2> QED
    BY <2>1, FailsFine, TurnsSame
<1>7. CASE /\ ~(\E v \in same : work.ms[v].sku # variant.sku) /\ auto
           /\ ~(same # {} \/ Taken(work.ms, variant.sku))
  <2> DEFINE made == [tmpl |-> t, sku |-> variant.sku, opts |-> variant.opts]
             next == [work EXCEPT !.ms[Min(new)] = made]
  <2>1. Create(work, t, s, variant, auto) = Linked(next, s, variant, Min(new))
    BY <1>7 DEF Create
  <2>2. Min(new) \in Left(work) /\ Min(new) \in Masters
    <3>1. new \subseteq Int /\ IsFiniteSet(new) /\ new # {} /\ new \subseteq Masters
      BY <1>1, MastersAre, FS_Subset
    <3>2. Min(new) \in new
      <4> HIDE DEF new
      <4> QED
        BY <3>1, MinIs
    <3> HIDE DEF new
    <3> QED
      BY <1>1, <3>1, <3>2
  <2>3. made \in MasterRecords /\ made.sku = variant.sku
    BY DEF MasterRecords
  <2>4. made # None
    BY <2>3, ProductImportAssumption
  <2>5. PICK k : k = Min(new)
    OBVIOUS
  <2>6. next = WithMaster(work, k, made)
    BY <2>5 DEF WithMaster
  <2> HIDE DEF next, made, new
  <2>7. k \in Left(work) /\ k \in Masters /\ free \subseteq Masters
    BY <2>2, <2>5
  <2>8. /\ WorkFine(next, ms, free, t) /\ Left(next) = Left(work) \ {k}
        /\ next.ms[k] = made
    BY <2>3, <2>6, <2>7, MadeFine
  <2>9. next.ms[k] # None /\ next.ms[k].sku = variant.sku
    BY <2>3, <2>4, <2>8
  <2>10. /\ WorkFine(Linked(next, s, variant, k), ms, free, t)
         /\ Left(Linked(next, s, variant, k)) = Left(next)
    BY <2>7, <2>8, <2>9, LinkedFine
  <2> QED
    BY <2>1, <2>5, <2>8, <2>10 DEF Turns
<1> QED
  BY <1>3, <1>4, <1>5, <1>6, <1>7

LEMMA ProcessFine ==
    ASSUME NEW work, NEW ms, NEW free \in SUBSET Masters, NEW t \in Nat, WorkFine(work, ms, free, t),
           NEW s, NEW variant, variant.sku \in Int, variant.opts \in Options, variant.opts # Plain,
           NEW auto \in BOOLEAN, Left(work) # {}
    PROVE  Turns(Process(work, t, s, variant, auto), work, ms, free, t)
<1> DEFINE found == Found(work.ms, t, variant)
           done == Process(work, t, s, variant, auto)
<1>1. \/ done = work
      \/ done = Fails(work)
      \/ done = Unlinked(Told(work, s), s)
      \/ done = Create(work, t, s, variant, auto)
      \/ found # {} /\ done = Linked(work, s, variant, FirstOf(work.ms, found))
  BY DEF Process
<1>2. CASE done = work
  BY <1>2, TurnsSame
<1>3. CASE done = Fails(work)
  BY <1>3, FailsFine, TurnsSame
<1>4. CASE done = Unlinked(Told(work, s), s)
  <2>1. WorkFine(Told(work, s), ms, free, t) /\ Left(Told(work, s)) = Left(work)
    BY ToldFine
  <2>2. WorkFine(Unlinked(Told(work, s), s), ms, free, t) /\ Left(Unlinked(Told(work, s), s)) = Left(work)
    BY <2>1, UnlinkedFine
  <2> QED
    BY <1>4, <2>2, TurnsSame
<1>5. CASE done = Create(work, t, s, variant, auto)
  BY <1>5, CreateFine
<1>6. CASE found # {} /\ done = Linked(work, s, variant, FirstOf(work.ms, found))
  <2>1. work.ms \in MasterTables
    BY DEF WorkFine
  <2>2. found \in SUBSET Known(work.ms) /\ \A v \in found : work.ms[v].sku = variant.sku
    BY DEF Found, Of
  <2>3. PICK k : k = FirstOf(work.ms, found)
    OBVIOUS
  <2>4. k \in found
    BY <1>6, <2>1, <2>2, <2>3, FirstIs
  <2>5. k \in Masters /\ work.ms[k] # None /\ work.ms[k].sku = variant.sku
    BY <2>2, <2>4 DEF Known
  <2>6. /\ WorkFine(Linked(work, s, variant, k), ms, free, t)
        /\ Left(Linked(work, s, variant, k)) = Left(work)
    BY <2>5, LinkedFine
  <2> QED
    BY <1>6, <2>3, <2>6, TurnsSame
<1> QED
  BY <1>1, <1>2, <1>3, <1>4, <1>5, <1>6

LEMMA TakesOne ==
    ASSUME NEW T, IsFiniteSet(T), NEW U, IsFiniteSet(U), NEW v, T \ {v} \subseteq U
    PROVE  /\ Cardinality(T) \in Nat /\ Cardinality(U) \in Nat
           /\ Cardinality(U) >= Cardinality(T) - 1
<1>1. Cardinality(T) \in Nat /\ Cardinality(U) \in Nat
  BY FS_CardinalityType
<1>2. Cardinality(T \ {v}) <= Cardinality(U)
  BY FS_Subset
<1>3. Cardinality(T \ {v}) = IF v \in T THEN Cardinality(T) - 1 ELSE Cardinality(T)
  BY FS_RemoveElement
<1> QED
  BY <1>1, <1>2, <1>3

LEMMA WorkedFine ==
    ASSUME NEW ms, NEW free \in SUBSET Masters, NEW t \in Nat,
           NEW start, WorkFine(start, ms, free, t),
           NEW offer \in Offered, NEW auto \in BOOLEAN,
           \A s \in DOMAIN offer.variants : offer.variants[s].opts # Plain,
           Cardinality(Left(start)) >= Cardinality(DOMAIN offer.variants)
    PROVE  WorkFine(Worked(start, t, offer, auto), ms, free, t)
<1> DEFINE D == DOMAIN offer.variants
<1>0. WellFormed(offer)
  BY ProductImportAssumption
<1>1. PICK g : Runs(g, start, t, offer, auto, D) /\ Worked(start, t, offer, auto) = g[D]
  BY <1>0, WorkedIs
<1>2. IsFiniteSet(D) /\ Cardinality(D) \in Nat
  BY <1>0, FS_CardinalityType DEF WellFormed
<1>3. \A s \in D : /\ offer.variants[s].sku \in Int /\ offer.variants[s].opts \in Options
                   /\ offer.variants[s].opts # Plain
  BY <1>0 DEF WellFormed, Options
<1>4. \A work : WorkFine(work, ms, free, t) => IsFiniteSet(Left(work))
  BY MastersAre, FS_Subset DEF WorkFine, Left
<1>5. Cardinality(Left(start)) \in Nat
  BY <1>4, FS_CardinalityType
<1> DEFINE Good(S) == /\ WorkFine(g[S], ms, free, t)
                      /\ Cardinality(Left(g[S])) + Cardinality(S) >= Cardinality(Left(start))
           C == {S \in SUBSET D : ~Good(S)}
<1>6. ASSUME NEW S \in SUBSET D, S # {}, Good(S \ {Max(S)})
      PROVE  Good(S)
  <2>1. Max(S) \in S /\ g[S] = Does(g[S \ {Max(S)}], t, offer, auto, Max(S))
    BY <1>1, <1>6, RunStep
  <2>2. PICK s : s = Max(S)
    OBVIOUS
  <2> DEFINE before == g[S \ {s}]
             after == g[S]
  <2>3. /\ s \in S /\ s \in D /\ WorkFine(before, ms, free, t)
        /\ Cardinality(Left(before)) + Cardinality(S \ {s}) >= Cardinality(Left(start))
        /\ after = Process(before, t, s, offer.variants[s], auto)
    BY <1>6, <2>1, <2>2 DEF Does
  <2> HIDE DEF before, after
  <2>4. IsFiniteSet(S) /\ Cardinality(S) \in Nat /\ Cardinality(S) <= Cardinality(D)
    BY <1>2, FS_Subset, FS_CardinalityType
  <2>5. Cardinality(S \ {s}) = Cardinality(S) - 1
    BY <2>3, <2>4, FS_RemoveElement
  <2>6. IsFiniteSet(Left(before)) /\ Cardinality(Left(before)) \in Nat
    BY <1>4, <2>3, FS_CardinalityType
  <2>7. Cardinality(Left(before)) # 0
    BY <1>2, <1>5, <2>3, <2>4, <2>5, <2>6
  <2>8. Left(before) # {}
    BY <2>7, FS_EmptySet
  <2>9. Turns(after, before, ms, free, t)
    BY <1>3, <2>3, <2>8, ProcessFine
  <2>10. WorkFine(after, ms, free, t) /\ IsFiniteSet(Left(after))
    BY <1>4, <2>9 DEF Turns
  <2>11. PICK v : Left(before) \ {v} \subseteq Left(after)
    BY <2>9 DEF Turns
  <2>12. Cardinality(Left(after)) \in Nat /\ Cardinality(Left(after)) >= Cardinality(Left(before)) - 1
    BY <2>6, <2>10, <2>11, TakesOne
  <2>13. Cardinality(Left(after)) + Cardinality(S) >= Cardinality(Left(start))
    BY <1>5, <2>3, <2>4, <2>5, <2>6, <2>12
  <2> QED
    BY <2>10, <2>13 DEF after
<1>7. Good({})
  <2>1. g[{}] = start
    BY <1>1, RunStep
  <2>2. Cardinality({}) = 0
    BY FS_EmptySet
  <2> QED
    BY <1>5, <2>1, <2>2
<1>8. C = {}
  <2> SUFFICES ASSUME C # {} PROVE FALSE
    OBVIOUS
  <2>1. PICK S \in C : \A U \in C : U \subseteq S => U = S
    <3>1. C \in SUBSET SUBSET D
      OBVIOUS
    <3> HIDE DEF C
    <3> QED
      BY <1>2, <3>1, SmallestPart
  <2>2. S \in SUBSET D /\ ~Good(S)
    OBVIOUS
  <2> HIDE DEF Good
  <2>3. S # {}
    BY <1>7, <2>2
  <2>4. Max(S) \in S
    BY <1>1, <2>2, <2>3, RunStep
  <2>5. S \ {Max(S)} \notin C
    <3> HIDE DEF C
    <3>1. S \ {Max(S)} \subseteq S /\ S \ {Max(S)} # S
      BY <2>4
    <3> QED
      BY <2>1, <3>1
  <2>6. Good(S \ {Max(S)})
    BY <2>2, <2>5
  <2> QED
    BY <1>6, <2>2, <2>3, <2>6
<1>9. Good(D)
  <2> HIDE DEF Good
  <2> QED
    BY <1>8
<1> QED
  BY <1>1, <1>9

(* A mapping, or none, whose links lead to masters ms.                     *)
MapFine(ms, m) ==
    m # None =>
        /\ m = [tmpl |-> m.tmpl, says |-> m.says, variants |-> m.variants]
        /\ m.tmpl \in Nat
        /\ LinksFine(ms, m.variants)

(* A product without options, for which masters were found.                *)
LEMMA PlainFoundFine ==
    ASSUME NEW work, NEW ms, NEW free \in SUBSET Masters, NEW t \in Nat, WorkFine(work, ms, free, t),
           NEW s, NEW variant, variant.sku \in Int, NEW auto \in BOOLEAN,
           Found(work.ms, t, variant) # {}
    PROVE  WorkFine(Process(work, t, s, variant, auto), ms, free, t)
<1> DEFINE found == Found(work.ms, t, variant)
           done == Process(work, t, s, variant, auto)
<1>1. done = work \/ done = Fails(work) \/ done = Linked(work, s, variant, FirstOf(work.ms, found))
  BY DEF Process
<1>2. CASE done = work \/ done = Fails(work)
  BY <1>2, FailsFine
<1>3. CASE done = Linked(work, s, variant, FirstOf(work.ms, found))
  <2>1. work.ms \in MasterTables
    BY DEF WorkFine
  <2>2. found \in SUBSET Known(work.ms) /\ \A v \in found : work.ms[v].sku = variant.sku
    BY DEF Found, Of
  <2>3. PICK k : k = FirstOf(work.ms, found)
    OBVIOUS
  <2>4. k \in found
    BY <2>1, <2>2, <2>3, FirstIs
  <2>5. k \in Masters /\ work.ms[k] # None /\ work.ms[k].sku = variant.sku
    BY <2>2, <2>4 DEF Known
  <2>6. WorkFine(Linked(work, s, variant, k), ms, free, t)
    BY <2>5, LinkedFine
  <2> QED
    BY <1>3, <2>3, <2>6
<1> QED
  BY <1>1, <1>2, <1>3

(* One for which a template is made, whose only master is v.               *)
LEMMA PlainMadeFine ==
    ASSUME NEW base, NEW ms, NEW free, free \subseteq Masters, NEW t \in Nat, WorkFine(base, ms, free, t),
           NEW v \in Left(base), \A u \in Known(base.ms) : base.ms[u].tmpl # t,
           NEW sku \in Int, NEW s, NEW variant, variant.sku \in Int, variant.opts = Plain,
           NEW work, work = WithMaster(base, v, [tmpl |-> t, sku |-> sku, opts |-> Plain])
    PROVE  WorkFine(Process(work, t, s, variant, TRUE), ms, free, t)
<1> DEFINE rec(k) == [tmpl |-> t, sku |-> k, opts |-> Plain]
           again == WithMaster(base, v, rec(variant.sku))
           done == Process(work, t, s, variant, TRUE)
<1>1. rec(sku) \in MasterRecords /\ rec(variant.sku) \in MasterRecords
  BY DEF MasterRecords, Options
<1>2. WorkFine(work, ms, free, t) /\ work.ms[v] = rec(sku)
  <2>1. WorkFine(WithMaster(base, v, rec(sku)), ms, free, t) /\ WithMaster(base, v, rec(sku)).ms[v] = rec(sku)
    <3> HIDE DEF rec
    <3> QED
      BY <1>1, MadeFine
  <2> QED
    BY <2>1
<1>3. WorkFine(again, ms, free, t) /\ again.ms[v] = rec(variant.sku)
  <2> HIDE DEF rec
  <2> QED
    BY <1>1, MadeFine
<1>4. /\ WorkRecord(base) /\ base.ms \in MasterTables /\ v \in Masters /\ base.ms[v] = None
      /\ v \in Int /\ base.free = free
  BY MastersAre DEF WorkFine, Left
<1>5. rec(sku) # None /\ rec(variant.sku) # None
  BY <1>1, ProductImportAssumption
<1>6. \A u \in Masters \ {v} : work.ms[u] = base.ms[u]
  BY <1>4 DEF WithMaster, WorkRecord, MasterTables
<1>7. Of(work.ms, t) = {v}
  <2>1. \A u \in Masters \ {v} : u \in Known(work.ms) => work.ms[u].tmpl # t
    BY <1>6 DEF Known
  <2>2. v \in Known(work.ms) /\ work.ms[v].tmpl = t
    BY <1>2, <1>4, <1>5 DEF Known
  <2> QED
    BY <2>1, <2>2 DEF Of, Known
<1>8. Min({v}) = v
  <2>1. {v} \in SUBSET Int /\ IsFiniteSet({v}) /\ {v} # {}
    BY <1>4, FS_Singleton
  <2>2. Min({v}) \in {v}
    BY ONLY <2>1, MinIs
  <2> QED
    BY <2>2
<1>9. CASE Found(work.ms, t, variant) # {}
  <2> HIDE DEF rec
  <2> QED
    BY <1>2, <1>9, PlainFoundFine
<1>10. CASE Found(work.ms, t, variant) = {}
  <2>1. done = work \/ done = Fails(work) \/ done = Create(work, t, s, variant, TRUE)
    BY <1>10 DEF Process
  <2>2. Create(work, t, s, variant, TRUE) = Linked([work EXCEPT !.ms[v].sku = variant.sku], s, variant, v)
    BY <1>7, <1>8 DEF Create
  <2>3. [work EXCEPT !.ms[v].sku = variant.sku] = again
    <3>1. PICK table : table = work.ms
      OBVIOUS
    <3>2. table = [base.ms EXCEPT ![v] = rec(sku)]
      BY <1>4, <3>1 DEF WithMaster, WorkRecord
    <3>3. work = [ms |-> table, free |-> base.free, links |-> base.links, told |-> base.told,
                  ok |-> base.ok, gone |-> base.gone, tmpl |-> base.tmpl]
      BY <1>4, <3>2 DEF WithMaster, WorkRecord
    <3>4. again = [ms |-> [base.ms EXCEPT ![v] = rec(variant.sku)], free |-> base.free, links |-> base.links,
                   told |-> base.told, ok |-> base.ok, gone |-> base.gone, tmpl |-> base.tmpl]
      BY <1>4 DEF WithMaster, WorkRecord
    <3>5. [table EXCEPT ![v].sku = variant.sku] = [base.ms EXCEPT ![v] = rec(variant.sku)]
      <4>1. table[v] = rec(sku) /\ [table[v] EXCEPT !.sku = variant.sku] = rec(variant.sku)
        BY <1>2, <3>1
      <4>2. [table EXCEPT ![v].sku = variant.sku] = [table EXCEPT ![v] = rec(variant.sku)]
        BY <4>1
      <4>3. DOMAIN table = Masters /\ DOMAIN base.ms = Masters
        BY <1>4, <3>2 DEF MasterTables
      <4> HIDE DEF rec
      <4> QED
        BY <1>4, <3>2, <4>2, <4>3 DEF MasterTables
    <3> DEFINE other == [base.ms EXCEPT ![v] = rec(variant.sku)]
    <3>6. [work EXCEPT !.ms[v].sku = variant.sku]
            = [ms |-> [table EXCEPT ![v].sku = variant.sku], free |-> base.free, links |-> base.links,
               told |-> base.told, ok |-> base.ok, gone |-> base.gone, tmpl |-> base.tmpl]
      BY <3>3
    <3> QED
      BY <3>4, <3>5, <3>6
  <2>4. again.ms[v] # None /\ again.ms[v].sku = variant.sku
    BY <1>3, <1>5
  <2> HIDE DEF again, rec
  <2>5. WorkFine(Linked(again, s, variant, v), ms, free, t)
    BY <1>3, <1>4, <2>4, LinkedFine
  <2>6. CASE done = work \/ done = Fails(work)
    BY <1>2, <2>6, FailsFine
  <2>7. CASE done = Create(work, t, s, variant, TRUE)
    BY <2>2, <2>3, <2>5, <2>7
  <2> QED
    BY <2>1, <2>6, <2>7
<1> QED
  BY <1>9, <1>10

(* A product with one variant is worked on in one step.                    *)
LEMMA WorkedOnce ==
    ASSUME NEW start, NEW t, NEW offer, WellFormed(offer), NEW auto, NEW s, DOMAIN offer.variants = {s}
    PROVE  Worked(start, t, offer, auto) = Process(start, t, s, offer.variants[s], auto)
<1>1. PICK g : Runs(g, start, t, offer, auto, {s}) /\ Worked(start, t, offer, auto) = g[{s}]
  BY WorkedIs
<1>2. Max({s}) \in {s} /\ g[{s}] = Does(g[{s} \ {Max({s})}], t, offer, auto, Max({s}))
  BY <1>1, RunStep
<1>3. Max({s}) = s /\ {s} \ {s} = {}
  BY <1>2
<1>4. g[{}] = start
  BY <1>1, RunStep
<1> QED
  BY <1>1, <1>2, <1>3, <1>4 DEF Does

LEMMA ImportFine ==
    ASSUME NEW ms \in MasterTables, NEW m, MapFine(ms, m), NEW offer \in Offered, NEW auto \in BOOLEAN,
           NEW free, free \subseteq Masters, \A v \in free : ms[v] = None,
           NEW fresh \in Nat, \A v \in Known(ms) : ms[v].tmpl # fresh,
           Cardinality(free) >= Cardinality(DOMAIN offer.variants),
           NEW work, work = Import(ms, m, offer, auto, free, fresh), work.ok
    PROVE  work.tmpl \in Nat /\ WorkFine(work, ms, free, work.tmpl)
<1> DEFINE D == DOMAIN offer.variants
           found  == Matching(ms, offer)
           plain  == \E s \in D : offer.variants[s].opts = Plain
           t      == IF found # {} THEN ms[FirstOf(ms, found)].tmpl ELSE fresh
           rec    == [tmpl |-> t, sku |-> offer.sku, opts |-> Plain]
           made   == IF found = {} /\ plain THEN [ms EXCEPT ![Min(free)] = rec] ELSE ms
           old    == IF m = None THEN <<>> ELSE m.variants
           named  == IF Cardinality(DOMAIN old) = 1 THEN [s \in DOMAIN old |-> [old[s] EXCEPT !.sku = offer.sku]]
                                                    ELSE old
           kept   == Restrict(named, DOMAIN old \cap D)
           last   == DOMAIN old # {} /\ DOMAIN kept = {}
           With(table) == [ms |-> table, free |-> free, links |-> kept, told |-> {}, ok |-> TRUE,
                           gone |-> last, tmpl |-> t]
           base   == With(ms)
           start  == With(made)
<1>1. work = IF found = {} /\ ~auto THEN Fails(start) ELSE Worked(start, t, offer, auto)
  BY DEF Import, Worked
<1>2. ~(found = {} /\ ~auto)
  <2>1. ASSUME found = {} /\ ~auto PROVE FALSE
    <3>1. work = [start EXCEPT !.ok = FALSE]
      BY <1>1, <2>1 DEF Fails
    <3>2. work.ok = FALSE
      <4> HIDE DEF made, kept, last, t
      <4> QED
        BY <3>1
    <3> QED
      BY <3>2
  <2> QED
    BY <2>1
<1>3. work = Worked(start, t, offer, auto)
  BY <1>1, <1>2
<1>4. WellFormed(offer) /\ offer.sku \in Int
  BY ProductImportAssumption DEF WellFormed
<1>5. found \in SUBSET Known(ms) /\ \A v \in found : ms[v].sku # NoSku /\ ms[v].sku \in SkusOf(offer)
  BY DEF Matching
<1>6. t \in Nat
  <2>1. CASE found = {}
    BY <2>1
  <2>2. CASE found # {}
    <3>1. FirstOf(ms, found) \in found
      BY <1>5, <2>2, FirstIs
    <3>2. ms[FirstOf(ms, found)] \in MasterRecords
      BY <1>5, <3>1 DEF Known, MasterTables
    <3> QED
      BY <2>2, <3>2 DEF MasterRecords
  <2> QED
    BY <2>1, <2>2
<1>7. LinksFine(ms, kept)
  <2>1. LinksFine(ms, old)
    BY DEF MapFine, LinksFine
  <2> HIDE DEF old
  <2>2. LinksFine(ms, named) /\ DOMAIN named = DOMAIN old
    <3>1. CASE Cardinality(DOMAIN old) # 1
      BY <2>1, <3>1
    <3>2. CASE Cardinality(DOMAIN old) = 1
      <4> DEFINE renamed == [s \in DOMAIN old |-> [old[s] EXCEPT !.sku = offer.sku]]
      <4>1. \A s \in DOMAIN old : LinkFine(ms, [old[s] EXCEPT !.sku = offer.sku])
        BY <1>4, <2>1 DEF LinksFine, LinkFine, LinkRecords
      <4>2. LinksFine(ms, renamed)
        BY <4>1 DEF LinksFine
      <4> QED
        BY <3>2, <4>2
    <3> QED
      BY <3>1, <3>2
  <2> HIDE DEF named
  <2> QED
    BY <2>2 DEF LinksFine, Restrict
<1> HIDE DEF kept, last
<1>8. WorkFine(base, ms, free, t) /\ Left(base) = free
  <2> HIDE DEF t
  <2> QED
    BY <1>7 DEF WorkFine, WorkRecord, Left
<1>9. CASE ~plain
  <2>1. start = base
    BY <1>9
  <2>2. Cardinality(Left(base)) >= Cardinality(D) /\ \A s \in D : offer.variants[s].opts # Plain
    BY <1>8, <1>9
  <2>3. free \in SUBSET Masters
    OBVIOUS
  <2> HIDE DEF base, start, t, plain
  <2>4. WorkFine(Worked(base, t, offer, auto), ms, free, t)
    BY <1>6, <1>8, <2>2, <2>3, WorkedFine
  <2>5. WorkFine(work, ms, free, t)
    BY <1>3, <2>1, <2>4
  <2> QED
    BY <1>6, <2>5 DEF WorkFine
<1>10. CASE plain
  <2>1. PICK s \in D : offer.variants[s].opts = Plain
    BY <1>10
  <2> DEFINE variant == offer.variants[s]
  <2>2. D = {s} /\ variant.sku \in Int /\ variant.opts = Plain
    BY <1>4, <2>1 DEF WellFormed
  <2>3. work = Process(start, t, s, variant, auto)
    <3> HIDE DEF start, t
    <3> QED
      BY <1>3, <1>4, <2>2, WorkedOnce
  <2>4. CASE found # {}
    <3>1. start = base
      BY <2>4
    <3>2. PICK v : v = FirstOf(ms, found)
      OBVIOUS
    <3>3. v \in found
      BY <1>5, <2>4, <3>2, FirstIs
    <3>4. v \in Known(ms) /\ ms[v].sku # NoSku /\ ms[v].sku = variant.sku
      BY <1>5, <2>2, <3>3 DEF SkusOf
    <3>5. ms[v].tmpl = t
      BY <2>4, <3>2
    <3>6. base.ms = ms
      OBVIOUS
    <3> HIDE DEF t, base, start
    <3>7. Found(base.ms, t, variant) # {}
      BY <3>4, <3>5, <3>6 DEF Found, Of
    <3>8. WorkFine(Process(base, t, s, variant, auto), ms, free, t)
      BY <1>6, <1>8, <2>2, <3>7, PlainFoundFine
    <3>9. WorkFine(work, ms, free, t)
      BY <2>3, <3>1, <3>8
    <3> QED
      BY <1>6, <3>9 DEF WorkFine
  <2>5. CASE found = {}
    <3>1. t = fresh /\ auto = TRUE
      BY <1>2, <2>5
    <3>2. PICK v : v = Min(free)
      OBVIOUS
    <3>3. v \in free
      <4>1. free \in SUBSET Int /\ IsFiniteSet(free)
        BY MastersAre, FS_Subset
      <4>2. Cardinality({s}) = 1 /\ Cardinality(free) \in Nat /\ Cardinality(free) >= 1
        BY <2>2, <4>1, FS_Singleton, FS_CardinalityType
      <4>3. free # {}
        BY <4>2, FS_EmptySet
      <4> QED
        BY <3>2, <4>1, <4>3, MinIs
    <3>4. start = WithMaster(base, v, rec)
      <4>1. made = [ms EXCEPT ![v] = rec]
        BY <1>10, <2>5, <3>2
      <4>2. WithMaster(base, v, rec) = With([ms EXCEPT ![v] = rec])
        <5>1. PICK yes : yes = TRUE
          OBVIOUS
        <5>2. base = [ms |-> ms, free |-> free, links |-> kept, told |-> {}, ok |-> yes,
                      gone |-> last, tmpl |-> t]
          BY <5>1
        <5>3. With([ms EXCEPT ![v] = rec])
                = [ms |-> [ms EXCEPT ![v] = rec], free |-> free, links |-> kept, told |-> {}, ok |-> yes,
                   gone |-> last, tmpl |-> t]
          BY <5>1
        <5>4. WorkRecord(base)
          BY <1>8 DEF WorkFine
        <5> HIDE DEF base, t, rec, With
        <5>5. /\ base.ms = ms /\ base.free = free /\ base.links = kept /\ base.told = {} /\ base.ok = yes
              /\ base.gone = last /\ base.tmpl = t
          BY ONLY <5>2
        <5>6. WithMaster(base, v, rec)
                = [ms |-> [base.ms EXCEPT ![v] = rec], free |-> base.free, links |-> base.links,
                   told |-> base.told, ok |-> base.ok, gone |-> base.gone, tmpl |-> base.tmpl]
          BY ONLY <5>4, WithMasterIs
        <5> QED
          BY <5>3, <5>5, <5>6
      <4>3. start = With([ms EXCEPT ![v] = rec])
        BY <4>1
      <4> QED
        BY <4>2, <4>3
    <3>5. base.ms = ms
      OBVIOUS
    <3>6. \A u \in Known(base.ms) : base.ms[u].tmpl # t
      BY <3>1, <3>5
    <3> HIDE DEF base, start, t
    <3>7. start = WithMaster(base, v, [tmpl |-> t, sku |-> offer.sku, opts |-> Plain])
      BY <3>4
    <3>8. WorkFine(Process(start, t, s, variant, TRUE), ms, free, t)
      <4>1. v \in Left(base) /\ free \subseteq Masters
        BY <1>8, <3>3
      <4> HIDE DEF variant, rec
      <4> QED
        BY <1>4, <1>6, <1>8, <2>2, <3>6, <3>7, <4>1, PlainMadeFine
    <3>9. WorkFine(work, ms, free, t)
      BY <2>3, <3>1, <3>8
    <3> QED
      BY <1>6, <3>9 DEF WorkFine
  <2> QED
    BY <2>4, <2>5
<1> QED
  BY <1>9, <1>10

-----------------------------------------------------------------------------
(* The links of the mappings.                                              *)

(* What a transaction sees: masters that are still there, with mappings    *)
(* that were right then.                                                   *)
Snapshot(w) ==
    /\ views[w].ms \in MasterTables
    /\ MapFine(views[w].ms, views[w].m)
    /\ \A v \in Masters : views[w].ms[v] # None => master[v] # None /\ master[v].tmpl = views[w].ms[v].tmpl

LinkInv ==
    /\ master \in MasterTables
    /\ mapping = [p \in Products |-> mapping[p]]
    /\ views = [w \in Workers |-> views[w]]
    /\ \A p \in Products : MapFine(master, mapping[p])
    /\ \A w \in Workers : runs[w] # None => Snapshot(w)

LEMMA ImageFinite ==
    ASSUME NEW S, IsFiniteSet(S), NEW f
    PROVE  IsFiniteSet({f[x] : x \in S})
<1> DEFINE T == {f[x] : x \in S}
           g == [x \in S |-> f[x]]
<1>1. g \in Surjection(S, T)
  BY DEF Surjection
<1> HIDE DEF g, T
<1>2. IsFiniteSet(T)
  BY <1>1, FS_Surjection
<1> QED
  BY <1>2 DEF T

LEMMA FreshIs ==
    ASSUME LinkInv
    PROVE  FreshTemplate \in Nat /\ \A v \in Known(master) : master[v].tmpl # FreshTemplate
<1> DEFINE mapped == {p \in Products : mapping[p] # None}
           ofMasters == {master[v].tmpl : v \in Known(master)}
           ofMappings == {mapping[p].tmpl : p \in mapped}
           used == {0} \cup ofMasters \cup ofMappings
<1>1. ofMasters \subseteq Nat
  BY DEF LinkInv, MasterTables, MasterRecords, Known
<1>2. ofMappings \subseteq Nat
  BY DEF LinkInv, MapFine
<1>3. IsFiniteSet(ofMasters)
  <2> DEFINE f == [v \in Known(master) |-> master[v].tmpl]
  <2>1. IsFiniteSet(Known(master))
    BY MastersAre, FS_Subset DEF Known
  <2>2. IsFiniteSet({f[v] : v \in Known(master)})
    <3> HIDE DEF f
    <3> QED
      BY <2>1, ImageFinite
  <2>3. {f[v] : v \in Known(master)} = ofMasters
    OBVIOUS
  <2> HIDE DEF f, ofMasters
  <2> QED
    BY <2>2, <2>3
<1>4. IsFiniteSet(ofMappings)
  <2> DEFINE f == [p \in mapped |-> mapping[p].tmpl]
  <2>1. IsFiniteSet(mapped)
    BY ProductImportAssumption, FS_Subset
  <2>2. IsFiniteSet({f[p] : p \in mapped})
    <3> HIDE DEF f, mapped
    <3> QED
      BY <2>1, ImageFinite
  <2>3. {f[p] : p \in mapped} = ofMappings
    OBVIOUS
  <2> HIDE DEF f, mapped, ofMappings
  <2> QED
    BY <2>2, <2>3
<1>5. FreshTemplate = 1 + Max(used)
  BY DEF FreshTemplate
<1>6. \A v \in Known(master) : master[v].tmpl \in ofMasters
  OBVIOUS
<1> HIDE DEF ofMasters, ofMappings
<1>7. used \in SUBSET Int /\ used \subseteq Nat /\ used # {} /\ IsFiniteSet(used)
  <2>1. IsFiniteSet({0} \cup ofMasters)
    BY <1>3, FS_Singleton, FS_Union
  <2>2. IsFiniteSet(({0} \cup ofMasters) \cup ofMappings)
    BY <1>4, <2>1, FS_Union
  <2> QED
    BY <1>1, <1>2, <2>2
<1>8. ofMasters \subseteq used
  OBVIOUS
<1> HIDE DEF used
<1>9. Max(used) \in used /\ \A y \in used : Max(used) >= y
  BY <1>7, MaxIs
<1>10. Max(used) \in Nat
  BY <1>7, <1>9
<1>11. \A y \in used : y \in Nat /\ y # 1 + Max(used)
  BY <1>7, <1>9, <1>10
<1> QED
  BY <1>5, <1>6, <1>8, <1>10, <1>11

(* Masters are made, and those that there are stay as they are.            *)
LEMMA GrowFine ==
    ASSUME NEW ms, NEW table, \A v \in Masters : ms[v] # None => table[v] = ms[v]
    PROVE  /\ \A link : LinkFine(ms, link) => LinkFine(table, link)
           /\ \A m : MapFine(ms, m) => MapFine(table, m)
<1>1. \A link : LinkFine(ms, link) => LinkFine(table, link)
  BY DEF LinkFine, LinkRecords
<1> QED
  BY <1>1 DEF MapFine, LinksFine

LEMMA LinksUnchanged ==
    ASSUME LinkInv, UNCHANGED <<odoo, views>>,
           \A w \in Workers : runs'[w] # None => runs[w] # None
    PROVE  LinkInv'
BY DEF LinkInv, Snapshot, odoo

LEMMA UserCreatesLinks ==
    ASSUME LinkInv, NEW sku \in StoreSkus, UserCreates(sku)
    PROVE  LinkInv'
<1> DEFINE rec == [tmpl |-> FreshTemplate, sku |-> sku, opts |-> Plain]
           free == Masters \ Known(master)
<1>1. PICK v : v = Min(free)
  OBVIOUS
<1>2. /\ master' = [master EXCEPT ![v] = rec] /\ UNCHANGED <<mapping, runs, views>>
      /\ \E u \in Masters : master[u] = None
  BY <1>1 DEF UserCreates, workers
<1>3. v \in Masters /\ master[v] = None
  <2>1. free \in SUBSET Int /\ IsFiniteSet(free) /\ free # {}
    BY <1>2, MastersAre, FS_Subset DEF Known
  <2>2. v \in free
    BY <1>1, <2>1, MinIs
  <2> QED
    BY <2>2 DEF Known
<1>4. rec \in MasterRecords
  <2>1. sku \in Int
    <3>1. PICK offer \in Offered : sku \in SkusOf(offer)
      BY DEF StoreSkus
    <3>2. WellFormed(offer)
      BY ProductImportAssumption
    <3> QED
      BY <3>1, <3>2 DEF SkusOf, WellFormed
  <2>2. FreshTemplate \in Nat
    BY FreshIs
  <2> QED
    BY <2>1, <2>2 DEF MasterRecords, Options
<1> HIDE DEF rec, free
<1>5. master' \in MasterTables /\ \A u \in Masters : master[u] # None => master'[u] = master[u]
  BY <1>2, <1>3, <1>4 DEF LinkInv, MasterTables
<1>6. \A p \in Products : MapFine(master', mapping[p])
  BY <1>5, GrowFine DEF LinkInv
<1>7. \A w \in Workers : runs[w] # None => Snapshot(w)'
  BY <1>2, <1>5 DEF LinkInv, Snapshot
<1> QED
  BY <1>2, <1>5, <1>6, <1>7 DEF LinkInv

LEMMA UserChangesSkuLinks ==
    ASSUME LinkInv, NEW v \in Known(master), NEW sku \in 1..MaxSku, UserChangesSku(v, sku)
    PROVE  LinkInv'
<1>1. /\ master' = [master EXCEPT ![v].sku = sku] /\ UNCHANGED <<runs, views>>
      /\ mapping' = [p \in Products |-> IF mapping[p] = None THEN None ELSE LinksWithout(mapping[p], v)]
  BY DEF UserChangesSku, workers
<1>2. v \in Masters /\ master[v] \in MasterRecords /\ sku \in Int /\ master \in MasterTables
  BY ProductImportAssumption DEF LinkInv, Known, MasterTables
<1>3. /\ [master[v] EXCEPT !.sku = sku] \in MasterRecords
      /\ [master[v] EXCEPT !.sku = sku].tmpl = master[v].tmpl
  BY <1>2 DEF MasterRecords
<1>4. /\ master' \in MasterTables
      /\ \A u \in Masters \ {v} : master'[u] = master[u]
      /\ master'[v] \in MasterRecords /\ master'[v].tmpl = master[v].tmpl
  BY <1>1, <1>2, <1>3 DEF MasterTables
<1>5. master'[v] # None
  BY <1>4, ProductImportAssumption
<1>6. \A p \in Products : MapFine(master', mapping'[p])
  <2> SUFFICES ASSUME NEW p \in Products, mapping'[p] # None PROVE MapFine(master', mapping'[p])
    BY DEF MapFine
  <2> DEFINE m == mapping[p]
             left == {s \in DOMAIN m.variants : m.variants[s].product # v}
             links == Restrict(m.variants, left)
  <2>1. m # None /\ mapping'[p] = [m EXCEPT !.variants = links]
    BY <1>1 DEF LinksWithout
  <2>2. m = [tmpl |-> m.tmpl, says |-> m.says, variants |-> m.variants] /\ m.tmpl \in Nat
        /\ LinksFine(master, m.variants)
    BY <2>1 DEF LinkInv, MapFine
  <2>3. LinksFine(master', links)
    <3>1. \A s \in left : LinkFine(master', m.variants[s])
      BY <1>4, <2>2 DEF LinksFine, LinkFine, LinkRecords
    <3> HIDE DEF left
    <3>2. DOMAIN links = left /\ \A s \in left : links[s] = m.variants[s]
      BY DEF Restrict
    <3>3. links = [s \in DOMAIN links |-> links[s]]
      BY DEF Restrict
    <3> QED
      BY <3>1, <3>2, <3>3 DEF LinksFine
  <2> HIDE DEF m, links
  <2>4. mapping'[p] = [tmpl |-> m.tmpl, says |-> m.says, variants |-> links]
    BY <2>1, <2>2
  <2> QED
    BY <2>2, <2>3, <2>4 DEF MapFine
<1>7. \A w \in Workers : runs[w] # None => Snapshot(w)'
  BY <1>1, <1>4, <1>5 DEF LinkInv, Snapshot
<1> QED
  BY <1>1, <1>4, <1>6, <1>7 DEF LinkInv

LEMMA StartJobLinks ==
    ASSUME LinkInv, IInv, NEW w \in Workers, NEW j \in jobs, StartJob(w, j)
    PROVE  LinkInv'
<1>1. /\ views' = [views EXCEPT ![w] = [ms |-> master, m |-> mapping[j.product]]]
      /\ runs' = [runs EXCEPT ![w] = j] /\ UNCHANGED <<master, mapping>>
  BY DEF StartJob, odoo
<1>2. j.product \in Products /\ runs \in [Workers -> JobRecords \cup {None}]
  BY DEF IInv, Values, Old, JobRecords
<1>3. /\ views'[w].ms = master /\ views'[w].m = mapping[j.product]
      /\ \A u \in Workers \ {w} : views'[u] = views[u] /\ runs'[u] = runs[u]
      /\ views' = [u \in Workers |-> views'[u]]
  BY <1>1, <1>2 DEF LinkInv
<1>4. Snapshot(w)'
  BY <1>1, <1>2, <1>3 DEF LinkInv, Snapshot
<1>5. \A u \in Workers \ {w} : runs'[u] # None => Snapshot(u)'
  BY <1>1, <1>3 DEF LinkInv, Snapshot
<1> QED
  BY <1>1, <1>3, <1>4, <1>5 DEF LinkInv

(* The commit of a job that did its work.                                  *)
LEMMA WorkIs ==
    ASSUME LinkInv, IInv, NEW w \in Workers, runs[w] # None,
           Cardinality(Free) >= Cardinality(DOMAIN runs[w].offer.variants),
           NEW work, work = WorkOf(RunOf(w)), work.ok
    PROVE  work.tmpl \in Nat /\ WorkFine(work, views[w].ms, Free, work.tmpl)
<1> DEFINE ms == views[w].ms
           m == views[w].m
           job == runs[w]
<1>1. job \in JobRecords
  BY DEF IInv, Values
<1>2. job.offer \in Offered /\ job.auto \in BOOLEAN
  BY <1>1 DEF JobRecords
<1>3. Snapshot(w) /\ master \in MasterTables
  BY DEF LinkInv
<1>4. ms \in MasterTables /\ MapFine(ms, m) /\ Free \subseteq Masters
  BY <1>3 DEF Snapshot, Free
<1>5. \A v \in Free : ms[v] = None
  BY <1>3 DEF Snapshot, Free, Known
<1>6. FreshTemplate \in Nat /\ \A v \in Known(ms) : ms[v].tmpl # FreshTemplate
  BY <1>3, FreshIs DEF Snapshot, Known
<1>7. work = Import(ms, m, job.offer, job.auto, Free, FreshTemplate)
  BY DEF WorkOf, RunOf
<1>8. Cardinality(Free) >= Cardinality(DOMAIN job.offer.variants)
  OBVIOUS
<1> HIDE DEF ms, m, job
<1>9. work.tmpl \in Nat /\ WorkFine(work, ms, Free, work.tmpl)
  BY <1>2, <1>4, <1>5, <1>6, <1>7, <1>8, ImportFine
<1> QED
  BY <1>9 DEF ms

LEMMA DoneLinks ==
    ASSUME LinkInv, IInv, NEW w \in Workers, runs[w] # None,
           NEW work, work.tmpl \in Nat, WorkFine(work, views[w].ms, Free, work.tmpl), Ends(w),
           master' = [v \in Masters |-> IF views[w].ms[v] = None /\ work.ms[v] # None
                                       THEN work.ms[v] ELSE master[v]],
           NEW x, mapping' = [mapping EXCEPT ![runs[w].product] = x],
           x # None => x = [tmpl |-> work.tmpl, says |-> runs[w].version,
                            variants |-> NewLinks(RunOf(w), work)]
    PROVE  LinkInv'
<1> DEFINE ms == views[w].ms
           p == runs[w].product
           run == RunOf(w)
<1>1. /\ runs' = [runs EXCEPT ![w] = None] /\ views' = [views EXCEPT ![w] = None]
  BY DEF Ends
<1>2. runs \in [Workers -> JobRecords \cup {None}] /\ p \in Products
  BY DEF IInv, Values, Old, JobRecords
<1>3. /\ Snapshot(w) /\ master \in MasterTables /\ ms \in MasterTables
      /\ work.ms \in MasterTables /\ LinksFine(work.ms, work.links)
      /\ \A v \in Masters : work.ms[v] = ms[v] \/ v \in Free
  BY DEF LinkInv, WorkFine, Snapshot
<1>4. master' \in MasterTables
  BY <1>3 DEF MasterTables
<1>5. \A v \in Masters : master[v] # None => master'[v] = master[v]
  BY <1>3 DEF Free, Known
<1>6. \A v \in Masters : ms[v] # None => master[v] # None
  BY <1>3 DEF Snapshot
<1>7. \A v \in Masters : ms[v] = None /\ work.ms[v] # None => master'[v] = work.ms[v]
  OBVIOUS
<1>8. MapFine(master, mapping[p])
  BY <1>2 DEF LinkInv
<1>9. LinksFine(master', NewLinks(run, work))
  <2> DEFINE links == NewLinks(run, work)
             kept == {s \in OldLinks(run) : ~Touches(run, work, s) /\ LinkOf(mapping[p], s) # None}
             own  == {s \in DOMAIN work.links : Touches(run, work, s)}
             live == mapping[p]
  <2>1. run.job.product = p /\ run.ms = ms
    BY DEF RunOf
  <2>2. links = [s \in kept \cup own |-> IF s \in kept THEN live.variants[s] ELSE Crossed(run, work.links[s])]
    BY <2>1 DEF NewLinks
  <2>3. ASSUME NEW s \in kept PROVE LinkFine(master', live.variants[s])
    <3>1. live # None /\ s \in DOMAIN live.variants
      BY DEF LinkOf
    <3>2. LinkFine(master, live.variants[s])
      BY <1>8, <3>1 DEF MapFine, LinksFine
    <3> QED
      BY <1>5, <3>2, GrowFine
  <2>4. ASSUME NEW s \in own PROVE LinkFine(master', Crossed(run, work.links[s]))
    <3> DEFINE link == work.links[s]
               lost == /\ link.product \in Known(ms)
                       /\ master[link.product].sku # ms[link.product].sku
    <3>1. LinkFine(work.ms, link)
      BY <1>3 DEF LinksFine
    <3>2. link \in LinkRecords /\ (link.crossed \/ (work.ms[link.product] # None /\ work.ms[link.product].sku = link.as))
      BY <3>1 DEF LinkFine
    <3>3. Crossed(run, link) = [link EXCEPT !.crossed = link.crossed \/ lost]
      BY <2>1, <3>2 DEF Crossed, LinkRecords
    <3> HIDE DEF link
    <3>4. PICK b \in BOOLEAN : b = (link.crossed \/ lost)
      BY Zenon
    <3>5. Crossed(run, link) = [link EXCEPT !.crossed = b]
      BY <3>3, <3>4
    <3>6. /\ Crossed(run, link) \in LinkRecords /\ Crossed(run, link).product = link.product
          /\ Crossed(run, link).as = link.as /\ Crossed(run, link).crossed = b
      BY <3>2, <3>5 DEF LinkRecords
    <3>7. link.product \in Masters
      BY <3>2 DEF LinkRecords
    <3>8. ~b => master'[link.product] # None /\ master'[link.product].sku = link.as
      <4> SUFFICES ASSUME ~b PROVE master'[link.product] # None /\ master'[link.product].sku = link.as
        OBVIOUS
      <4>1. ~link.crossed /\ ~lost
        BY <3>4, Zenon
      <4>2. work.ms[link.product] # None /\ work.ms[link.product].sku = link.as
        BY <3>2, <4>1
      <4>3. CASE ms[link.product] = None
        BY <1>7, <3>7, <4>2, <4>3
      <4>4. CASE ms[link.product] # None
        <5>1. link.product \notin Free /\ master[link.product] # None
          BY <1>6, <3>7, <4>4 DEF Free, Known
        <5>2. work.ms[link.product] = ms[link.product] /\ master'[link.product] = master[link.product]
          BY <1>3, <1>5, <3>7, <5>1
        <5>3. master[link.product].sku = ms[link.product].sku
          BY <3>7, <4>1, <4>4 DEF Known
        <5> QED
          BY <4>2, <5>1, <5>2, <5>3
      <4> QED
        BY <4>3, <4>4
    <3>9. LinkFine(master', Crossed(run, link))
      BY <3>6, <3>8 DEF LinkFine
    <3> QED
      BY <3>9 DEF link
  <2> HIDE DEF kept, own, live
  <2>5. DOMAIN links = kept \cup own
    BY <2>2
  <2>6. \A s \in DOMAIN links : LinkFine(master', links[s])
    BY <2>2, <2>3, <2>4
  <2>7. links = [s \in DOMAIN links |-> links[s]]
    BY <2>2
  <2> HIDE DEF links
  <2>8. LinksFine(master', links)
    BY <2>6, <2>7 DEF LinksFine
  <2> QED
    BY <2>8 DEF links
<1> HIDE DEF run
<1>10. MapFine(master', x)
  <2>1. PICK links : links = NewLinks(run, work)
    OBVIOUS
  <2>2. x # None => x = [tmpl |-> work.tmpl, says |-> runs[w].version, variants |-> links]
    BY <2>1 DEF run
  <2>3. x # None => x.tmpl = work.tmpl /\ x.says = runs[w].version /\ x.variants = links
    BY <2>2
  <2> QED
    BY <1>9, <2>1, <2>2, <2>3 DEF MapFine
<1>11. \A q \in Products : MapFine(master', mapping'[q])
  <2>1. mapping'[p] = x /\ \A q \in Products \ {p} : mapping'[q] = mapping[q]
    BY <1>2 DEF LinkInv
  <2>2. \A q \in Products : MapFine(master, mapping[q])
    BY DEF LinkInv
  <2>3. \A q \in Products : MapFine(master', mapping[q])
    BY <1>5, <2>2, GrowFine
  <2> HIDE DEF p
  <2> QED
    BY <1>10, <2>1, <2>3
<1>12. \A u \in Workers : runs'[u] # None => Snapshot(u)'
  <2> SUFFICES ASSUME NEW u \in Workers, runs'[u] # None PROVE Snapshot(u)'
    OBVIOUS
  <2>1. u # w /\ runs'[u] = runs[u] /\ views'[u] = views[u]
    BY <1>1, <1>2 DEF LinkInv
  <2>2. Snapshot(u)
    BY <2>1 DEF LinkInv
  <2> QED
    BY <1>5, <2>1, <2>2 DEF Snapshot
<1>13. mapping' = [q \in Products |-> mapping'[q]] /\ views' = [u \in Workers |-> views'[u]]
  BY <1>1 DEF LinkInv
<1> QED
  BY <1>4, <1>11, <1>12, <1>13 DEF LinkInv

LEMMA CommitJobLinks ==
    ASSUME LinkInv, IInv, NEW w \in Workers, CommitJob(w)
    PROVE  LinkInv'
<1> DEFINE run == RunOf(w)
           work == WorkOf(RunOf(w))
           p == runs[w].product
           gone == work.gone \/ (run.m # None /\ mapping[p] = None)
           x == IF gone THEN None
                ELSE [tmpl |-> work.tmpl, says |-> runs[w].version, variants |-> NewLinks(run, work)]
           table == [v \in Masters |-> IF views[w].ms[v] = None /\ work.ms[v] # None
                                      THEN work.ms[v] ELSE master[v]]
<1>1. /\ runs[w] # None /\ Ends(w)
      /\ Cardinality(Free) >= Cardinality(DOMAIN runs[w].offer.variants)
  BY DEF CommitJob
<1>2. \/ UNCHANGED odoo
      \/ ~Doomed(run, work) /\ master' = table /\ mapping' = [mapping EXCEPT ![p] = x]
  BY DEF CommitJob, RunOf
<1>3. CASE UNCHANGED odoo
  <2>1. \A u \in Workers : runs'[u] # None => runs[u] # None /\ views'[u] = views[u]
    BY <1>1 DEF Ends, IInv, Values, LinkInv
  <2>2. views' = [u \in Workers |-> views'[u]]
    BY <1>1 DEF Ends, LinkInv
  <2> QED
    BY <1>3, <2>1, <2>2 DEF LinkInv, Snapshot, odoo
<1>4. CASE ~Doomed(run, work) /\ master' = table /\ mapping' = [mapping EXCEPT ![p] = x]
  <2>1. work.ok
    BY <1>4 DEF Doomed
  <2>2. PICK k : k = WorkOf(RunOf(w))
    OBVIOUS
  <2>3. PICK y : y = x
    OBVIOUS
  <2>4. k.tmpl \in Nat /\ WorkFine(k, views[w].ms, Free, k.tmpl)
    <3>1. k.ok
      BY <2>1, <2>2
    <3> HIDE DEF work
    <3> QED
      BY <1>1, <2>2, <3>1, WorkIs
  <2>5. master' = [v \in Masters |-> IF views[w].ms[v] = None /\ k.ms[v] # None THEN k.ms[v] ELSE master[v]]
    BY <1>4, <2>2
  <2>6. mapping' = [mapping EXCEPT ![runs[w].product] = y]
    BY <1>4, <2>3
  <2>7. y # None => y = [tmpl |-> k.tmpl, says |-> runs[w].version, variants |-> NewLinks(RunOf(w), k)]
    BY <2>2, <2>3
  <2> HIDE DEF work, x, table, p, gone, run
  <2> QED
    BY <1>1, <2>4, <2>5, <2>6, <2>7, DoneLinks
<1> QED
  BY <1>2, <1>3, <1>4

LEMMA InitLinks == Init => LinkInv
<1> SUFFICES ASSUME Init PROVE LinkInv
  OBVIOUS
<1>1. master = [v \in Masters |-> None] /\ mapping = [p \in Products |-> None]
  BY DEF Init
<1>2. runs = [w \in Workers |-> None] /\ views = [w \in Workers |-> None]
  BY DEF Init
<1>3. master \in MasterTables
  BY <1>1 DEF MasterTables
<1>4. \A p \in Products : mapping[p] = None
  BY <1>1
<1> QED
  BY <1>1, <1>2, <1>3, <1>4 DEF LinkInv, MapFine

LEMMA StepLinks == LinkInv /\ IInv /\ [Next]_vars => LinkInv'
<1> SUFFICES ASSUME LinkInv, IInv, [Next]_vars PROVE LinkInv'
  OBVIOUS
<1>1. CASE UNCHANGED vars
  BY <1>1, LinksUnchanged DEF vars, workers
<1>2. CASE \E p \in Products : StaffEdits(p) \/ ImportAgain(p) \/ FetchProduct(p)
  BY <1>2, LinksUnchanged DEF StaffEdits, ImportAgain, NewPull, FetchProduct, workers
<1>3. CASE \E sku \in StoreSkus : UserCreates(sku)
  BY <1>3, UserCreatesLinks
<1>4. CASE \E sku \in 1..MaxSku, v \in Known(master) : UserChangesSku(v, sku)
  BY <1>4, UserChangesSkuLinks
<1>5. CASE ImportSinceLast \/ ImportAll \/ QueueJob \/ EndPull \/ RefusePage \/ BreakPull
  BY <1>5, LinksUnchanged
     DEF ImportSinceLast, ImportAll, NewPull, QueueJob, ListingEnds, EndPull, RefusePage, BreakPull, workers
<1>6. CASE \E end \in ends : DoneSynching(end)
  BY <1>6, LinksUnchanged DEF DoneSynching, workers
<1>7. CASE \E w \in Workers : \E j \in jobs : StartJob(w, j)
  BY <1>7, StartJobLinks
<1>8. CASE \E w \in Workers : CommitJob(w)
  BY <1>8, CommitJobLinks
<1>9. CASE \E w \in Workers : LoseJob(w)
  <2>1. PICK w \in Workers : LoseJob(w)
    BY <1>9
  <2>2. \A u \in Workers : runs'[u] # None => runs[u] # None /\ views'[u] = views[u]
    BY <2>1 DEF LoseJob, Ends, IInv, Values, LinkInv
  <2>3. views' = [u \in Workers |-> views'[u]] /\ UNCHANGED odoo
    BY <2>1 DEF LoseJob, Ends, LinkInv
  <2> QED
    BY <2>2, <2>3 DEF LinkInv, Snapshot, odoo
<1> QED
  BY <1>1, <1>2, <1>3, <1>4, <1>5, <1>6, <1>7, <1>8, <1>9 DEF Next

(* Each variant of a listing stays linked to a product with the SKU it was *)
(* linked by, whichever jobs overlap with each other and with the user,    *)
(* who makes products and changes SKUs (_prepare_mapping_skus,             *)
(* _create_product_product, remove_mapping): for any products and offers,  *)
(* however many masters and workers there are.                             *)
THEOREM LinksHaveTheSku == Spec => []LinkedBySku
<1>1. Init => LinkInv
  BY InitLinks
<1>2. LinkInv /\ IInv /\ [Next]_vars => LinkInv'
  BY StepLinks
<1>3. LinkInv => LinkedBySku
  BY DEF LinkInv, MapFine, LinksFine, LinkFine, LinkedBySku
<1> QED
  BY <1>1, <1>2, <1>3, ProductImportInvariant, PTL DEF Spec
=============================================================================
