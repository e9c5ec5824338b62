--------------------------- MODULE ChannelsProofs ---------------------------
(***************************************************************************)
(* Proofs about Channels, for every tree of channels, every capacity and   *)
(* throttle, and any number of jobs.                                       *)
(***************************************************************************)
EXTENDS Channels, FiniteSetTheorems, WellFoundedInduction, TLAPS

-----------------------------------------------------------------------------
(* The tree.                                                               *)

(* Every set of channels has one whose parent is outside, or the root: the *)
(* assumption on paths leaves no circle.  All inductions over the tree     *)
(* rest on it.                                                             *)
LEMMA Topmost ==
    ASSUME NEW S \in SUBSET Nodes, S # {}
    PROVE  \E c \in S : c = Root \/ Parent[c] \notin S
<1> DEFINE T == {Path[c] : c \in S}
<1>1. IsWellFoundedOn(StrictSubsetOrdering(Nodes), SUBSET Nodes)
  <2>1. IsWellFoundedOn(StrictSubsetOrdering(Nodes), FiniteSubsetsOf(Nodes))
    BY FS_StrictSubsetOrderingWellFounded
  <2>2. IsFiniteSet(Nodes)
    BY ChannelsAssumption
  <2>3. FiniteSubsetsOf(Nodes) = SUBSET Nodes
    BY ONLY <2>2, FS_FiniteSubsetsOfFinite
  <2> QED BY ONLY <2>1, <2>3, Zenon
<1>2. T \subseteq SUBSET Nodes /\ T # {}
  BY ChannelsAssumption
<1> HIDE DEF T
<1>3. PICK p \in T : \A q \in T : <<q, p>> \notin StrictSubsetOrdering(Nodes)
  BY <1>1, <1>2, WFMin
<1>4. PICK c \in S : p = Path[c]
  BY DEF T
<1>5. ASSUME c # Root, Parent[c] \in S PROVE FALSE
  <2>1. Path[Parent[c]] \in T /\ Path[Parent[c]] \in SUBSET Nodes /\ p \in SUBSET Nodes
    BY <1>2, <1>5 DEF T
  <2>2. Path[Parent[c]] \subseteq p /\ Path[Parent[c]] # p
    BY <1>4, <1>5, ChannelsAssumption
  <2>3. <<Path[Parent[c]], p>> \in StrictSubsetOrdering(Nodes)
    BY <2>1, <2>2 DEF StrictSubsetOrdering
  <2> QED BY <1>3, <2>1, <2>3
<1> QED BY <1>4, <1>5

LEMMA PathSteps ==
    /\ Path[Root] = {Root}
    /\ \A c \in Nodes : /\ c \in Path[c] /\ Path[c] \subseteq Nodes
                        /\ c # Root => /\ Parent[c] \in Nodes /\ Parent[c] # c
                                       /\ c \notin Path[Parent[c]]
                                       /\ Path[c] = {c} \cup Path[Parent[c]]
BY ChannelsAssumption

(* What a channel's path goes through has its own path in it.              *)
LEMMA PathInside ==
    ASSUME NEW c \in Nodes, NEW d \in Path[c]
    PROVE  d \in Nodes /\ Path[d] \subseteq Path[c]
<1> DEFINE S == {e \in Nodes : \E f \in Path[e] : ~(Path[f] \subseteq Path[e])}
<1>1. S = {}
  <2> SUFFICES ASSUME S # {} PROVE FALSE
    OBVIOUS
  <2>1. PICK e \in S : e = Root \/ Parent[e] \notin S
    BY Topmost
  <2>2. PICK f \in Path[e] : ~(Path[f] \subseteq Path[e])
    OBVIOUS
  <2>3. e # Root /\ f \in Path[Parent[e]]
    BY <2>2, PathSteps
  <2>4. Parent[e] \in Nodes /\ Parent[e] \notin S /\ Path[Parent[e]] \subseteq Path[e]
    BY <2>1, <2>3, PathSteps
  <2> QED BY <2>2, <2>3, <2>4
<1> QED BY <1>1, PathSteps

LEMMA RootAbove == \A c \in Nodes : Root \in Path[c]
<1> DEFINE S == {c \in Nodes : Root \notin Path[c]}
<1> SUFFICES ASSUME S # {} PROVE FALSE
  OBVIOUS
<1>1. PICK c \in S : c = Root \/ Parent[c] \notin S
  BY Topmost
<1> QED BY <1>1, PathSteps

(* Two channels of a path are one above the other, in one order only.      *)
LEMMA PathOrdered ==
    ASSUME NEW h \in Nodes, NEW c \in Path[h], NEW d \in Path[h]
    PROVE  /\ c \in Path[d] \/ d \in Path[c]
           /\ c \in Path[d] /\ d \in Path[c] => c = d
<1>1. c \in Path[d] \/ d \in Path[c]
  <2> DEFINE S == {e \in Nodes : \E f, g \in Path[e] : f \notin Path[g] /\ g \notin Path[f]}
  <2>1. ASSUME S # {} PROVE FALSE
    <3>1. PICK e \in S : e = Root \/ Parent[e] \notin S
      BY <2>1, Topmost
    <3>2. PICK f \in Path[e], g \in Path[e] : f \notin Path[g] /\ g \notin Path[f]
      OBVIOUS
    <3>3. f # e /\ g # e
      BY <3>2, PathSteps
    <3>4. e # Root /\ f \in Path[Parent[e]] /\ g \in Path[Parent[e]]
      BY <3>2, <3>3, PathSteps
    <3> QED BY <3>1, <3>2, <3>4, PathSteps
  <2> QED BY <2>1
<1>2. ASSUME c \in Path[d], d \in Path[c], c # d PROVE FALSE
  <2>1. c \in Nodes /\ d \in Nodes
    BY PathSteps
  <2>2. d # Root
    BY <1>2, PathSteps
  <2>3. c \in Path[Parent[d]] /\ Parent[d] \in Nodes
    BY <1>2, <2>1, <2>2, PathSteps
  <2>4. d \in Path[Parent[d]]
    BY <1>2, <2>3, PathInside
  <2> QED BY <2>1, <2>2, <2>4, PathSteps
<1> QED BY <1>1, <1>2

(* Strictly below the parent is at or strictly below the child, on a path  *)
(* through the child.                                                      *)
LEMMA BelowParent ==
    ASSUME NEW h \in Nodes, NEW c \in Path[h], c # Root
    PROVE  /\ Parent[c] \in Path[h]
           /\ \A d \in Path[h] : Parent[c] \in Path[d] /\ d # Parent[c] <=> c \in Path[d]
<1>1. c \in Nodes /\ Parent[c] \in Nodes /\ Parent[c] \in Path[c] /\ Parent[c] \in Path[h]
  BY PathSteps, PathInside
<1>2. ASSUME NEW d \in Path[h], c \in Path[d]
      PROVE  Parent[c] \in Path[d] /\ d # Parent[c]
  BY <1>1, <1>2, PathSteps, PathInside
<1>3. ASSUME NEW d \in Path[h], Parent[c] \in Path[d], d # Parent[c]
      PROVE  c \in Path[d]
  <2>1. SUFFICES ASSUME d \in Path[c], d # c PROVE FALSE
    BY PathOrdered, <1>1, PathSteps
  <2>2. d \in Path[Parent[c]]
    BY <2>1, <1>1, PathSteps
  <2> QED BY <2>2, <1>1, <1>3, PathOrdered, PathSteps
<1> QED BY <1>1, <1>2, <1>3

-----------------------------------------------------------------------------
(* Order among jobs, and how many the loop of get_jobs_to_run takes.       *)

LEMMA FiniteJobs ==
    /\ IsFiniteSet(Jobs) /\ Cardinality(Jobs) \in Nat
    /\ \A S \in SUBSET Jobs : IsFiniteSet(S) /\ Cardinality(S) \in Nat
    /\ \A S \in SUBSET Jobs : \A T \in SUBSET S : Cardinality(T) =< Cardinality(S)
<1>1. IsFiniteSet(Jobs)
  BY ChannelsAssumption
<1>2. \A S \in SUBSET Jobs : IsFiniteSet(S)
  BY <1>1, FS_Subset
<1> QED BY <1>1, <1>2, FS_CardinalityType, FS_Subset

(* Induction over sets of jobs.                                            *)
LEMMA SmallestSet ==
    ASSUME NEW T \in SUBSET SUBSET Jobs, T # {}
    PROVE  \E S \in T : \A U \in T : U \subseteq S => U = S
<1>1. IsWellFoundedOn(StrictSubsetOrdering(Jobs), FiniteSubsetsOf(Jobs))
  BY FS_StrictSubsetOrderingWellFounded
<1>2. IsFiniteSet(Jobs)
  BY FiniteJobs
<1>3. FiniteSubsetsOf(Jobs) = SUBSET Jobs
  BY ONLY <1>2, FS_FiniteSubsetsOfFinite
<1>4. IsWellFoundedOn(StrictSubsetOrdering(Jobs), SUBSET Jobs)
  BY ONLY <1>1, <1>3, Zenon
<1>5. PICK S \in T : \A U \in T : <<U, S>> \notin StrictSubsetOrdering(Jobs)
  BY <1>4, WFMin
<1> QED BY <1>5 DEF StrictSubsetOrdering

LEMMA Highest ==
    ASSUME NEW S \in SUBSET Jobs, S # {}
    PROVE  \E j \in S : \A k \in S : Rank[k] =< Rank[j]
<1> DEFINE T == {U \in SUBSET S : U # {} /\ \A j \in U : \E k \in U : ~(Rank[k] =< Rank[j])}
<1> SUFFICES ASSUME T # {} PROVE FALSE
  OBVIOUS
<1>1. PICK U \in T : \A V \in T : V \subseteq U => V = U
  <2>1. T \in SUBSET SUBSET Jobs
    OBVIOUS
  <2> HIDE DEF T
  <2> QED BY <2>1, SmallestSet
<1>2. PICK j \in U : TRUE
  OBVIOUS
<1>3. \A i \in U : Rank[i] \in Nat
  BY ChannelsAssumption
<1>4. U \ {j} \notin T
  BY <1>1
<1>5. PICK m \in U : \A k \in U \ {j} : Rank[k] =< Rank[m]
  BY <1>3, <1>4
<1>6. \A k \in U : Rank[k] =< Rank[j] \/ Rank[k] =< Rank[m]
  BY <1>3, <1>5
<1>7. (\A k \in U : Rank[k] =< Rank[j]) \/ (\A k \in U : Rank[k] =< Rank[m])
  BY <1>3, <1>5
<1> QED BY <1>7

(* get_jobs_to_run pops at most as many jobs as there is room for.         *)
LEMMA BestBound ==
    ASSUME NEW S \in SUBSET Jobs, NEW n \in Nat
    PROVE  Best(S, n) \subseteq S /\ Cardinality(Best(S, n)) =< n
<1> DEFINE B == Best(S, n)
           Before(j) == {k \in S : Rank[k] < Rank[j]}
<1>1. B \subseteq S
  BY DEF Best
<1>2. CASE B = {}
  BY <1>1, <1>2, FS_EmptySet
<1>3. CASE B # {}
  <2>1. PICK j \in B : \A k \in B : Rank[k] =< Rank[j]
    BY <1>1, <1>3, Highest
  <2>2. \A k \in B \ {j} : Rank[k] < Rank[j]
    BY <1>1, <2>1, ChannelsAssumption
  <2>3. B \ {j} \subseteq Before(j)
    BY <1>1, <2>2
  <2>4. Cardinality(B \ {j}) =< Cardinality(Before(j))
    BY <2>3, FiniteJobs
  <2>5. Cardinality(Before(j)) < n
    BY <2>1 DEF Best
  <2>6. Cardinality(B \ {j}) = Cardinality(B) - 1
    BY <1>1, <2>1, FiniteJobs, FS_RemoveElement
  <2>7. /\ Cardinality(B) \in Nat /\ Cardinality(Before(j)) \in Nat
        /\ Cardinality(B \ {j}) \in Nat
    BY <1>1, FiniteJobs
  <2> HIDE DEF B, Before
  <2>8. Cardinality(B) =< n
    BY <2>4, <2>5, <2>6, <2>7
  <2> QED BY <1>1, <2>8 DEF B
<1> QED BY <1>2, <1>3

-----------------------------------------------------------------------------
(* Types.                                                                  *)

LEMMA YieldedSubset ==
    ASSUME TypeOK, NEW c \in Nodes
    PROVE  Yielded(c, {}, now) \subseteq queue[c] \cup Due(c, now)
BY DEF Yielded, Best

LEMMA TypeInit == Init => TypeOK
BY ChannelsAssumption DEF Init, TypeOK, Rows, Times

LEMMA TypeRowChange ==
    ASSUME TypeOK, NEW j \in Jobs, RowChange(j)
    PROVE  TypeOK'
<1>1. ASSUME NEW from, NEW to \in {"none", "pending", "running", "failed"},
             NEW e \in Times, Change(j, from, to, e)
      PROVE  TypeOK'
  BY <1>1 DEF Change, TypeOK, Rows, memory
<1>2. 0 \in Times /\ row[j].eta \in Times /\ (now + 1)..MaxTime \subseteq Times
  BY ChannelsAssumption DEF TypeOK, Rows, Times
<1>3. CASE Delay(j)
  BY <1>1, <1>2, <1>3 DEF Delay
<1>4. CASE Succeed(j)
  BY <1>1, <1>2, <1>4 DEF Succeed
<1>5. CASE Fail(j)
  BY <1>1, <1>2, <1>5 DEF Fail
<1>6. CASE Postpone(j)
  BY <1>1, <1>2, <1>6 DEF Postpone
<1>7. CASE GiveBack(j)
  BY <1>1, <1>2, <1>7 DEF GiveBack
<1>8. CASE Requeue(j)
  BY <1>1, <1>2, <1>8 DEF Requeue
<1>9. CASE SetDone(j)
  BY <1>1, <1>2, <1>9 DEF SetDone
<1> QED BY <1>3, <1>4, <1>5, <1>6, <1>7, <1>8, <1>9 DEF RowChange

LEMMA WithoutType ==
    ASSUME NEW f \in [Nodes -> SUBSET Jobs], NEW j \in Jobs
    PROVE  /\ Without(f, j) \in [Nodes -> SUBSET Jobs]
           /\ With(f, Home[j], j) \in [Nodes -> SUBSET Jobs]
BY ChannelsAssumption DEF Without, With

LEMMA TypeNotify ==
    ASSUME TypeOK, NEW j \in Jobs, Notify(j)
    PROVE  TypeOK'
<1> DEFINE fresh == ~Known(j) \/ row[j].eta # eta[j]
           Sets == /\ queue' \in [Nodes -> SUBSET Jobs] /\ later' \in [Nodes -> SUBSET Jobs]
                   /\ running' \in [Nodes -> SUBSET Jobs] /\ failed' \in [Nodes -> SUBSET Jobs]
<1>1. eta' \in [Jobs -> Times] /\ told' \subseteq Jobs /\ UNCHANGED <<row, pause, visited, now>>
  BY DEF Notify, TypeOK, Rows
<1>0. \A f \in {queue, later, running, failed} :
          /\ Without(f, j) \in [Nodes -> SUBSET Jobs]
          /\ With(Without(f, j), Home[j], j) \in [Nodes -> SUBSET Jobs]
  BY WithoutType DEF TypeOK
<1>2. CASE FileNothing(j)
  <2>1. Sets
    BY <1>0, <1>2 DEF FileNothing
  <2> QED BY <1>1, <2>1 DEF TypeOK
<1>3. CASE FilePending(j, fresh)
  <2>1. Sets
    BY <1>0, <1>3 DEF FilePending, QueueAnew, TypeOK
  <2> QED BY <1>1, <2>1 DEF TypeOK
<1>4. CASE FileRunning(j, fresh)
  <2>1. Sets
    BY <1>4 DEF FileRunning, TypeOK
  <2> QED BY <1>1, <2>1 DEF TypeOK
<1>5. CASE FileFailed(j, fresh)
  <2>1. Sets
    BY <1>0, <1>5 DEF FileFailed, TypeOK
  <2> QED BY <1>1, <2>1 DEF TypeOK
<1> QED BY <1>2, <1>3, <1>4, <1>5 DEF Notify

LEMMA TypeVisit ==
    ASSUME TypeOK, NEW c \in Nodes, Visit(c)
    PROVE  TypeOK'
<1>1. /\ eta' \in [Jobs -> Times] /\ visited' \subseteq Nodes
      /\ failed' = failed /\ now' = now
  BY ChannelsAssumption DEF Visit, TypeOK, Times
<1>2. Yielded(c, {}, now) \subseteq Jobs
  BY YieldedSubset DEF Due, TypeOK
<1>3. later' \in [Nodes -> SUBSET Jobs]
  BY DEF Visit, TypeOK
<1>4. running' \in [Nodes -> SUBSET Jobs]
  BY <1>2 DEF Visit, TypeOK
<1>5. queue' \in [Nodes -> SUBSET Jobs]
  BY <1>2 DEF Visit, TypeOK, Due
<1>6. row' \in [Jobs -> Rows] /\ told' \subseteq Jobs
  BY <1>2 DEF Visit, TypeOK, SendAll, Rows
<1>7. PauseAfter(c, Yielded(c, {}, now)) \in Nat
  BY ChannelsAssumption DEF PauseAfter, TypeOK, Times
<1>8. pause' \in [Nodes -> Nat]
  BY <1>7 DEF Visit, TypeOK
<1> QED BY <1>1, <1>3, <1>4, <1>5, <1>6, <1>8 DEF TypeOK

LEMMA TypeStep == TypeOK /\ [Next]_vars => TypeOK'
<1> SUFFICES ASSUME TypeOK, [Next]_vars PROVE TypeOK'
  OBVIOUS
<1>1. CASE Wake
  BY <1>1 DEF Wake, TypeOK, memory
<1>2. CASE Restart
  BY <1>2 DEF Restart, TypeOK, Rows
<1>3. CASE Tick
  BY <1>3, ChannelsAssumption DEF Tick, TypeOK, Times, memory
<1>4. CASE UNCHANGED vars
  BY <1>4 DEF vars, memory, TypeOK
<1> QED BY <1>1, <1>2, <1>3, <1>4, TypeRowChange, TypeNotify, TypeVisit DEF Next

(* Every variable keeps its type, whatever the runner reads and visits.    *)
THEOREM ChannelsTyped == Spec => []TypeOK
BY TypeInit, TypeStep, PTL DEF Spec

-----------------------------------------------------------------------------
(* The flow of water, job by job and channel by channel.                   *)

Waits(j, c) == j \in queue[c] \cup later[c]

WaitsOn(j) ==
    /\ \E c \in Path[Home[j]] :
          /\ \A d \in Nodes : Waits(j, d) <=> d = c
          /\ \A d \in Nodes : j \in running[d] <=> /\ d \in Path[Home[j]]
                                                   /\ c \in Path[d] /\ d # c
    /\ \A d \in Nodes : j \notin failed[d]

RunsOn(j) ==
    \A d \in Nodes : /\ ~Waits(j, d) /\ j \notin failed[d]
                     /\ j \in running[d] <=> d \in Path[Home[j]]

IsOut(j) ==
    \A d \in Nodes : /\ ~Waits(j, d) /\ j \notin running[d]
                     /\ j \in failed[d] => d = Home[j]

Flows(j) == WaitsOn(j) \/ RunsOn(j) \/ IsOut(j)

(* Rows only start to run by being sent, and what is sent counts as        *)
(* running on its whole path.  Without this the early return of            *)
(* set_running could leave a job queued.                                   *)
SentRuns(j) == row[j].state = "running" => j \in running[Root]

(* It waits in a queue or in an eta queue.                                 *)
InOne(j) == \A c \in Nodes : ~(j \in queue[c] /\ j \in later[c])

Filed(j) ==
    j \notin told =>
        /\ row[j].state = "none" => ~Known(j)
        /\ row[j].state = "pending" => \E c \in Nodes : Waits(j, c)
        /\ row[j].state = "failed" => j \in failed[Home[j]]

IInv ==
    /\ TypeOK
    /\ \A j \in Jobs : Flows(j) /\ InOne(j) /\ SentRuns(j) /\ Filed(j)
    /\ ChannelCapacity

LEMMA HomePath ==
    \A j \in Jobs : /\ Home[j] \in Nodes /\ Home[j] \in Path[Home[j]]
                    /\ Root \in Path[Home[j]] /\ Path[Home[j]] \subseteq Nodes
                    /\ Root \in Nodes
BY RootAbove, PathSteps, ChannelsAssumption

(* A job that the root counts as running does so on its whole path.        *)
LEMMA RootRunsAll ==
    ASSUME NEW j \in Jobs, Flows(j), j \in running[Root]
    PROVE  RunsOn(j)
BY HomePath, PathSteps DEF Flows, WaitsOn, RunsOn, IsOut

LEMMA FlowsIsFlowShape == (\A j \in Jobs : Flows(j)) => FlowShape
<1> SUFFICES ASSUME NEW j \in Jobs, Flows(j)
             PROVE  LET runs == {c \in Nodes : j \in running[c]}
                    IN  \/ \E c \in Path[Home[j]] :
                              /\ WaitsIn(j) = {c}
                              /\ runs = {d \in Path[Home[j]] : Below(d, c) /\ d # c}
                              /\ \A d \in Nodes : j \notin failed[d]
                        \/ /\ WaitsIn(j) = {}
                           /\ \/ runs = Path[Home[j]] /\ \A d \in Nodes : j \notin failed[d]
                              \/ runs = {} /\ {d \in Nodes : j \in failed[d]} \subseteq {Home[j]}
  BY DEF FlowShape
<1> USE HomePath DEF Waits, WaitsIn, Below
<1>1. CASE WaitsOn(j)
  <2>1. PICK c \in Path[Home[j]] :
          /\ \A d \in Nodes : Waits(j, d) <=> d = c
          /\ \A d \in Nodes : j \in running[d] <=> /\ d \in Path[Home[j]]
                                                   /\ c \in Path[d] /\ d # c
    BY <1>1 DEF WaitsOn
  <2>2. WaitsIn(j) = {c}
    BY <2>1
  <2>3. {d \in Nodes : j \in running[d]} = {d \in Path[Home[j]] : Below(d, c) /\ d # c}
    BY <2>1
  <2> QED BY <1>1, <2>2, <2>3 DEF WaitsOn
<1>2. CASE RunsOn(j)
  <2>1. WaitsIn(j) = {} /\ {d \in Nodes : j \in running[d]} = Path[Home[j]]
    BY <1>2 DEF RunsOn
  <2> QED BY <1>2, <2>1 DEF RunsOn
<1>3. CASE IsOut(j)
  <2>1. WaitsIn(j) = {} /\ {d \in Nodes : j \in running[d]} = {}
    BY <1>3 DEF IsOut
  <2> QED BY <1>3, <2>1 DEF IsOut
<1> QED BY <1>1, <1>2, <1>3 DEF Flows

LEMMA FlowsFrame ==
    ASSUME NEW j \in Jobs, Flows(j),
           \A d \in Nodes : /\ Waits(j, d)' <=> Waits(j, d)
                            /\ j \in running'[d] <=> j \in running[d]
                            /\ j \in failed'[d] <=> j \in failed[d]
    PROVE  Flows(j)'
<1>1. CASE WaitsOn(j)
  BY <1>1, HomePath DEF WaitsOn, Flows
<1>2. CASE RunsOn(j)
  BY <1>2 DEF RunsOn, Flows
<1>3. CASE IsOut(j)
  BY <1>3 DEF IsOut, Flows
<1> QED BY <1>1, <1>2, <1>3 DEF Flows

(* The steps that keep rows and filings of a job keep what is said of it.  *)
LEMMA SameFiling ==
    ASSUME NEW j \in Jobs, Flows(j) /\ SentRuns(j) /\ Filed(j),
           row'[j] = row[j], j \notin told' => j \notin told,
           \A d \in Nodes : /\ Waits(j, d)' <=> Waits(j, d)
                            /\ j \in running'[d] <=> j \in running[d]
                            /\ j \in failed'[d] <=> j \in failed[d]
    PROVE  Flows(j)' /\ SentRuns(j)' /\ Filed(j)'
<1>1. Flows(j)'
  BY FlowsFrame
<1>2. SentRuns(j)'
  BY HomePath DEF SentRuns
<1>3. Known(j)' <=> Known(j)
  BY DEF Known, Waits
<1>4. Filed(j)'
  BY <1>3, HomePath DEF Filed
<1> QED BY <1>1, <1>2, <1>4

LEMMA CapacityKept ==
    ASSUME TypeOK, ChannelCapacity, \A c \in Nodes : running'[c] \subseteq running[c]
    PROVE  ChannelCapacity'
<1> SUFFICES ASSUME NEW c \in Nodes, Capacity[c] # 0
             PROVE  Cardinality(running'[c]) =< Capacity[c]
  BY DEF ChannelCapacity
<1>1. running[c] \in SUBSET Jobs /\ running'[c] \in SUBSET running[c]
  BY DEF TypeOK
<1>2. /\ Cardinality(running[c]) \in Nat /\ Cardinality(running'[c]) \in Nat
      /\ Cardinality(running'[c]) =< Cardinality(running[c])
  BY <1>1, FiniteJobs
<1>3. Cardinality(running[c]) =< Capacity[c] /\ Capacity[c] \in Nat
  BY ChannelsAssumption DEF ChannelCapacity
<1> QED BY <1>2, <1>3

LEMMA IInvInit == Init => IInv
<1> SUFFICES ASSUME Init PROVE IInv
  OBVIOUS
<1>1. \A j \in Jobs : IsOut(j) /\ InOne(j) /\ SentRuns(j) /\ Filed(j)
  BY DEF Init, IsOut, InOne, Waits, SentRuns, Filed, Known
<1>2. ChannelCapacity
  BY ChannelsAssumption, FS_EmptySet DEF Init, ChannelCapacity
<1> QED BY <1>1, <1>2, TypeInit DEF IInv, Flows

LEMMA IInvRowChange ==
    ASSUME IInv, NEW j \in Jobs, RowChange(j)
    PROVE  IInv'
<1>1. /\ UNCHANGED memory /\ told' = told \cup {j}
      /\ \A k \in Jobs : k # j => row'[k] = row[k]
      /\ row'[j].state # "running"
  BY DEF RowChange, Delay, Succeed, Fail, Postpone, GiveBack, Requeue, SetDone,
         Change, IInv, TypeOK
<1>2. TypeOK'
  BY TypeRowChange DEF IInv
<1>3. ASSUME NEW k \in Jobs PROVE Flows(k)' /\ InOne(k)' /\ SentRuns(k)' /\ Filed(k)'
  <2>0. InOne(k)'
    BY <1>1 DEF IInv, InOne, memory
  <2>1. CASE k # j
    BY <1>1, <2>0, <2>1, SameFiling DEF IInv, memory, Waits
  <2>2. CASE k = j
    <3>1. Flows(k)'
      BY <1>1, FlowsFrame DEF IInv, memory, Waits
    <3> QED BY <1>1, <2>0, <2>2, <3>1 DEF SentRuns, Filed
  <2> QED BY <2>1, <2>2
<1>4. ChannelCapacity'
  BY <1>1, CapacityKept DEF IInv, memory
<1> QED BY <1>2, <1>3, <1>4 DEF IInv

(* What a notification does to the sets of the job, on its home's path.    *)
LEMMA WithoutElsewhere ==
    ASSUME NEW f \in [Nodes -> SUBSET Jobs], NEW j \in Jobs
    PROVE  /\ \A c \in Nodes : /\ j \in Without(f, j)[c] <=> j \in f[c] /\ c \notin Path[Home[j]]
                               /\ j \in With(Without(f, j), Home[j], j)[c]
                                    <=> c = Home[j] \/ (j \in f[c] /\ c \notin Path[Home[j]])
           /\ \A c \in Nodes : \A k \in Jobs \ {j} :
                 /\ k \in Without(f, j)[c] <=> k \in f[c]
                 /\ k \in With(Without(f, j), Home[j], j)[c] <=> k \in f[c]
           /\ \A c \in Nodes : Without(f, j)[c] \subseteq f[c]
BY HomePath DEF Without, With

LEMMA OnlyOnPath ==
    ASSUME NEW j \in Jobs, Flows(j), NEW c \in Nodes, c \notin Path[Home[j]]
    PROVE  ~Waits(j, c) /\ j \notin running[c] /\ j \notin failed[c]
BY HomePath DEF Flows, WaitsOn, RunsOn, IsOut

LEMMA NotifyFiles ==
    ASSUME IInv, NEW j \in Jobs, Notify(j)
    PROVE  /\ Flows(j)' /\ InOne(j)' /\ SentRuns(j)' /\ Filed(j)'
           /\ \A c \in Nodes : running'[c] \subseteq running[c]
           /\ \A k \in Jobs \ {j} : \A c \in Nodes :
                 /\ k \in queue'[c] <=> k \in queue[c]
                 /\ k \in later'[c] <=> k \in later[c]
                 /\ k \in running'[c] <=> k \in running[c]
                 /\ k \in failed'[c] <=> k \in failed[c]
<1> DEFINE fresh == ~Known(j) \/ row[j].eta # eta[j]
           Unmoved == UNCHANGED <<queue, later, running, failed>>
<1>1. /\ Flows(j) /\ InOne(j) /\ SentRuns(j) /\ row' = row
      /\ queue \in [Nodes -> SUBSET Jobs] /\ later \in [Nodes -> SUBSET Jobs]
      /\ running \in [Nodes -> SUBSET Jobs] /\ failed \in [Nodes -> SUBSET Jobs]
  BY DEF IInv, TypeOK, Notify
<1>2. \A c \in Nodes : c \notin Path[Home[j]] =>
          ~Waits(j, c) /\ j \notin running[c] /\ j \notin failed[c]
  BY <1>1, OnlyOnPath
<1>3. ASSUME Unmoved PROVE Flows(j)' /\ InOne(j)' /\ SentRuns(j)'
  <2>1. Flows(j)'
    BY <1>1, <1>3, FlowsFrame DEF Waits
  <2> QED BY <1>1, <1>3, <2>1 DEF SentRuns, InOne
<1>4. CASE row[j].state = "none" /\ FileNothing(j)
  <2>1. \A c \in Nodes : ~Waits(j, c)' /\ j \notin running'[c] /\ j \notin failed'[c]
    BY <1>1, <1>2, <1>4, WithoutElsewhere DEF FileNothing, Waits
  <2>2. IsOut(j)' /\ InOne(j)' /\ ~Known(j)'
    BY <2>1 DEF IsOut, InOne, Known, Waits
  <2>3. Flows(j)' /\ InOne(j)' /\ SentRuns(j)' /\ Filed(j)'
    BY <1>1, <1>4, <2>2 DEF Flows, SentRuns, Filed
  <2> QED BY <1>1, <1>4, <2>3, WithoutElsewhere DEF FileNothing
<1>5. CASE row[j].state = "pending" /\ FilePending(j, fresh)
  <2>1. CASE ~fresh /\ j \in queue[Home[j]] \cup later[Home[j]]
    <3>1. Unmoved
      BY <1>5, <2>1 DEF FilePending
    <3>2. Filed(j)'
      BY <1>1, <1>5, <2>1, <3>1, HomePath DEF Filed, Waits
    <3> QED BY <1>3, <3>1, <3>2
  <2>2. CASE QueueAnew(j)
    <3>1. \A c \in Nodes : /\ Waits(j, c)' <=> c = Home[j]
                           /\ j \notin running'[c] /\ j \notin failed'[c]
      BY <1>1, <1>2, <2>2, WithoutElsewhere DEF QueueAnew, Waits
    <3>2. \A d \in Path[Home[j]] : ~(Home[j] \in Path[d] /\ d # Home[j])
      BY PathOrdered, HomePath
    <3>3. WaitsOn(j)'
      BY <3>1, <3>2, HomePath DEF WaitsOn
    <3>4. Flows(j)' /\ InOne(j)' /\ SentRuns(j)' /\ Filed(j)'
      <4>1. InOne(j)'
        BY <1>1, <1>2, <2>2, WithoutElsewhere DEF QueueAnew, InOne, Waits
      <4> QED BY <1>1, <1>5, <3>1, <3>3, <4>1, HomePath DEF Flows, SentRuns, Filed
    <3> QED BY <1>1, <2>2, <3>4, WithoutElsewhere DEF QueueAnew
  <2> QED BY <1>5, <2>1, <2>2 DEF FilePending
<1>6. CASE row[j].state = "running" /\ FileRunning(j, fresh)
  <2>1. RunsOn(j)
    BY <1>1, <1>6, RootRunsAll DEF SentRuns
  <2>2. \A c \in Nodes : /\ running'[c] = running[c]
                         /\ queue'[c] = queue[c] /\ later'[c] = later[c]
                         /\ failed'[c] = failed[c]
    BY <1>1, <1>6, <2>1 DEF FileRunning, RunsOn, Waits
  <2>3. Flows(j)' /\ InOne(j)'
    BY <1>1, <2>2, FlowsFrame DEF Waits, InOne
  <2>4. SentRuns(j)' /\ Filed(j)'
    BY <1>1, <1>6, <2>2, HomePath DEF SentRuns, Filed
  <2> QED BY <2>2, <2>3, <2>4
<1>7. CASE row[j].state = "failed" /\ FileFailed(j, fresh)
  <2>1. CASE ~fresh /\ j \in failed[Home[j]]
    <3>1. Unmoved
      BY <1>7, <2>1 DEF FileFailed
    <3>2. Filed(j)'
      BY <1>1, <1>7, <2>1, <3>1 DEF Filed
    <3> QED BY <1>3, <3>1, <3>2
  <2>2. CASE ~(~fresh /\ j \in failed[Home[j]])
    <3>0. /\ queue' = Without(queue, j) /\ later' = Without(later, j)
          /\ running' = Without(running, j)
          /\ failed' = With(Without(failed, j), Home[j], j)
      BY <1>7, <2>2 DEF FileFailed
    <3>1. \A c \in Nodes : /\ ~Waits(j, c)' /\ j \notin running'[c]
                           /\ j \in failed'[c] <=> c = Home[j]
      BY <1>1, <1>2, <3>0, WithoutElsewhere DEF Waits
    <3>2. IsOut(j)'
      BY <3>1 DEF IsOut
    <3>3. Flows(j)' /\ InOne(j)' /\ SentRuns(j)' /\ Filed(j)'
      BY <1>1, <1>7, <3>1, <3>2, HomePath DEF Flows, SentRuns, Filed, InOne, Waits
    <3> QED BY <1>1, <3>0, <3>3, WithoutElsewhere
  <2> QED BY <2>1, <2>2
<1> QED BY <1>4, <1>5, <1>6, <1>7 DEF Notify

LEMMA IInvNotify ==
    ASSUME IInv, NEW j \in Jobs, Notify(j)
    PROVE  IInv'
<1>1. TypeOK'
  BY TypeNotify DEF IInv
<1>2. ASSUME NEW k \in Jobs \ {j}
      PROVE  Flows(k)' /\ InOne(k)' /\ SentRuns(k)' /\ Filed(k)'
  <2>1. InOne(k)'
    BY NotifyFiles DEF IInv, InOne
  <2> QED BY <2>1, NotifyFiles, SameFiling DEF IInv, Notify, Waits
<1>3. ChannelCapacity'
  BY NotifyFiles, CapacityKept DEF IInv
<1> QED BY <1>1, <1>2, <1>3, NotifyFiles DEF IInv

LEMMA IInvRestart == IInv /\ Restart => IInv'
<1> SUFFICES ASSUME IInv, Restart PROVE IInv'
  OBVIOUS
<1>1. TypeOK' /\ TypeOK
  BY TypeStep DEF IInv, Next
<1>2. /\ row' = row /\ row \in [Jobs -> Rows]
      /\ \A j \in Jobs, c \in Nodes :
            /\ j \in queue'[c] <=> row[j].state = "pending" /\ Home[j] = c /\ row[j].eta = 0
            /\ j \in later'[c] <=> row[j].state = "pending" /\ Home[j] = c /\ row[j].eta # 0
            /\ j \in running'[c] <=> row[j].state = "running" /\ c \in Path[Home[j]]
            /\ j \in failed'[c] <=> row[j].state = "failed" /\ Home[j] = c
  BY <1>1 DEF Restart, TypeOK
<1>3. ASSUME NEW j \in Jobs PROVE Flows(j)' /\ InOne(j)' /\ SentRuns(j)' /\ Filed(j)'
  <2>0. InOne(j)'
    BY <1>2 DEF InOne
  <2>1. CASE row[j].state = "pending"
    <3>1. \A d \in Path[Home[j]] : ~(Home[j] \in Path[d] /\ d # Home[j])
      BY PathOrdered, HomePath
    <3>2. WaitsOn(j)'
      BY <1>2, <2>1, <3>1, HomePath DEF WaitsOn, Waits
    <3>3. \E c \in Nodes : Waits(j, c)'
      BY <1>2, <2>1, HomePath DEF Waits
    <3> QED BY <1>2, <2>0, <2>1, <3>2, <3>3 DEF Flows, SentRuns, Filed
  <2>2. CASE row[j].state = "running"
    <3>1. RunsOn(j)'
      BY <1>2, <2>2, HomePath DEF RunsOn, Waits
    <3> QED BY <1>2, <2>0, <2>2, <3>1, HomePath DEF Flows, SentRuns, Filed
  <2>3. CASE row[j].state \in {"none", "failed"}
    <3>1. IsOut(j)'
      BY <1>2, <2>3 DEF IsOut, Waits
    <3>2. row[j].state = "none" => ~Known(j)'
      BY <1>2 DEF Known
    <3> QED BY <1>2, <2>0, <2>3, <3>1, <3>2, HomePath DEF Flows, SentRuns, Filed
  <2> QED BY <1>2, <2>0, <2>1, <2>2, <2>3 DEF Rows
<1>4. \A c \in Nodes : running'[c] \subseteq running[c]
  <2> SUFFICES ASSUME NEW c \in Nodes, NEW j \in Jobs, row[j].state = "running",
                      c \in Path[Home[j]]
               PROVE  j \in running[c]
    BY <1>1, <1>2 DEF TypeOK
  <2>1. RunsOn(j)
    BY RootRunsAll DEF IInv, SentRuns
  <2> QED BY <2>1 DEF RunsOn
<1>5. ChannelCapacity'
  BY <1>4, CapacityKept DEF IInv
<1> QED BY <1>1, <1>3, <1>5 DEF IInv

(* A channel that yields jobs had room for them.                           *)
LEMMA YieldFits ==
    ASSUME IInv, NEW c \in Nodes, Capacity[c] # 0
    PROVE  Cardinality(running[c] \cup Yielded(c, {}, now)) =< Capacity[c]
<1> DEFINE out == Yielded(c, {}, now)
           ready == queue[c] \cup {} \cup Due(c, now)
<1>1. running[c] \in SUBSET Jobs /\ ready \in SUBSET Jobs /\ Capacity[c] \in Nat
  BY ChannelsAssumption DEF IInv, TypeOK, Due
<1>2. Cardinality(running[c]) =< Capacity[c] /\ Cardinality(running[c]) \in Nat
  BY <1>1, FiniteJobs DEF IInv, ChannelCapacity
<1>3. CASE out = {}
  <2>1. running[c] \cup out = running[c]
    BY <1>3
  <2> QED BY <1>2, <2>1
<1>4. CASE out # {}
  <2>1. out = Best(ready, Room(c)) /\ HasCapacity(c)
    BY <1>4 DEF Yielded
  <2>2. /\ Cardinality(running[c]) < Capacity[c]
        /\ Room(c) \in Nat /\ Cardinality(running[c]) + Room(c) =< Capacity[c]
    <3>1. Cardinality(running[c]) < Capacity[c]
      BY <2>1 DEF HasCapacity
    <3>2. Throttle[c] \in Nat
      BY ChannelsAssumption
    <3> QED BY <1>1, <1>2, <3>1, <3>2 DEF Room
  <2>3. out \subseteq Jobs /\ Cardinality(out) =< Room(c)
    BY <1>1, <2>1, <2>2, BestBound
  <2> HIDE DEF out
  <2>4. /\ IsFiniteSet(running[c]) /\ IsFiniteSet(out) /\ Cardinality(out) \in Nat
        /\ Cardinality(running[c] \cap out) \in Nat
    BY <1>1, <2>3, FiniteJobs
  <2>5. Cardinality(running[c] \cup out)
          = Cardinality(running[c]) + Cardinality(out) - Cardinality(running[c] \cap out)
    BY <2>4, FS_Union
  <2>6. Cardinality(running[c] \cup out) =< Capacity[c]
    BY <1>1, <1>2, <2>2, <2>3, <2>4, <2>5
  <2> QED BY <2>6 DEF out
<1> QED BY <1>3, <1>4

LEMMA IInvVisit ==
    ASSUME IInv, NEW c \in Nodes, Visit(c)
    PROVE  IInv'
<1> DEFINE out == Yielded(c, {}, now)
           due == IF ~Resting(c, now) /\ HasCapacity(c) THEN Due(c, now) ELSE {}
<1>1. TypeOK /\ TypeOK'
  BY TypeVisit DEF IInv
<1>2. out \subseteq queue[c] \cup due /\ due \subseteq later[c]
  BY DEF Yielded, Best, Due
<1>3. /\ later' = [later EXCEPT ![c] = @ \ due]
      /\ queue' = [d \in Nodes |->
                      CASE d = c -> (queue[c] \cup due) \ out
                        [] d # c /\ c # Root /\ d = Parent[c] -> queue[d] \cup out
                        [] OTHER -> queue[d]]
      /\ running' = [running EXCEPT ![c] = @ \cup out]
      /\ failed' = failed
      /\ IF c = Root THEN SendAll(out) ELSE UNCHANGED <<row, told>>
  BY DEF Visit
<1>4. out \subseteq Jobs
  BY <1>1, <1>2 DEF TypeOK
<1> HIDE DEF out, due
<1>5. \A d \in Nodes, j \in Jobs :
          /\ j \in later'[d] <=> j \in later[d] /\ ~(d = c /\ j \in due)
          /\ j \in queue'[d] <=> IF d = c THEN j \in queue[d] \cup due /\ j \notin out
                                 ELSE \/ j \in queue[d]
                                      \/ c # Root /\ d = Parent[c] /\ j \in out
          /\ j \in running'[d] <=> j \in running[d] \/ (d = c /\ j \in out)
          /\ j \in failed'[d] <=> j \in failed[d]
  BY <1>1, <1>3 DEF TypeOK
<1>6. \A d \in Nodes, j \in Jobs :
          /\ j \notin out => (Waits(j, d)' <=> Waits(j, d))
          /\ j \in out => (Waits(j, d)' <=> \/ d # c /\ Waits(j, d)
                                            \/ d # c /\ c # Root /\ d = Parent[c]
                                            \/ d = c /\ j \in later[d] /\ j \notin due)
  BY <1>2, <1>5 DEF Waits
<1>7. \A j \in Jobs : /\ j \notin out => row'[j] = row[j]
                      /\ j \notin told' => j \notin told
                      /\ c = Root /\ j \in out => j \in told'
                      /\ c # Root => row'[j] = row[j] /\ told' = told
  BY <1>1, <1>3 DEF SendAll, TypeOK
<1>8. \A j \in Jobs : InOne(j)'
  <2> SUFFICES ASSUME NEW j \in Jobs, NEW d \in Nodes
               PROVE  ~(j \in queue'[d] /\ j \in later'[d])
    BY DEF InOne
  <2>1. InOne(j)
    BY DEF IInv
  <2>2. CASE j \in out
    <3>1. Waits(j, c) /\ (\A e \in Nodes : Waits(j, e) => e = c)
      BY <1>2, <2>2, HomePath DEF IInv, Flows, WaitsOn, RunsOn, IsOut, Waits
    <3> QED BY <1>5, <2>1, <2>2, <3>1 DEF InOne, Waits
  <2>3. CASE j \notin out
    BY <1>2, <1>5, <2>1, <2>3 DEF InOne
  <2> QED BY <2>2, <2>3
<1>9. ASSUME NEW j \in Jobs, j \notin out PROVE Flows(j)' /\ SentRuns(j)' /\ Filed(j)'
  BY <1>5, <1>6, <1>7, <1>9, SameFiling DEF IInv
<1>10. ASSUME NEW j \in Jobs, j \in out PROVE Flows(j)' /\ SentRuns(j)' /\ Filed(j)'
  <2>1. Waits(j, c) /\ InOne(j) /\ WaitsOn(j)
    BY <1>2, <1>10 DEF IInv, Flows, RunsOn, IsOut, Waits
  <2>2. /\ c \in Path[Home[j]] /\ \A d \in Nodes : Waits(j, d) <=> d = c
        /\ \A d \in Nodes : j \in running[d] <=> /\ d \in Path[Home[j]]
                                                 /\ c \in Path[d] /\ d # c
        /\ \A d \in Nodes : j \notin failed[d]
    BY <2>1, HomePath DEF WaitsOn
  <2>3. ~(j \in later[c] /\ j \notin due)
    BY <1>2, <1>10, <2>1 DEF InOne
  <2>4. \A d \in Nodes : /\ Waits(j, d)' <=> c # Root /\ d # c /\ d = Parent[c]
                         /\ j \in running'[d] <=> d \in Path[Home[j]] /\ c \in Path[d]
                         /\ j \notin failed'[d]
    BY <1>5, <1>6, <1>10, <2>2, <2>3, PathSteps
  <2>5. CASE c = Root
    <3>1. RunsOn(j)'
      BY <2>4, <2>5, RootAbove DEF RunsOn
    <3> QED BY <1>7, <1>10, <2>5, <3>1, HomePath DEF Flows, SentRuns, Filed, RunsOn
  <2>6. CASE c # Root
    <3>1. Parent[c] # c /\ Parent[c] \in Nodes
      BY <2>6, PathSteps
    <3>2. WaitsOn(j)'
      BY <2>2, <2>4, <2>6, <3>1, BelowParent, HomePath DEF WaitsOn
    <3>3. row'[j].state # "running" /\ row[j] = row'[j] /\ j \notin told' => j \notin told
      BY <1>7, <2>6
    <3>4. row[j].state # "running"
      <4>1. j \notin running[Root]
        BY <2>1, RootRunsAll DEF IInv, RunsOn
      <4> QED BY <4>1 DEF IInv, SentRuns
    <3>5. \E d \in Nodes : Waits(j, d)'
      BY <2>4, <2>6, <3>1
    <3>6. Filed(j)'
      BY <1>7, <2>1, <2>2, <2>6, <3>5, HomePath DEF IInv, Filed, Known, Waits
    <3> QED BY <1>7, <2>6, <3>2, <3>4, <3>6 DEF Flows, SentRuns
  <2> QED BY <2>5, <2>6
<1>11. ChannelCapacity'
  <2> SUFFICES ASSUME NEW d \in Nodes, Capacity[d] # 0
               PROVE  Cardinality(running'[d]) =< Capacity[d]
    BY DEF ChannelCapacity
  <2>1. CASE d = c
    BY <1>1, <1>3, <2>1, YieldFits DEF TypeOK, out
  <2>2. CASE d # c
    BY <1>1, <1>3, <2>2 DEF TypeOK, IInv, ChannelCapacity
  <2> QED BY <2>1, <2>2
<1> QED BY <1>1, <1>8, <1>9, <1>10, <1>11 DEF IInv

LEMMA IInvStep == IInv /\ [Next]_vars => IInv'
<1> SUFFICES ASSUME IInv, [Next]_vars PROVE IInv'
  OBVIOUS
<1>1. ASSUME UNCHANGED <<row, told, memory>> PROVE IInv'
  <2>1. TypeOK'
    BY TypeStep DEF IInv
  <2>2. \A j \in Jobs : Flows(j)' /\ InOne(j)' /\ SentRuns(j)' /\ Filed(j)'
    BY <1>1 DEF IInv, memory, Flows, WaitsOn, RunsOn, IsOut, Waits, InOne, SentRuns, Filed, Known
  <2>3. ChannelCapacity'
    BY <1>1 DEF IInv, memory, ChannelCapacity
  <2> QED BY <2>1, <2>2, <2>3 DEF IInv
<1>2. CASE Wake
  BY <1>1, <1>2 DEF Wake
<1>3. CASE Tick
  BY <1>1, <1>3 DEF Tick
<1>4. CASE UNCHANGED vars
  BY <1>1, <1>4 DEF vars
<1> QED BY <1>2, <1>3, <1>4, IInvRowChange, IInvNotify, IInvVisit, IInvRestart DEF Next

LEMMA ChannelsInvariant == Spec => []IInv
BY IInvInit, IInvStep, PTL DEF Spec

(* A job waits in one channel and counts as running exactly below it,      *)
(* whatever is notified, sent and restarted.                               *)
THEOREM JobsFlow == Spec => []FlowShape
<1>1. IInv => FlowShape
  BY FlowsIsFlowShape DEF IInv
<1> QED BY <1>1, ChannelsInvariant, PTL

(* No channel counts more running jobs than its capacity.                  *)
THEOREM CapacityHolds == Spec => []ChannelCapacity
<1>1. IInv => ChannelCapacity
  BY DEF IInv
<1> QED BY <1>1, ChannelsInvariant, PTL

(* A job without a pending notification is filed as its row says.          *)
THEOREM JobsFiledAsTold == Spec => []FiledAsTold
<1>1. IInv => FiledAsTold
  <2> SUFFICES ASSUME IInv, NEW j \in Jobs \ told
               PROVE  CASE row[j].state = "none" -> ~Known(j)
                        [] row[j].state = "pending" -> WaitsIn(j) # {}
                        [] row[j].state = "running" -> j \in running[Root]
                        [] row[j].state = "failed" -> j \in failed[Home[j]]
    BY DEF FiledAsTold
  <2>1. row[j].state \in {"none", "pending", "running", "failed"}
    BY DEF IInv, TypeOK, Rows
  <2>2. Filed(j) /\ SentRuns(j)
    BY DEF IInv
  <2> QED BY <2>1, <2>2 DEF Filed, SentRuns, WaitsIn, Waits
<1> QED BY <1>1, ChannelsInvariant, PTL

-----------------------------------------------------------------------------
(* Recursion over the tree, from the leaves up.                            *)

Subtree(c) == {d \in Nodes : c \in Path[d]}

LEMMA ChildPath ==
    ASSUME NEW c \in Nodes, NEW d \in Children(c)
    PROVE  /\ d \in Nodes /\ d # Root /\ Parent[d] = c /\ d # c
           /\ c \in Path[d] /\ d \notin Path[c]
           /\ Subtree(d) \subseteq Subtree(c) /\ c \notin Subtree(d)
<1>1. d \in Nodes /\ d # Root /\ Parent[d] = c /\ d # c /\ c \in Path[d] /\ d \notin Path[c]
  BY PathSteps DEF Children
<1>2. Subtree(d) \subseteq Subtree(c)
  BY <1>1, PathInside DEF Subtree
<1> QED BY <1>1, <1>2 DEF Subtree

(* Every set of channels has one with no child in it.                      *)
LEMMA Bottommost ==
    ASSUME NEW S \in SUBSET Nodes, S # {}
    PROVE  \E c \in S : \A d \in Children(c) : d \notin S
<1> DEFINE T == {Subtree(c) : c \in S}
<1>1. IsWellFoundedOn(StrictSubsetOrdering(Nodes), SUBSET Nodes)
  <2>1. IsWellFoundedOn(StrictSubsetOrdering(Nodes), FiniteSubsetsOf(Nodes))
    BY FS_StrictSubsetOrderingWellFounded
  <2>2. IsFiniteSet(Nodes)
    BY ChannelsAssumption
  <2>3. FiniteSubsetsOf(Nodes) = SUBSET Nodes
    BY ONLY <2>2, FS_FiniteSubsetsOfFinite
  <2> QED BY ONLY <2>1, <2>3, Zenon
<1>2. T \subseteq SUBSET Nodes /\ T # {}
  BY DEF Subtree
<1> HIDE DEF T
<1>3. PICK s \in T : \A q \in T : <<q, s>> \notin StrictSubsetOrdering(Nodes)
  BY <1>1, <1>2, WFMin
<1>4. PICK c \in S : s = Subtree(c)
  BY DEF T
<1>5. ASSUME NEW d \in Children(c), d \in S PROVE FALSE
  <2>1. Subtree(d) \in T /\ Subtree(d) \in SUBSET Nodes /\ s \in SUBSET Nodes
    BY <1>2, <1>5 DEF T
  <2>2. Subtree(d) \subseteq s /\ c \in s /\ c \notin Subtree(d)
    BY <1>4, ChildPath, PathSteps DEF Subtree
  <2>3. <<Subtree(d), s>> \in StrictSubsetOrdering(Nodes)
    BY <2>1, <2>2 DEF StrictSubsetOrdering
  <2> QED BY <1>3, <2>1, <2>3
<1> QED BY <1>4, <1>5

(* What is in the tree under a channel is the channel or under one of its  *)
(* children, and under one only.                                           *)
LEMMA SubtreeSteps ==
    ASSUME NEW c \in Nodes, NEW e \in Subtree(c), e # c
    PROVE  /\ \E d \in Children(c) : e \in Subtree(d)
           /\ \A d, f \in Children(c) : e \in Subtree(d) /\ e \in Subtree(f) => d = f
<1>1. \A d, f \in Children(c) : e \in Subtree(d) /\ e \in Subtree(f) => d = f
  <2> SUFFICES ASSUME NEW d \in Children(c), NEW f \in Children(c),
                      d \in Path[e], f \in Path[e], d # f, e \in Nodes
               PROVE  FALSE
    BY DEF Subtree
  <2>1. \A g \in Children(c) : Path[g] = {g} \cup Path[c] /\ g \notin Path[c]
    BY ChildPath, PathSteps
  <2>2. d \in Path[f] \/ f \in Path[d]
    BY PathOrdered
  <2> QED BY <2>1, <2>2
<1>2. \E d \in Children(c) : e \in Subtree(d)
  <2> DEFINE S == {x \in Subtree(c) : x # c /\ \A d \in Children(c) : x \notin Subtree(d)}
  <2> SUFFICES ASSUME S # {} PROVE FALSE
    OBVIOUS
  <2>0. S \in SUBSET Nodes
    BY DEF Subtree
  <2>1. PICK x \in S : x = Root \/ Parent[x] \notin S
    <3> HIDE DEF S
    <3> QED BY <2>0, Topmost
  <2>2. x \in Nodes /\ c \in Path[x] /\ x # c
    BY DEF Subtree
  <2>3. x # Root /\ c \in Path[Parent[x]] /\ Parent[x] \in Nodes
    BY <2>2, PathSteps
  <2>4. CASE Parent[x] = c
    BY <2>2, <2>3, <2>4, PathSteps DEF Children, Subtree
  <2>5. CASE Parent[x] # c
    <3>1. PICK d \in Children(c) : Parent[x] \in Subtree(d)
      BY <2>1, <2>3, <2>5 DEF Subtree
    <3>2. x \in Subtree(d)
      BY <2>2, <2>3, <3>1, PathSteps DEF Subtree
    <3> QED BY <3>1, <3>2
  <2> QED BY <2>4, <2>5
<1> QED BY <1>1, <1>2

(* What a function makes of the children of a channel.                     *)
Gather(g, c) == UNION {g[d] : d \in Children(c)}

(* g makes of each channel what F makes of it and its children.            *)
Solves(g, F) == \A c \in Nodes : g[c] = F[<<c, Gather(g, c)>>]

(* A function that makes of each channel something that depends on what it *)
(* makes of the channel's children exists.                                 *)
LEMMA TreeRecursion ==
    ASSUME NEW X, NEW F \in [Nodes \X SUBSET X -> SUBSET X]
    PROVE  \E g \in [Nodes -> SUBSET X] : Solves(g, F)
<1> DEFINE Good(g, c) == \A e \in Subtree(c) : g[e] = F[<<e, Gather(g, e)>>]
           Some(c) == \E g \in [Nodes -> SUBSET X] : Good(g, c)
           S == {c \in Nodes : ~Some(c)}
<1>1. S = {}
  <2> SUFFICES ASSUME S # {} PROVE FALSE
    OBVIOUS
  <2>1. PICK c \in S : \A d \in Children(c) : d \notin S
    <3>1. S \in SUBSET Nodes
      OBVIOUS
    <3> HIDE DEF S
    <3> QED BY <3>1, Bottommost
  <2>2. \A d \in Children(c) : Some(d)
    BY <2>1 DEF Children
  <2> DEFINE G == [d \in Children(c) |-> CHOOSE g \in [Nodes -> SUBSET X] : Good(g, d)]
  <2>3. \A d \in Children(c) : G[d] \in [Nodes -> SUBSET X] /\ Good(G[d], d)
    <3> HIDE DEF Good
    <3> QED BY <2>2
  <2> HIDE DEF G
  <2> DEFINE top == UNION {G[d][d] : d \in Children(c)}
             h == [e \in Nodes |->
                     IF e = c THEN F[<<c, top>>]
                     ELSE IF \E d \in Children(c) : e \in Subtree(d)
                          THEN G[CHOOSE d \in Children(c) : e \in Subtree(d)][e] ELSE {}]
  <2>4. top \in SUBSET X /\ \A e \in Nodes : {G[d][e] : d \in Children(c)} \subseteq SUBSET X
    BY <2>3, ChildPath
  <2>5. ASSUME NEW d \in Children(c), NEW e \in Subtree(d) PROVE h[e] = G[d][e]
    <3>1. e \in Nodes /\ e # c /\ e \in Subtree(c)
      BY <2>5, ChildPath DEF Subtree
    <3>2. d = CHOOSE f \in Children(c) : e \in Subtree(f)
      BY <2>5, <3>1, SubtreeSteps
    <3> QED BY <3>1, <3>2
  <2>6. h \in [Nodes -> SUBSET X]
    <3> SUFFICES ASSUME NEW e \in Nodes PROVE h[e] \in SUBSET X
      OBVIOUS
    <3>1. CASE e = c
      BY <2>4, <3>1
    <3>2. CASE e # c /\ \E d \in Children(c) : e \in Subtree(d)
      <4>1. PICK d \in Children(c) : e \in Subtree(d)
        BY <3>2
      <4> QED BY <2>3, <2>5, <4>1
    <3>3. CASE e # c /\ ~\E d \in Children(c) : e \in Subtree(d)
      BY <3>3
    <3> QED BY <3>1, <3>2, <3>3
  <2>7. h[c] = F[<<c, top>>] /\ c \in Nodes
    OBVIOUS
  <2>8. Good(h, c)
    <3> HIDE DEF h
    <3> SUFFICES ASSUME NEW e \in Subtree(c)
                 PROVE  h[e] = F[<<e, Gather(h, e)>>]
      OBVIOUS
    <3>1. CASE e = c
      <4>1. \A d \in Children(c) : h[d] = G[d][d]
        BY <2>5, ChildPath, PathSteps DEF Subtree
      <4>2. {h[d] : d \in Children(c)} = {G[d][d] : d \in Children(c)}
        BY <4>1
      <4>3. Gather(h, c) = top
        BY ONLY <4>2, Zenon DEF Gather
      <4> QED BY <2>7, <3>1, <4>3
    <3>2. CASE e # c
      <4>1. PICK d \in Children(c) : e \in Subtree(d)
        BY <3>2, SubtreeSteps
      <4>2. e \in Nodes
        BY DEF Subtree
      <4>3. \A f \in Children(e) : f \in Subtree(d)
        BY <4>1, <4>2, ChildPath, PathSteps DEF Subtree
      <4>4. \A f \in Children(e) : h[f] = G[d][f]
        BY <2>5, <4>3
      <4>5. {h[f] : f \in Children(e)} = {G[d][f] : f \in Children(e)}
        BY <4>4
      <4>6. G[d][e] = F[<<e, Gather(G[d], e)>>]
        BY <2>3, <4>1
      <4>7. Gather(h, e) = Gather(G[d], e)
        BY ONLY <4>5, Zenon DEF Gather
      <4> QED BY <2>5, <4>1, <4>6, <4>7
    <3> QED BY <3>1, <3>2
  <2> HIDE DEF h, Good
  <2> QED BY <2>1, <2>6, <2>8
<1>2. Some(Root)
  <2>1. Root \in Nodes
    BY ChannelsAssumption
  <2> HIDE DEF Some
  <2> QED BY <1>1, <2>1
<1>3. PICK g \in [Nodes -> SUBSET X] : Good(g, Root)
  BY <1>2
<1>4. Subtree(Root) = Nodes
  BY RootAbove DEF Subtree
<1>5. Solves(g, F)
  BY <1>3, <1>4 DEF Solves
<1> QED BY <1>5

-----------------------------------------------------------------------------
(* What a round leaves behind.                                             *)

LEMMA Lowest ==
    ASSUME NEW S \in SUBSET Jobs, S # {}
    PROVE  \E j \in S : \A k \in S : Rank[j] =< Rank[k]
<1> DEFINE T == {U \in SUBSET S : U # {} /\ \A j \in U : \E k \in U : ~(Rank[j] =< Rank[k])}
<1> SUFFICES ASSUME T # {} PROVE FALSE
  OBVIOUS
<1>1. PICK U \in T : \A V \in T : V \subseteq U => V = U
  <2>1. T \in SUBSET SUBSET Jobs
    OBVIOUS
  <2> HIDE DEF T
  <2> QED BY <2>1, SmallestSet
<1>2. PICK j \in U : TRUE
  OBVIOUS
<1>3. \A i \in U : Rank[i] \in Nat
  BY ChannelsAssumption
<1>4. U \ {j} \notin T
  BY <1>1
<1>5. PICK m \in U : \A k \in U \ {j} : Rank[m] =< Rank[k]
  BY <1>3, <1>4
<1>6. (\A k \in U : Rank[j] =< Rank[k]) \/ (\A k \in U : Rank[m] =< Rank[k])
  BY <1>3, <1>5
<1> QED BY <1>6

(* The loop of get_jobs_to_run stops only when nothing is left or there is *)
(* no room.                                                                *)
LEMMA BestFull ==
    ASSUME NEW S \in SUBSET Jobs, NEW n \in Nat, S \ Best(S, n) # {}
    PROVE  Cardinality(Best(S, n)) >= n
<1> DEFINE B == Best(S, n)
           Before(j) == {k \in S : Rank[k] < Rank[j]}
<1>1. B \subseteq S
  BY DEF Best
<1>2. PICK j \in S \ B : \A k \in S \ B : Rank[j] =< Rank[k]
  <2>1. S \ B \in SUBSET Jobs
    OBVIOUS
  <2> QED BY <2>1, Lowest
<1>3. Before(j) \subseteq B
  BY <1>2, ChannelsAssumption
<1>4. ~(Cardinality(Before(j)) < n)
  BY <1>2 DEF Best
<1>5. Before(j) \in SUBSET Jobs /\ B \in SUBSET Jobs
  BY <1>1
<1> HIDE DEF B, Before
<1>6. /\ Cardinality(Before(j)) \in Nat /\ Cardinality(B) \in Nat
      /\ Cardinality(Before(j)) =< Cardinality(B)
  BY <1>3, <1>5, FiniteJobs
<1>7. Cardinality(B) >= n
  BY <1>4, <1>6
<1> QED BY <1>7 DEF B

LEMMA BestSome ==
    ASSUME NEW S \in SUBSET Jobs, S # {}, NEW n \in Nat, n > 0
    PROVE  Best(S, n) # {}
<1>1. PICK j \in S : \A k \in S : Rank[j] =< Rank[k]
  BY Lowest
<1>2. {k \in S : Rank[k] < Rank[j]} = {}
  BY <1>1, ChannelsAssumption
<1>3. Cardinality({k \in S : Rank[k] < Rank[j]}) = 0
  BY <1>2, FS_EmptySet
<1> QED BY <1>3 DEF Best

(* A channel that was visited and could yield has nothing to yield but for *)
(* a job that is blocked.                                                  *)
Settled(c) ==
    HasCapacity(c) /\ pause[c] = 0 /\ queue[c] # {} => Blocked(c, queue[c], later[c])

(* Its alarms are still to come.                                           *)
Calm(c) ==
    /\ pause[c] = 0 \/ pause[c] > now
    /\ HasCapacity(c) /\ pause[c] = 0 => \A j \in later[c] : eta[j] > now

Dated == \A c \in Nodes : \A j \in later[c] : eta[j] # 0
PauseThrottled == \A c \in Nodes : pause[c] # 0 => Throttle[c] > 0
ChildrenFirst == \A c \in visited : Children(c) \subseteq visited

RoundInv ==
    /\ IInv
    /\ Dated /\ PauseThrottled /\ ChildrenFirst
    /\ \A c \in visited : Settled(c)
    /\ visited # Nodes => \A c \in visited : Calm(c)

LEMMA RoundInit == Init => RoundInv
BY IInvInit, ChannelsAssumption
   DEF Init, RoundInv, Dated, PauseThrottled, ChildrenFirst

(* The eta queue of a channel has jobs of that home only, which no other   *)
(* channel has.                                                            *)
LEMMA LaterOnce ==
    ASSUME IInv, NEW c \in Nodes, NEW j \in later[c], NEW d \in Nodes, d # c
    PROVE  j \in Jobs /\ ~Waits(j, d)
<1>1. j \in Jobs
  BY DEF IInv, TypeOK
<1>2. Waits(j, c)
  BY DEF Waits
<1> QED BY <1>1, <1>2, HomePath DEF IInv, Flows, WaitsOn, RunsOn, IsOut

LEMMA DatedNotify ==
    ASSUME RoundInv, NEW j \in Jobs, Notify(j)
    PROVE  Dated'
<1> SUFFICES ASSUME NEW c \in Nodes, NEW k \in Jobs, k \in later'[c] PROVE eta'[k] # 0
  BY TypeNotify DEF Dated, RoundInv, IInv, TypeOK
<1>1. CASE k # j
  BY <1>1, NotifyFiles DEF RoundInv, IInv, TypeOK, Notify, Dated
<1>2. CASE k = j
  <2> DEFINE fresh == ~Known(j) \/ row[j].eta # eta[j]
  <2>0. /\ eta'[j] = row[j].eta /\ Flows(j)
        /\ later \in [Nodes -> SUBSET Jobs]
    BY DEF Notify, RoundInv, IInv, TypeOK
  <2>1. j \in later[c] => c \in Path[Home[j]]
    BY <2>0, OnlyOnPath DEF Waits
  <2>2. CASE FileNothing(j)
    BY <1>2, <2>0, <2>1, <2>2, WithoutElsewhere DEF FileNothing
  <2>3. CASE FilePending(j, fresh)
    <3>1. CASE UNCHANGED <<queue, later, running, failed>> /\ ~fresh
      BY <1>2, <2>0, <3>1 DEF RoundInv, Dated
    <3>2. CASE QueueAnew(j)
      BY <1>2, <2>0, <2>1, <3>2, WithoutElsewhere DEF QueueAnew
    <3> QED BY <2>3, <3>1, <3>2 DEF FilePending
  <2>4. CASE row[j].state = "running" /\ FileRunning(j, fresh)
    <3>1. RunsOn(j)
      BY <2>0, <2>4, RootRunsAll DEF RoundInv, IInv, SentRuns
    <3> QED BY <1>2, <2>0, <2>4, <3>1 DEF FileRunning, RunsOn, Waits
  <2>5. CASE FileFailed(j, fresh)
    <3>1. CASE UNCHANGED <<queue, later, running, failed>> /\ ~fresh /\ j \in failed[Home[j]]
      BY <1>2, <2>0, <3>1, HomePath DEF Flows, WaitsOn, RunsOn, IsOut, Waits
    <3>2. CASE later' = Without(later, j)
      BY <1>2, <2>0, <2>1, <3>2, WithoutElsewhere
    <3> QED BY <2>5, <3>1, <3>2 DEF FileFailed
  <2> QED BY <2>2, <2>3, <2>4, <2>5 DEF Notify
<1> QED BY <1>1, <1>2

LEMMA RoundNotify ==
    ASSUME RoundInv, NEW j \in Jobs, Notify(j)
    PROVE  RoundInv'
<1>1. visited = {} /\ visited' = {} /\ pause' = pause
  BY DEF Notify
<1>2. IInv'
  BY IInvNotify DEF RoundInv
<1>3. PauseThrottled'
  BY <1>1 DEF RoundInv, PauseThrottled
<1> QED BY <1>1, <1>2, <1>3, DatedNotify DEF RoundInv, ChildrenFirst

LEMMA RoundRestart == RoundInv /\ Restart => RoundInv'
<1> SUFFICES ASSUME RoundInv, Restart PROVE RoundInv'
  OBVIOUS
<1>1. IInv' /\ visited' = {} /\ (pause' = pause \/ pause' = [c \in Nodes |-> 0])
  BY IInvRestart DEF RoundInv, Restart
<1>2. Dated'
  BY DEF Dated, Restart
<1>3. PauseThrottled'
  BY <1>1, ChannelsAssumption DEF RoundInv, PauseThrottled
<1> QED BY <1>1, <1>2, <1>3 DEF RoundInv, ChildrenFirst

LEMMA RoundIdle ==
    ASSUME RoundInv, IInv', UNCHANGED memory,
           visited' = visited \/ visited' = {}, now' = now \/ visited \in {{}, Nodes}
    PROVE  RoundInv'
<1>1. Dated' /\ PauseThrottled' /\ ChildrenFirst'
  BY DEF RoundInv, memory, Dated, PauseThrottled, ChildrenFirst
<1>2. \A c \in visited' : Settled(c)'
  BY DEF RoundInv, memory, Settled, HasCapacity, Blocked, Earliest
<1>3. visited' # Nodes => \A c \in visited' : Calm(c)'
  BY DEF RoundInv, memory, Calm, HasCapacity
<1> QED BY <1>1, <1>2, <1>3 DEF RoundInv

LEMMA RoundVisit ==
    ASSUME RoundInv, NEW c \in Nodes, Visit(c)
    PROVE  RoundInv' /\ \A d \in visited' : Calm(d)'
<1> DEFINE out == Yielded(c, {}, now)
           asked == ~Resting(c, now) /\ HasCapacity(c)
           due == IF asked THEN Due(c, now) ELSE {}
           ready == queue[c] \cup Due(c, now)
           rest == later[c] \ Due(c, now)
<1>1. TypeOK /\ TypeOK' /\ IInv' /\ IInv
  BY IInvVisit DEF RoundInv, IInv
<1>2. /\ out = IF ~asked \/ Blocked(c, ready, rest) THEN {} ELSE Best(ready, Room(c))
      /\ out \subseteq queue[c] \cup due /\ due \subseteq later[c]
      /\ ready \in SUBSET Jobs
  <2>1. queue[c] \cup {} \cup Due(c, now) = ready
    OBVIOUS
  <2> QED BY <1>1, <2>1 DEF Yielded, Best, Due, TypeOK
<1>3. /\ c \notin visited /\ Children(c) \subseteq visited
      /\ visited' = visited \cup {c} /\ failed' = failed /\ now' = now
      /\ later'[c] = later[c] \ due
      /\ queue'[c] = (queue[c] \cup due) \ out
      /\ running'[c] = running[c] \cup out
      /\ pause'[c] = PauseAfter(c, out)
      /\ \A j \in Jobs : eta'[j] = IF j \in due THEN 0 ELSE eta[j]
      /\ \A d \in Nodes \ {c} : /\ later'[d] = later[d] /\ running'[d] = running[d]
                                /\ pause'[d] = pause[d]
                                /\ ~(c # Root /\ d = Parent[c]) => queue'[d] = queue[d]
  BY <1>1 DEF Visit, TypeOK
<1> HIDE DEF out, asked, due, ready, rest
<1>4. \A d \in Nodes : \A j \in later'[d] : eta'[j] = eta[j] /\ j \in later[d] /\ j \in Jobs
  <2> SUFFICES ASSUME NEW d \in Nodes, NEW j \in later'[d]
               PROVE  j \notin due /\ j \in later[d] /\ j \in Jobs
    BY <1>3
  <2>1. CASE d = c
    BY <1>1, <1>3, <2>1 DEF TypeOK
  <2>2. CASE d # c
    <3>1. j \in later[d] /\ j \in Jobs
      BY <1>1, <1>3, <2>2 DEF TypeOK
    <3>2. ~Waits(j, c)
      BY <1>1, <2>2, <3>1, LaterOnce
    <3> QED BY <1>2, <3>1, <3>2 DEF Waits
  <2> QED BY <2>1, <2>2
<1>5. Dated'
  BY <1>4 DEF RoundInv, Dated
<1>6. PauseThrottled'
  <2>1. pause'[c] # 0 => Throttle[c] > 0
    BY <1>3, ChannelsAssumption DEF RoundInv, PauseThrottled, PauseAfter
  <2> QED BY <1>3, <2>1 DEF RoundInv, PauseThrottled
<1>7. ChildrenFirst'
  BY <1>3 DEF RoundInv, ChildrenFirst
<1>8. \A d \in visited : d \in Nodes /\ d # c /\ ~(c # Root /\ d = Parent[c])
  <2>1. \A d \in visited : d \in Nodes /\ d # c
    BY <1>1, <1>3 DEF TypeOK
  <2>2. c # Root => c \in Children(Parent[c])
    BY DEF Children
  <2> QED BY <1>3, <2>1, <2>2 DEF RoundInv, ChildrenFirst
<1>9. \A d \in visited : /\ queue'[d] = queue[d] /\ later'[d] = later[d]
                         /\ pause'[d] = pause[d]
                         /\ HasCapacity(d)' <=> HasCapacity(d)
  BY <1>3, <1>8 DEF HasCapacity
(* The channel itself, once visited.                                       *)
<1>10. HasCapacity(c)' => HasCapacity(c)
  <2> SUFFICES ASSUME HasCapacity(c)' PROVE HasCapacity(c)
    OBVIOUS
  <2>1. CASE Capacity[c] # 0
    <3>1. running[c] \in SUBSET running'[c] /\ running'[c] \in SUBSET Jobs
      BY <1>1, <1>3 DEF TypeOK
    <3>2. /\ Cardinality(running[c]) \in Nat /\ Cardinality(running'[c]) \in Nat
          /\ Cardinality(running[c]) =< Cardinality(running'[c])
      BY <3>1, FiniteJobs
    <3> QED BY <1>3, <2>1, <3>2, ChannelsAssumption DEF HasCapacity
  <2>2. CASE Capacity[c] = 0
    BY <1>3, <2>2 DEF HasCapacity
  <2> QED BY <2>1, <2>2
<1>11. pause'[c] = 0 => /\ ~Resting(c, now)
                        /\ Throttle[c] > 0 => out = {}
  <2>1. Throttle[c] \in Nat /\ now \in Nat /\ pause[c] \in Nat
    BY <1>1, ChannelsAssumption DEF TypeOK, Times
  <2> QED BY <1>3, <2>1 DEF PauseAfter, Resting
<1>12. Calm(c)'
  <2>1. Throttle[c] \in Nat /\ now \in Nat /\ pause[c] \in Nat
    BY <1>1, ChannelsAssumption DEF TypeOK, Times
  <2>2. pause'[c] = 0 \/ pause'[c] > now'
    BY <1>3, <2>1 DEF PauseAfter, Resting, RoundInv, PauseThrottled
  <2>3. ASSUME HasCapacity(c)', pause'[c] = 0, NEW j \in later'[c] PROVE eta'[j] > now'
    <3>1. due = Due(c, now)
      BY <1>10, <1>11, <2>3 DEF asked, due
    <3>2. j \in later[c] /\ j \notin Due(c, now) /\ eta'[j] = eta[j] /\ j \in Jobs
      BY <1>3, <1>4, <2>3, <3>1
    <3>3. eta[j] \in Nat
      BY <1>1, <3>2 DEF TypeOK, Times
    <3> QED BY <1>3, <2>1, <3>2, <3>3 DEF Due
  <2> QED BY <2>2, <2>3 DEF Calm
<1>13. ASSUME NEW d \in visited' PROVE Calm(d)'
  <2>1. visited # Nodes
    BY <1>3, <1>8
  <2>2. CASE d = c
    BY <1>12, <2>2
  <2>3. CASE d # c
    BY <1>3, <1>4, <1>8, <1>9, <2>1, <2>3 DEF RoundInv, Calm
  <2> QED BY <2>2, <2>3
<1>14. Settled(c)'
  <2> SUFFICES ASSUME HasCapacity(c)', pause'[c] = 0, queue'[c] # {}
               PROVE  Blocked(c, queue[c], later[c])'
    BY DEF Settled
  <2>1. asked /\ due = Due(c, now) /\ (Throttle[c] > 0 => out = {})
    BY <1>10, <1>11 DEF asked, due
  <2>2. queue'[c] = ready \ out /\ later'[c] = rest
    BY <1>3, <2>1 DEF ready, rest
  <2>3. CASE Blocked(c, ready, rest)
    <3>1. out = {} /\ queue'[c] = ready
      BY <1>2, <2>2, <2>3
    <3>2. rest \in SUBSET Jobs /\ rest # {} /\ \A j \in rest : eta'[j] = eta[j]
      BY <1>1, <1>4, <2>2, <2>3 DEF Blocked, TypeOK
    <3>3. (CHOOSE j \in rest : \A k \in rest : \/ eta'[j] < eta'[k]
                                               \/ eta'[j] = eta'[k] /\ Rank[j] =< Rank[k])
             = Earliest(rest)
      <4>1. \A j \in rest : (\A k \in rest : \/ eta'[j] < eta'[k]
                                             \/ eta'[j] = eta'[k] /\ Rank[j] =< Rank[k])
                        <=> (\A k \in rest : \/ eta[j] < eta[k]
                                             \/ eta[j] = eta[k] /\ Rank[j] =< Rank[k])
        BY <3>2
      <4> QED BY ONLY <4>1, Zenon DEF Earliest
    <3> QED BY <2>2, <2>3, <3>1, <3>3 DEF Blocked, Earliest
  <2>4. CASE ~Blocked(c, ready, rest)
    <3>1. out = Best(ready, Room(c)) /\ ready \ Best(ready, Room(c)) # {}
      BY <1>2, <2>1, <2>2, <2>4
    <3>2. ready # {} /\ Cardinality(Jobs) \in Nat
      BY <3>1, FiniteJobs
    <3>3. CASE Throttle[c] > 0
      <4>1. Room(c) = 1
        BY <3>3 DEF Room
      <4>2. Best(ready, 1) # {}
        BY <1>2, <3>2, BestSome
      <4> QED BY <2>1, <3>1, <3>3, <4>1, <4>2
    <3>4. CASE Throttle[c] = 0 /\ Capacity[c] = 0
      <4>1. Room(c) = Cardinality(Jobs)
        BY <3>4 DEF Room
      <4>2. Cardinality(out) >= Cardinality(Jobs)
        BY <1>2, <3>1, <3>2, <4>1, BestFull
      <4>3. out \in SUBSET Jobs /\ out # Jobs
        BY <1>2, <3>1 DEF Best
      <4>4. Cardinality(out) =< Cardinality(Jobs) /\ Cardinality(out) \in Nat
            /\ (Cardinality(Jobs) = Cardinality(out) => Jobs = out)
        BY <4>3, FiniteJobs, FS_Subset
      <4> QED BY <3>2, <4>2, <4>3, <4>4
    <3>5. CASE Throttle[c] = 0 /\ Capacity[c] # 0
      <4>1. /\ Cardinality(running[c]) < Capacity[c] /\ Capacity[c] \in Nat
            /\ Cardinality(running'[c]) < Capacity[c]
        BY <2>1, <3>5, ChannelsAssumption DEF HasCapacity, asked
      <4>2. running[c] \in SUBSET Jobs /\ out \in SUBSET Jobs /\ running[c] \cap out = {}
        <5>1. running[c] \in SUBSET Jobs /\ out \in SUBSET Jobs
          BY <1>1, <1>2, <3>1 DEF TypeOK, Best
        <5>2. \A j \in out : Waits(j, c)
          BY <1>2 DEF Waits
        <5> QED BY <1>1, <5>1, <5>2, HomePath DEF IInv, Flows, WaitsOn, RunsOn, IsOut
      <4>3. Cardinality(running[c]) \in Nat /\ Cardinality(out) \in Nat
            /\ IsFiniteSet(running[c]) /\ IsFiniteSet(out)
        BY <4>2, FiniteJobs
      <4>4. Cardinality(running'[c]) = Cardinality(running[c]) + Cardinality(out)
        <5>1. Cardinality(running[c] \cap out) = 0
          BY <4>2, FS_EmptySet
        <5>2. Cardinality(running[c] \cup out)
                = Cardinality(running[c]) + Cardinality(out) - Cardinality(running[c] \cap out)
          BY <4>3, FS_Union
        <5> QED BY <1>3, <4>3, <5>1, <5>2
      <4>5. Room(c) = Capacity[c] - Cardinality(running[c]) /\ Room(c) \in Nat
        BY <3>5, <4>1, <4>3 DEF Room
      <4>6. Cardinality(out) >= Room(c)
        BY <1>2, <3>1, <4>5, BestFull
      <4> QED BY <4>1, <4>3, <4>4, <4>5, <4>6
    <3> QED BY <3>3, <3>4, <3>5, ChannelsAssumption
  <2> QED BY <2>3, <2>4
<1>15. ASSUME NEW d \in visited PROVE Settled(d)'
  <2> SUFFICES ASSUME HasCapacity(d)', pause'[d] = 0, queue'[d] # {}
               PROVE  Blocked(d, queue[d], later[d])'
    BY DEF Settled
  <2>1. Blocked(d, queue[d], later[d])
    BY <1>9 DEF RoundInv, Settled
  <2>2. d \in Nodes /\ queue'[d] = queue[d] /\ later'[d] = later[d]
    BY <1>8, <1>9
  <2>3. \A j \in later[d] : eta'[j] = eta[j]
    BY <1>4, <2>2
  <2>4. later[d] \in SUBSET Jobs /\ later[d] # {}
    BY <1>1, <2>1, <2>2 DEF TypeOK, Blocked
  <2>5. (CHOOSE j \in later[d] : \A k \in later[d] :
            \/ eta'[j] < eta'[k]
            \/ eta'[j] = eta'[k] /\ Rank[j] =< Rank[k]) = Earliest(later[d])
    <3>1. \A j \in later[d] : (\A k \in later[d] : \/ eta'[j] < eta'[k]
                                                   \/ eta'[j] = eta'[k] /\ Rank[j] =< Rank[k])
                          <=> (\A k \in later[d] : \/ eta[j] < eta[k]
                                                   \/ eta[j] = eta[k] /\ Rank[j] =< Rank[k])
      BY <2>3
    <3> QED BY ONLY <3>1, Zenon DEF Earliest
  <2> QED BY <2>1, <2>2, <2>5 DEF Blocked, Earliest
<1> QED BY <1>1, <1>3, <1>5, <1>6, <1>7, <1>13, <1>14, <1>15 DEF RoundInv

LEMMA RoundStep == RoundInv /\ [Next]_vars => RoundInv'
<1> SUFFICES ASSUME RoundInv, [Next]_vars PROVE RoundInv'
  OBVIOUS
<1>1. IInv'
  BY IInvStep DEF RoundInv
<1>2. ASSUME NEW j \in Jobs, RowChange(j) PROVE RoundInv'
  <2>1. UNCHANGED <<memory, visited, now>>
    BY <1>2 DEF RowChange, Delay, Succeed, Fail, Postpone, GiveBack, Requeue, SetDone, Change
  <2> QED BY <1>1, <2>1, RoundIdle DEF memory
<1>3. CASE Wake
  BY <1>1, <1>3, RoundIdle DEF Wake, memory
<1>4. CASE Tick
  BY <1>1, <1>4, RoundIdle DEF Tick, memory
<1>5. CASE UNCHANGED vars
  BY <1>1, <1>5, RoundIdle DEF vars, memory
<1> QED BY <1>2, <1>3, <1>4, <1>5, RoundNotify, RoundVisit, RoundRestart DEF Next

LEMMA RoundInvariant == Spec => []RoundInv
BY RoundInit, RoundStep, PTL DEF Spec

-----------------------------------------------------------------------------
(* Alarms.                                                                 *)

(* What a channel asks of the runner, given what its children ask.         *)
Asked(c, below) ==
    IF ~HasCapacity(c) THEN {}
    ELSE IF pause[c] # 0 THEN {pause[c]}
    ELSE {eta[j] : j \in later[c]} \cup below

LEMMA AlarmsByChannel ==
    ASSUME TypeOK
    PROVE  \E g : /\ Alarms = g[Root]
                  /\ \A c \in Nodes : g[c] = Asked(c, Gather(g, c))
<1> DEFINE Eq(g) == g = [c \in Nodes |->
                           IF ~HasCapacity(c) THEN {}
                           ELSE IF pause[c] # 0 THEN {pause[c]}
                           ELSE {eta[j] : j \in later[c]} \cup Gather(g, c)]
           F == [x \in Nodes \X SUBSET Nat |-> Asked(x[1], x[2])]
           a == CHOOSE g : Eq(g)
<1>1. F \in [Nodes \X SUBSET Nat -> SUBSET Nat]
  BY DEF Asked, TypeOK, Times
<1>2. \A c \in Nodes, s \in SUBSET Nat : F[<<c, s>>] = Asked(c, s)
  OBVIOUS
<1> HIDE DEF F
<1>3. PICK g \in [Nodes -> SUBSET Nat] : Solves(g, F)
  BY <1>1, TreeRecursion
<1>4. \A c \in Nodes : g[c] = Asked(c, Gather(g, c))
  <2> SUFFICES ASSUME NEW c \in Nodes
               PROVE  g[c] = Asked(c, Gather(g, c))
    OBVIOUS
  <2>1. Gather(g, c) \in SUBSET Nat
    BY DEF Children, Gather
  <2> QED BY <1>2, <1>3, <2>1 DEF Solves
<1>5. Eq(g)
  BY <1>3, <1>4 DEF Asked
<1>6. Eq(a)
  <2> HIDE DEF Eq
  <2> QED BY <1>5
<1>7. Alarms = a[Root]
  BY DEF Alarms, Gather
<1> HIDE DEF a
<1>8. \A c \in Nodes : a[c] = Asked(c, Gather(a, c))
  BY <1>6 DEF Asked
<1> QED BY <1>7, <1>8

(* The earliest alarm is a number, if there is one.                        *)
LEMMA FirstAlarm ==
    ASSUME Alarms \subseteq Nat \ {0}
    PROVE  /\ WakeupTime # 0 => WakeupTime \in Alarms
           /\ \A u \in Alarms : WakeupTime \in 1..u
<1> DEFINE Less == {p \in Nat \X Nat : p[1] < p[2]}
<1>1. CASE Alarms = {}
  BY <1>1 DEF WakeupTime
<1>2. CASE Alarms # {}
  <2>1. IsWellFoundedOn(Less, Nat)
    <3>1. OpToRel(<, Nat) = Less
      BY Zenon DEF OpToRel
    <3> QED BY <3>1, NatLessThanWellFounded, Zenon
  <2> HIDE DEF Less
  <2>2. PICK t \in Alarms : \A u \in Alarms : <<u, t>> \notin Less
    BY <1>2, <2>1, WFMin
  <2>3. \A u \in Alarms : t =< u
    <3> SUFFICES ASSUME NEW u \in Alarms, u < t PROVE FALSE
      OBVIOUS
    <3>1. u \in Nat /\ t \in Nat
      OBVIOUS
    <3>2. <<u, t>> \in Less
      BY <3>1 DEF Less
    <3> QED BY <2>2, <3>2
  <2>4. WakeupTime \in Alarms /\ \A u \in Alarms : WakeupTime =< u
    BY <1>2, <2>3 DEF WakeupTime
  <2> QED BY <2>4
<1> QED BY <1>1, <1>2

LEMMA AlarmsPositive ==
    ASSUME RoundInv
    PROVE  Alarms \subseteq Nat \ {0}
<1>0. TypeOK
  BY DEF RoundInv, IInv
<1>1. PICK g : /\ Alarms = g[Root]
               /\ \A c \in Nodes : g[c] = Asked(c, Gather(g, c))
  BY <1>0, AlarmsByChannel
<1> DEFINE S == {c \in Nodes : ~(g[c] \subseteq Nat \ {0})}
<1>2. ASSUME S # {} PROVE FALSE
  <2>1. PICK c \in S : \A d \in Children(c) : d \notin S
    BY <1>2, Bottommost
  <2>2. Gather(g, c) \subseteq Nat \ {0}
    BY <2>1 DEF Children, Gather
  <2>3. \A j \in later[c] : eta[j] \in Nat \ {0}
    BY <1>0 DEF RoundInv, Dated, TypeOK, Times
  <2>4. Asked(c, Gather(g, c)) \subseteq Nat \ {0}
    BY <1>0, <2>2, <2>3 DEF Asked, TypeOK
  <2> QED BY <1>1, <2>4
<1> QED BY <1>1, <1>2, ChannelsAssumption

AllCalm == \A c \in Nodes : Calm(c)

LEMMA CalmWakeup == RoundInv /\ AllCalm => WakeupTime = 0 \/ WakeupTime > now
<1> SUFFICES ASSUME RoundInv, \A c \in Nodes : Calm(c)
             PROVE  WakeupTime = 0 \/ WakeupTime > now
  BY DEF AllCalm
<1>0. TypeOK
  BY DEF RoundInv, IInv
<1>1. PICK g : /\ Alarms = g[Root]
               /\ \A c \in Nodes : g[c] = Asked(c, Gather(g, c))
  BY <1>0, AlarmsByChannel
<1> DEFINE S == {c \in Nodes : \E u \in g[c] : ~(u > now)}
<1>2. ASSUME S # {} PROVE FALSE
  <2>1. PICK c \in S : \A d \in Children(c) : d \notin S
    BY <1>2, Bottommost
  <2>2. \A u \in Gather(g, c) : u > now
    BY <2>1 DEF Children, Gather
  <2>3. \A u \in Asked(c, Gather(g, c)) : u > now
    BY <2>2 DEF Asked, Calm
  <2> QED BY <1>1, <2>1, <2>3
<1>3. \A u \in Alarms : u > now
  BY <1>1, <1>2, ChannelsAssumption
<1> QED BY <1>3, FirstAlarm, AlarmsPositive

(* After a round nothing asks to be woken at once.                         *)
THEOREM RunnerDoesNotSpin == Spec => NoBusyWait
<1>1. ASSUME RoundInv, RoundInv', [Next]_vars, visited # Nodes, visited' = Nodes
      PROVE  WakeupTime' = 0 \/ WakeupTime' > now'
  <2>1. PICK c \in Nodes : Visit(c)
    <3>1. visited' # visited
      BY <1>1
    <3>2. ~\E j \in Jobs : RowChange(j)
      BY <3>1 DEF RowChange, Delay, Succeed, Fail, Postpone, GiveBack, Requeue, SetDone, Change
    <3>3. ~\E j \in Jobs : Notify(j)
      BY <3>1 DEF Notify
    <3>4. ~Wake /\ ~Tick /\ visited' # {}
      BY <1>1, <3>1, ChannelsAssumption DEF Wake, Tick
    <3>5. ~Restart /\ ~UNCHANGED vars
      BY <3>1, <3>4 DEF Restart, vars
    <3> QED BY <1>1, <3>2, <3>3, <3>4, <3>5 DEF Next
  <2>2. AllCalm'
    BY <1>1, <2>1, RoundVisit DEF AllCalm
  <2>3. (RoundInv /\ AllCalm => WakeupTime = 0 \/ WakeupTime > now)'
    BY CalmWakeup, PTL
  <2> QED BY <1>1, <2>2, <2>3
<1> QED BY <1>1, RoundInvariant, PTL DEF NoBusyWait, Spec

-----------------------------------------------------------------------------
(* No job is slept past.                                                   *)

LEMMA SentByChannel ==
    ASSUME TypeOK, NEW t \in Nat
    PROVE  \E g : /\ SentAt(t) = g[Root]
                  /\ \A c \in Nodes : g[c] = Yielded(c, Gather(g, c), t)
<1> DEFINE Eq(g) == g = [c \in Nodes |-> Yielded(c, Gather(g, c), t)]
           F == [x \in Nodes \X SUBSET Jobs |-> Yielded(x[1], x[2], t)]
           a == CHOOSE g : Eq(g)
<1>1. F \in [Nodes \X SUBSET Jobs -> SUBSET Jobs]
  BY DEF Yielded, Best, Due, TypeOK
<1>2. \A c \in Nodes, s \in SUBSET Jobs : F[<<c, s>>] = Yielded(c, s, t)
  OBVIOUS
<1> HIDE DEF F
<1>3. PICK g \in [Nodes -> SUBSET Jobs] : Solves(g, F)
  BY <1>1, TreeRecursion
<1>4. \A c \in Nodes : g[c] = Yielded(c, Gather(g, c), t)
  <2> SUFFICES ASSUME NEW c \in Nodes
               PROVE  g[c] = Yielded(c, Gather(g, c), t)
    OBVIOUS
  <2>1. Gather(g, c) \in SUBSET Jobs
    BY DEF Children, Gather
  <2> QED BY <1>2, <1>3, <2>1 DEF Solves
<1>5. Eq(g)
  BY <1>3, <1>4
<1>6. Eq(a)
  <2> HIDE DEF Eq
  <2> QED BY <1>5
<1>7. SentAt(t) = a[Root]
  BY DEF SentAt, Gather
<1> HIDE DEF a
<1> QED BY <1>6, <1>7

(* A runner that waits is woken before a job could be sent.                *)
THEOREM RunnerDoesNotOversleep == Spec => []NoOversleep
<1>1. RoundInv => NoOversleep
  <2> SUFFICES ASSUME RoundInv, visited = Nodes, NEW t \in now..MaxTime, SentAt(t) # {}
               PROVE  WakeupTime \in 1..t
    BY DEF NoOversleep
  <2>0. TypeOK /\ t \in Nat
    BY ChannelsAssumption DEF RoundInv, IInv, TypeOK, Times
  <2>1. PICK g : /\ Alarms = g[Root]
                 /\ \A c \in Nodes : g[c] = Asked(c, Gather(g, c))
    BY <2>0, AlarmsByChannel
  <2>2. PICK out : /\ SentAt(t) = out[Root]
                   /\ \A c \in Nodes : out[c] = Yielded(c, Gather(out, c), t)
    BY <2>0, SentByChannel
  <2> DEFINE S == {c \in Nodes : out[c] # {} /\ ~\E u \in g[c] : u =< t}
  <2>3. ASSUME S # {} PROVE FALSE
    <3>1. PICK c \in S : \A d \in Children(c) : d \notin S
      BY <2>3, Bottommost
    <3> DEFINE more == Gather(out, c)
               below == Gather(g, c)
               ready == queue[c] \cup more \cup Due(c, t)
               rest == later[c] \ Due(c, t)
    <3>2. Yielded(c, more, t) # {}
      BY <2>2, <3>1
    <3>3. /\ ~Resting(c, t) /\ HasCapacity(c) /\ ~Blocked(c, ready, rest)
          /\ Best(ready, Room(c)) # {}
      BY <3>2 DEF Yielded
    <3>4. g[c] = IF pause[c] # 0 THEN {pause[c]} ELSE {eta[j] : j \in later[c]} \cup below
      BY <2>1, <3>1, <3>3 DEF Asked
    <3>5. CASE pause[c] # 0
      <4>1. Throttle[c] > 0 /\ pause[c] \in Nat
        BY <2>0, <3>5 DEF RoundInv, PauseThrottled, TypeOK
      <4> QED BY <2>0, <3>1, <3>3, <3>4, <3>5, <4>1 DEF Resting
    <3>6. CASE pause[c] = 0
      <4>1. more = {}
        <5> SUFFICES ASSUME NEW d \in Children(c), out[d] # {} PROVE FALSE
          BY DEF Gather
        <5>1. PICK u \in g[d] : u =< t
          BY <3>1 DEF Children
        <5> QED BY <3>1, <3>4, <3>6, <5>1 DEF Gather
      <4>2. Due(c, t) = {}
        BY <3>1, <3>4, <3>6 DEF Due
      <4>3. ready = queue[c] /\ rest = later[c]
        BY <4>1, <4>2
      <4>4. queue[c] # {}
        BY <3>3, <4>3 DEF Best
      <4>5. Settled(c)
        BY DEF RoundInv
      <4> HIDE DEF ready, rest
      <4> QED BY <3>3, <3>6, <4>3, <4>4, <4>5 DEF Settled
    <3> QED BY <3>5, <3>6
  <2>4. PICK u \in Alarms : u =< t
    BY <2>1, <2>2, <2>3, ChannelsAssumption
  <2>5. u \in Nat /\ WakeupTime \in 1..u
    BY <2>4, FirstAlarm, AlarmsPositive
  <2> QED BY <2>0, <2>4, <2>5
<1> QED BY <1>1, RoundInvariant, PTL
=============================================================================
