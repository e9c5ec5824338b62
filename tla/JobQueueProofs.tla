--------------------------- MODULE JobQueueProofs ---------------------------
(***************************************************************************)
(* Proofs about JobQueue, for every set of jobs and requests, every        *)
(* capacity and bound, and any number of disturbances.                     *)
(***************************************************************************)
EXTENDS JobQueue, FiniteSetTheorems, TLAPS

-----------------------------------------------------------------------------
(* Types.                                                                  *)

(* A request that is not idle has a job, and only such a request waits.    *)
GoodCall == {r \in CallRecord : /\ r.pc # "idle" => r.job \in Jobs
                                /\ r.waiting => r.pc # "idle"}

(* The runner holds a picked job exactly between Pick and Send.            *)
Typed ==
    /\ TypeOK
    /\ call \in [Calls -> GoodCall]
    /\ IF runner = "send" THEN picked \in Jobs ELSE picked = None

LEMMA FilingType == \A r \in Row : Filing(r) \in Filings
BY DEF Filing, Row, Filings, States

LEMMA BumpType == \A n \in 0..RetryCap : Bump(n) \in 0..RetryCap /\ n =< Bump(n)
BY JobQueueAssumption DEF Bump

LEMMA AbsentType == \A s \in States : Absent(s) \in Row
BY JobQueueAssumption DEF Absent, Row

LEMMA RequestType ==
    /\ Idle \in GoodCall
    /\ \A j \in Jobs, w \in BOOLEAN, pc \in {"sent", "errored"} :
          Request(pc, j, w) \in GoodCall
BY JobQueueAssumption DEF Idle, Request, GoodCall, CallRecord

LEMMA RowFields ==
    ASSUME NEW r \in Row, NEW s \in States
    PROVE  /\ [r EXCEPT !.state = s] \in Row
           /\ [r EXCEPT !.later = FALSE] \in Row
           /\ [r EXCEPT !.state = s, !.dated = TRUE] \in Row
           /\ [r EXCEPT !.state = s, !.retry = 0] \in Row
<1>1. 0 \in 0..RetryCap
  BY JobQueueAssumption
<1>2. [r EXCEPT !.state = s] \in Row
  BY DEF Row
<1>3. [r EXCEPT !.later = FALSE] \in Row
  BY DEF Row
<1>4. [r EXCEPT !.state = s, !.dated = TRUE] \in Row
  BY DEF Row
<1>5. [r EXCEPT !.state = s, !.retry = 0] \in Row
  BY <1>1 DEF Row
<1> QED BY <1>2, <1>3, <1>4, <1>5

LEMMA CallFields ==
    ASSUME NEW r \in GoodCall
    PROVE  /\ [r EXCEPT !.stale = TRUE] \in GoodCall
           /\ [r EXCEPT !.waiting = FALSE] \in GoodCall
           /\ r.pc = "started" => [r EXCEPT !.pc = "performing"] \in GoodCall
           /\ \A x \in Row : r.pc = "sent" =>
                 [r EXCEPT !.pc = "started", !.retry = x.retry,
                           !.dated = x.dated] \in GoodCall
BY DEF GoodCall, CallRecord, Row

(* Outdated marks snapshots as stale and leaves the rest of a request.     *)
LEMMA OutdatedKeeps ==
    ASSUME call \in [Calls -> GoodCall], NEW j \in Jobs
    PROVE  /\ Outdated(j) \in [Calls -> GoodCall]
           /\ \A c \in Calls : /\ Outdated(j)[c].pc = call[c].pc
                               /\ Outdated(j)[c].job = call[c].job
                               /\ Outdated(j)[c].waiting = call[c].waiting
                               /\ Outdated(j)[c].retry = call[c].retry
                               /\ Outdated(j)[c].dated = call[c].dated
<1>1. Outdated(j) \in [Calls -> GoodCall]
  BY CallFields DEF Outdated
<1>2. ASSUME NEW c \in Calls
      PROVE  LET r == [call[c] EXCEPT !.stale = TRUE]
             IN  /\ r.pc = call[c].pc /\ r.job = call[c].job
                 /\ r.waiting = call[c].waiting
                 /\ r.retry = call[c].retry /\ r.dated = call[c].dated
  BY DEF GoodCall, CallRecord
<1> QED BY <1>1, <1>2 DEF Outdated

LEMMA NotifyType ==
    ASSUME notified \subseteq Jobs, NEW j \in Jobs, Notify(j)
    PROVE  notified' \subseteq Jobs
BY DEF Notify

LEMMA WriteType ==
    ASSUME Typed, NEW j \in Jobs, NEW r \in Row, Write(j, r)
    PROVE  /\ row' \in [Jobs -> Row] /\ notified' \subseteq Jobs
           /\ call' \in [Calls -> GoodCall]
BY OutdatedKeeps, NotifyType DEF Write, Typed, TypeOK

LEMMA GoodCallIsCall == ASSUME NEW f \in [Calls -> GoodCall]
                        PROVE  f \in [Calls -> CallRecord]
BY DEF GoodCall

LEMMA InitTyped == Init => Typed
BY AbsentType, RequestType, GoodCallIsCall
   DEF Init, Typed, TypeOK, States, Filings

LEMMA RunnerStepTyped == Typed /\ RunnerStep => Typed'
<1> SUFFICES ASSUME Typed, RunnerStep PROVE Typed'
    OBVIOUS
<1> USE GoodCallIsCall DEF Typed, TypeOK
<1>1. CASE InitializeDatabases
    BY <1>1, FilingType DEF InitializeDatabases
<1>2. CASE StartRunJobs
    BY <1>2 DEF StartRunJobs
<1>3. ASSUME NEW j \in Jobs, ProcessNotification(j) PROVE Typed'
    BY <1>3, FilingType DEF ProcessNotification
<1>4. ASSUME NEW j \in Jobs, Pick(j) PROVE Typed'
    BY <1>4 DEF Pick, Filings
<1>5. CASE Send
  <2>1. /\ picked \in Jobs /\ picked' = None /\ runner' = "jobs"
        /\ UNCHANGED <<view, disturbed>>
    BY <1>5 DEF Send
  <2>2. row' \in [Jobs -> Row] /\ notified' \subseteq Jobs
    <3>1. [row[picked] EXCEPT !.state = "enqueued"] \in Row
      BY <2>1, RowFields DEF States
    <3>2. CASE Exists(picked)
      BY <1>5, <3>2, <2>1, <3>1, NotifyType DEF Send
    <3>3. CASE ~Exists(picked)
      BY <1>5, <3>3 DEF Send
    <3> QED BY <3>2, <3>3
  <2>3. call' \in [Calls -> GoodCall]
    BY <1>5, <2>1, OutdatedKeeps, RequestType DEF Send
  <2> QED BY <2>1, <2>2, <2>3
<1>6. CASE EndRunJobs
    BY <1>6 DEF EndRunJobs
<1>7. CASE RunnerFails
    BY <1>7 DEF RunnerFails, RunnerForgets, Disturb, Filings
<1>8. CASE RunnerDies
  <2>1. call' \in [Calls -> GoodCall]
    BY <1>8, RequestType, CallFields DEF RunnerDies
  <2>2. /\ runner' = "down" /\ picked' = None /\ notified' = {} /\ row' = row
        /\ view' = [j \in Jobs |-> "absent"] /\ disturbed' = disturbed + 1
    BY <1>8 DEF RunnerDies, RunnerForgets, Disturb
  <2>3. view' \in [Jobs -> Filings]
    BY <2>2 DEF Filings
  <2> QED BY <2>1, <2>2, <2>3
<1> QED BY <1>1, <1>2, <1>3, <1>4, <1>5, <1>6, <1>7, <1>8 DEF RunnerStep

(* What a handler's steps store.                                           *)
LEMMA OutcomesType ==
    ASSUME Typed, NEW c \in Calls, call[c].pc = "performing"
    PROVE  /\ \A n \in 0..RetryCap, d \in BOOLEAN : Postponed(n, d) \in Row
           /\ \A d \in BOOLEAN : Failed(c, d) \in Row
           /\ Dates(c) \subseteq BOOLEAN
           /\ Errored(c) \in GoodCall /\ Answered \in GoodCall
           /\ Attempt(c) \in 0..RetryCap /\ call[c].retry =< Attempt(c)
           /\ call[c].retry \in 0..RetryCap /\ call[c].dated \in BOOLEAN
           /\ call[c].job \in Jobs
<1>1. call[c] \in GoodCall /\ call[c].job \in Jobs
  BY DEF Typed, GoodCall
<1>2. call[c].retry \in 0..RetryCap /\ call[c].dated \in BOOLEAN
  BY <1>1 DEF GoodCall, CallRecord
<1>3. Attempt(c) \in 0..RetryCap /\ call[c].retry =< Attempt(c)
  BY <1>2, BumpType DEF Attempt
<1>4. \A n \in 0..RetryCap, d \in BOOLEAN : Postponed(n, d) \in Row
  BY DEF Postponed, Row, States
<1>5. \A d \in BOOLEAN : Failed(c, d) \in Row
  BY <1>2, <1>3 DEF Failed, Row, States
<1>6. Errored(c) \in GoodCall /\ Answered \in GoodCall
  BY <1>1, RequestType DEF Errored, Answered
<1>7. Dates(c) \subseteq BOOLEAN
  BY <1>2 DEF Dates
<1> QED BY <1>1, <1>2, <1>3, <1>4, <1>5, <1>6, <1>7

(* A job that comes back to pending is stored with its own counter or the  *)
(* next one, a failed one with the next, dated or not.                     *)
LEMMA StoredBack ==
    ASSUME NEW c \in Calls
    PROVE  /\ (JobConflicts(c) \/ JobRetries(c)) =>
                \E d \in Dates(c) :
                    StoreOutcome(c, Postponed(Attempt(c), d), Answered)
           /\ JobRetriesIgnored(c) =>
                \E d \in Dates(c) :
                    StoreOutcome(c, Postponed(call[c].retry, d), Answered)
           /\ JobFails(c) =>
                \E d \in Dates(c) :
                    StoreOutcome(c, Failed(c, d), Errored(c))
<1>1. call[c].dated \in Dates(c)
  BY DEF Dates
<1> QED BY <1>1 DEF JobConflicts, JobRetries, JobRetriesIgnored, JobFails

LEMMA StoreType ==
    ASSUME Typed, NEW c \in Calls, NEW r \in Row, NEW answer \in GoodCall,
           StoreOutcome(c, r, answer), disturbed' \in Nat
    PROVE  Typed'
<1>1. call[c].job \in Jobs
  BY DEF Typed, GoodCall, StoreOutcome
<1>2. row' \in [Jobs -> Row] /\ notified' \subseteq Jobs
  BY <1>1, NotifyType DEF StoreOutcome, Typed, TypeOK
<1>3. call' \in [Calls -> GoodCall]
  BY <1>1, OutdatedKeeps DEF StoreOutcome, Typed
<1> QED BY <1>2, <1>3, GoodCallIsCall DEF StoreOutcome, Typed, TypeOK

LEMMA DisturbType ==
    ASSUME Typed, NEW kind, Disturb(kind)
    PROVE  disturbed' \in Nat
BY DEF Disturb, Typed, TypeOK

LEMMA CallStepTyped ==
    ASSUME Typed, NEW c \in Calls, CallStep(c)
    PROVE  Typed'
<1> USE GoodCallIsCall DEF Typed, TypeOK
<1>1. CASE ClientGivesUp(c)
  <2>1. call[c] \in GoodCall /\ call[c].job \in Jobs
    BY <1>1 DEF ClientGivesUp, GiveUp, GoodCall
  <2>2. [row[call[c].job] EXCEPT !.state = "pending"] \in Row
    BY <2>1, RowFields DEF States
  <2>3. row' \in [Jobs -> Row] /\ notified' \subseteq Jobs
    BY <1>1, <2>1, <2>2, NotifyType DEF ClientGivesUp, GiveUp
  <2>4. call' \in [Calls -> GoodCall]
    BY <1>1, <2>1, OutdatedKeeps, RequestType, CallFields
       DEF ClientGivesUp, GiveUp
  <2>5. disturbed' \in Nat
    BY <1>1 DEF ClientGivesUp, Disturb
  <2> QED BY <1>1, <2>3, <2>4, <2>5 DEF ClientGivesUp, GiveUp
<1>2. CASE StartJob(c)
  <2>1. call[c] \in GoodCall /\ call[c].job \in Jobs
    BY <1>2 DEF StartJob, GoodCall
  <2>2. [row[call[c].job] EXCEPT !.state = "started"] \in Row
    BY <2>1, RowFields DEF States
  <2>3. row' \in [Jobs -> Row] /\ notified' \subseteq Jobs
    BY <1>2, <2>1, <2>2, NotifyType DEF StartJob
  <2>4. call' \in [Calls -> GoodCall]
    BY <1>2, <2>1, OutdatedKeeps, CallFields DEF StartJob
  <2> QED BY <1>2, <2>3, <2>4 DEF StartJob
<1>3. CASE RefuseJob(c)
  BY <1>3, RequestType DEF RefuseJob, Answered
<1>4. CASE Perform(c)
  <2>1. [call[c] EXCEPT !.pc = "performing"] \in GoodCall
    BY <1>4, CallFields DEF Perform
  <2> QED BY <1>4, <2>1 DEF Perform
<1>5. CASE JobDone(c)
  <2>1. [state |-> "done", retry |-> Attempt(c),
         later |-> FALSE, dated |-> TRUE] \in Row
    BY <1>5, OutcomesType DEF JobDone, StoreOutcome, Row, States
  <2> QED BY <1>5, <2>1, StoreType, OutcomesType DEF JobDone, StoreOutcome
<1>6. CASE JobConflicts(c)
  <2>1. disturbed' \in Nat
    BY <1>6 DEF JobConflicts, Disturb
  <2>2. PICK d \in Dates(c) : StoreOutcome(c, Postponed(Attempt(c), d), Answered)
    BY <1>6, StoredBack
  <2> QED BY <2>1, <2>2, StoreType, OutcomesType DEF StoreOutcome
<1>7. CASE JobRetries(c)
  BY <1>7, StoreType, OutcomesType DEF JobRetries, StoreOutcome
<1>8. CASE JobRetriesIgnored(c)
  <2>1. disturbed' \in Nat
    BY <1>8 DEF JobRetriesIgnored, Disturb
  <2> QED BY <1>8, <2>1, StoreType, OutcomesType
          DEF JobRetriesIgnored, StoreOutcome
<1>9. CASE JobFails(c)
  <2>1. PICK d \in Dates(c) : StoreOutcome(c, Failed(c, d), Errored(c))
    BY <1>9, StoredBack
  <2>2. UNCHANGED disturbed
    BY <1>9 DEF JobFails
  <2> QED BY <2>1, <2>2, StoreType, OutcomesType DEF StoreOutcome
<1>10. CASE NothingToDoConflicts(c)
  BY <1>10, OutcomesType DEF NothingToDoConflicts
<1>11. CASE HandlerDies(c)
  <2>1. call[c] \in GoodCall /\ call[c].job \in Jobs
    BY <1>11 DEF HandlerDies, GoodCall
  <2>2. Errored(c) \in GoodCall
    BY <2>1, RequestType DEF Errored
  <2> QED BY <1>11, <2>2 DEF HandlerDies, Disturb
<1> QED BY <1>1, <1>2, <1>3, <1>4, <1>5, <1>6, <1>7, <1>8, <1>9, <1>10, <1>11,
           CallStep(c)
        DEF CallStep, JobEnds

LEMMA RowStepTyped ==
    ASSUME Typed, NEW j \in Jobs, RowStep(j)
    PROVE  Typed'
<1> USE GoodCallIsCall DEF Typed, TypeOK
<1>1. CASE Enqueue(j)
  <2>1. \A later \in BOOLEAN : [state |-> "pending", retry |-> 0,
                                later |-> later, dated |-> FALSE] \in Row
    BY JobQueueAssumption DEF Row, States
  <2> QED BY <1>1, <2>1, WriteType DEF Enqueue
<1>2. CASE EtaPasses(j)
  <2>1. [row[j] EXCEPT !.later = FALSE] \in Row
    BY DEF Row
  <2>2. row' \in [Jobs -> Row]
    BY <1>2, <2>1 DEF EtaPasses
  <2>3. view' \in [Jobs -> Filings]
    BY <1>2 DEF EtaPasses, Filings
  <2> QED BY <1>2, <2>2, <2>3 DEF EtaPasses
<1>3. CASE ButtonDone(j)
  <2> DEFINE r == [row[j] EXCEPT !.state = "done", !.dated = TRUE]
  <2>1. r \in Row
    BY RowFields DEF States
  <2>2. Write(j, r) /\ UNCHANGED <<view, runner, picked>> /\ disturbed' \in Nat
    BY <1>3 DEF ButtonDone, Disturb
  <2> HIDE DEF r
  <2> QED BY <2>1, <2>2, WriteType
<1>4. CASE Requeue(j)
  <2> DEFINE r == [row[j] EXCEPT !.state = "pending", !.retry = 0]
  <2>1. r \in Row
    BY RowFields DEF States
  <2>2. Write(j, r) /\ UNCHANGED <<view, runner, picked>> /\ disturbed' \in Nat
    BY <1>4 DEF Requeue, Disturb
  <2> HIDE DEF r
  <2> QED BY <2>1, <2>2, WriteType
<1>5. CASE RequeueStuck(j)
  <2> DEFINE r == [row[j] EXCEPT !.state = "pending", !.retry = 0]
  <2>1. r \in Row
    BY RowFields DEF States
  <2>2. Write(j, r) /\ UNCHANGED <<view, runner, picked>> /\ disturbed' \in Nat
    BY <1>5 DEF RequeueStuck
  <2> HIDE DEF r
  <2> QED BY <2>1, <2>2, WriteType
<1>6. CASE Autovacuum(j)
  <2>1. Absent("gone") \in Row
    BY AbsentType DEF States
  <2>2. call' \in [Calls -> GoodCall] /\ notified' \subseteq Jobs
    BY <1>6, OutdatedKeeps, NotifyType DEF Autovacuum
  <2> QED BY <1>6, <2>1, <2>2 DEF Autovacuum, Disturb
<1> QED BY <1>1, <1>2, <1>3, <1>4, <1>5, <1>6, RowStep(j) DEF RowStep

LEMMA CrashTyped == Typed /\ Crash => Typed'
BY RequestType, GoodCallIsCall
   DEF Typed, TypeOK, Crash, RunnerForgets, Disturb, Filings

LEMMA NextTyped == Typed /\ [Next]_vars => Typed'
<1>1. Typed /\ UNCHANGED vars => Typed'
  BY DEF vars, Typed, TypeOK
<1> QED BY <1>1, RunnerStepTyped, CallStepTyped, RowStepTyped, CrashTyped
        DEF Next

(* Every variable of the queue keeps its type, whatever faults happen.     *)
THEOREM TypeCorrect == Spec => []TypeOK
<1>1. Spec => []Typed
  BY InitTyped, NextTyped, PTL DEF Spec
<1>2. Typed => TypeOK
  BY DEF Typed
<1> QED BY <1>1, <1>2, PTL

-----------------------------------------------------------------------------
(* The runner's view of the table.                                         *)

(* ViewConverges, and what keeps it so over Send: a job that was picked    *)
(* and has no notification is still pending in its row.                    *)
Converged ==
    runner # "down" =>
        \A j \in Jobs : j \notin notified =>
            IF j = picked THEN Filing(row[j]) = "queued"
                          ELSE view[j] = Filing(row[j])

(* RunningIsFiled, and the row that Send is about to write enqueued is not *)
(* enqueued or started already.                                            *)
Filed ==
    /\ RunningIsFiled
    /\ runner = "send" => view[picked] = "running" /\ ~IsRunning(picked)

RunningRows == {j \in Jobs : IsRunning(j)}

(* CapacityRespected, and the same of the runner's view.                   *)
Bounded ==
    /\ Cardinality(RunningRows) =< Capacity
    /\ runner # "down" => Cardinality(Running) =< Capacity

Inv == Converged /\ Filed /\ Bounded

LEMMA FiniteJobs ==
    /\ IsFiniteSet(Running) /\ IsFiniteSet(RunningRows)
    /\ Cardinality(Running) \in Nat /\ Cardinality(RunningRows) \in Nat
<1>1. Running \subseteq Jobs /\ RunningRows \subseteq Jobs
  BY DEF Running, RunningRows
<1>2. IsFiniteSet(Running) /\ IsFiniteSet(RunningRows)
  BY <1>1, FS_Subset, JobQueueAssumption
<1> QED BY <1>2, FS_CardinalityType

LEMMA FilingRunning ==
    ASSUME NEW j \in Jobs
    PROVE  Filing(row[j]) = "running" <=> IsRunning(j)
BY DEF Filing, IsRunning

LEMMA InitInv == Init => Inv
<1> SUFFICES ASSUME Init PROVE Inv
  OBVIOUS
<1>1. \A j \in Jobs : ~IsRunning(j)
  BY DEF Init, IsRunning, Absent
<1>2. RunningRows = {}
  BY <1>1 DEF RunningRows
<1>3. Cardinality(RunningRows) = 0
  BY <1>2, FS_EmptySet
<1> QED BY <1>1, <1>3, JobQueueAssumption
        DEF Init, Inv, Converged, Filed, Bounded, RunningIsFiled

(* Fewer running rows under the same view.                                 *)
LEMMA FewerRunning ==
    ASSUME Typed, Inv, UNCHANGED <<view, runner, picked>>,
           \A j \in Jobs : IsRunning(j)' => IsRunning(j)
    PROVE  Filed' /\ Bounded'
<1>1. RunningRows' \subseteq RunningRows
  BY DEF RunningRows
<1>2. /\ Cardinality(RunningRows') =< Cardinality(RunningRows)
      /\ Cardinality(RunningRows') \in Nat
  BY <1>1, FiniteJobs, FS_Subset, FS_CardinalityType
<1>3. Cardinality(RunningRows') =< Capacity
  BY <1>2, FiniteJobs, JobQueueAssumption DEF Inv, Bounded
<1>4. Running' = Running
  BY DEF Running
<1>5. Filed'
  BY DEF Filed, RunningIsFiled, Inv, Typed
<1> QED BY <1>3, <1>4, <1>5 DEF Bounded, Inv

(* A write of one row, by anything but the runner, that does not make it   *)
(* enqueued or started.                                                    *)
LEMMA OneRow ==
    ASSUME Typed, Inv, NEW j \in Jobs, Notify(j),
           \A k \in Jobs : k # j => row'[k] = row[k],
           IsRunning(j)' => IsRunning(j),
           UNCHANGED <<view, runner, picked>>
    PROVE  Inv'
<1>1. \A k \in Jobs : IsRunning(k)' => IsRunning(k)
  BY DEF IsRunning
<1>2. Converged'
  BY DEF Converged, Inv, Notify, Filing
<1> QED BY <1>1, <1>2, FewerRunning DEF Inv

LEMMA NoRow ==
    ASSUME Inv, UNCHANGED <<row, notified, view, runner, picked>>
    PROVE  Inv'
BY DEF Inv, Converged, Filed, Bounded, RunningIsFiled, Running, RunningRows,
       IsRunning

(* The runner forgets everything.                                          *)
LEMMA RunnerForgetsInv ==
    ASSUME Inv, RunnerForgets
    PROVE  Inv'
BY DEF Inv, Converged, Filed, Bounded, RunningIsFiled, RunningRows,
       IsRunning, RunnerForgets

LEMMA InitializeInv ==
    ASSUME Typed, Inv, InitializeDatabases
    PROVE  Inv'
<1>1. \A j \in Jobs : view'[j] = Filing(row[j]) /\ row'[j] = row[j]
  BY DEF InitializeDatabases
<1>2. Running' = RunningRows /\ RunningRows' = RunningRows
  BY <1>1, FilingRunning DEF Running, RunningRows, InitializeDatabases, IsRunning
<1>3. picked' = None /\ \A j \in Jobs : j # picked'
  BY JobQueueAssumption DEF InitializeDatabases, Typed
<1>4. Converged'
  BY <1>1, <1>3 DEF Converged, Filing
<1>5. Filed'
  BY <1>1, FilingRunning DEF InitializeDatabases, Filed, RunningIsFiled, IsRunning
<1> QED BY <1>2, <1>4, <1>5 DEF Inv, Bounded

(* Filing one job again adds nothing to the jobs filed as running.         *)
LEMMA ProcessInv ==
    ASSUME Typed, Inv, NEW j \in Jobs, ProcessNotification(j)
    PROVE  Inv'
<1>1. /\ runner = "notify" /\ picked = None /\ picked # j
      /\ UNCHANGED <<row, runner, picked>> /\ notified' = notified \ {j}
      /\ view' = [view EXCEPT ![j] = Filing(row[j])]
      /\ view \in [Jobs -> Filings]
  BY JobQueueAssumption DEF ProcessNotification, Typed, TypeOK
<1>2. Converged'
  BY <1>1, JobQueueAssumption DEF Converged, Inv, Filing
<1>3. Filed'
  BY <1>1, FilingRunning DEF Filed, RunningIsFiled, Inv, IsRunning
<1>4. Running' \subseteq Running /\ RunningRows' = RunningRows
  BY <1>1, FilingRunning
     DEF Running, RunningRows, Inv, Filed, RunningIsFiled, IsRunning
<1>5. Cardinality(Running') =< Cardinality(Running) /\ Cardinality(Running') \in Nat
  BY <1>4, FiniteJobs, FS_Subset, FS_CardinalityType
<1>6. Bounded'
  BY <1>1, <1>4, <1>5, FiniteJobs, JobQueueAssumption DEF Bounded, Inv
<1> QED BY <1>2, <1>3, <1>6 DEF Inv

LEMMA PickInv ==
    ASSUME Typed, Inv, NEW j \in Jobs, Pick(j)
    PROVE  Inv'
<1>1. /\ runner = "jobs" /\ runner' = "send" /\ picked = None /\ picked' = j
      /\ view[j] = "queued" /\ view' = [view EXCEPT ![j] = "running"]
      /\ view \in [Jobs -> Filings] /\ UNCHANGED <<row, notified>>
      /\ HasCapacity
  BY DEF Pick, Typed, TypeOK
<1>2. ~IsRunning(j)
  BY <1>1 DEF Inv, Filed, RunningIsFiled
<1>3. Converged'
  BY <1>1, JobQueueAssumption DEF Converged, Inv, Filing
<1>4. Filed'
  BY <1>1, <1>2 DEF Filed, RunningIsFiled, Inv, IsRunning
<1>5. Running' = Running \cup {j} /\ j \notin Running /\ RunningRows' = RunningRows
  BY <1>1 DEF Running, RunningRows, IsRunning
<1>6. Cardinality(Running') = Cardinality(Running) + 1
  BY <1>5, FiniteJobs, FS_AddElement
<1>7. Bounded'
  BY <1>1, <1>5, <1>6, FiniteJobs, JobQueueAssumption DEF Bounded, Inv, HasCapacity
<1> QED BY <1>3, <1>4, <1>7 DEF Inv

LEMMA SendInv ==
    ASSUME Typed, Inv, Send
    PROVE  Inv'
<1>1. /\ runner = "send" /\ runner' = "jobs" /\ picked \in Jobs /\ picked' = None
      /\ UNCHANGED view /\ row \in [Jobs -> Row] /\ view[picked] = "running"
      /\ ~IsRunning(picked)
  BY DEF Send, Typed, TypeOK, Inv, Filed
<1>2. \/ /\ Exists(picked) /\ Notify(picked)
         /\ row' = [row EXCEPT ![picked].state = "enqueued"]
      \/ ~Exists(picked) /\ UNCHANGED <<row, notified>>
  BY DEF Send
<1>3. /\ \A k \in Jobs : k # picked => row'[k] = row[k]
      /\ picked \notin notified' => UNCHANGED <<row, notified>> /\ ~Exists(picked)
      /\ \A k \in Jobs : k \in notified => k \in notified'
  BY <1>1, <1>2 DEF Notify
<1>4. Exists(picked) \/ picked \in notified
  BY <1>1, <1>2 DEF Inv, Converged, Filing, Exists
<1>5. picked \in notified'
  BY <1>1, <1>3, <1>4
<1>6. Converged'
  BY <1>1, <1>3, <1>5, JobQueueAssumption DEF Converged, Inv, Filing
<1>7. \A j \in Jobs : IsRunning(j)' => view[j] = "running"
  BY <1>1, <1>3 DEF Inv, Filed, RunningIsFiled, IsRunning
<1>8. Filed'
  BY <1>1, <1>7 DEF Filed, RunningIsFiled
<1>9. RunningRows' \subseteq Running /\ Running' = Running
  BY <1>1, <1>7 DEF RunningRows, Running
<1>10. /\ Cardinality(RunningRows') =< Cardinality(Running)
       /\ Cardinality(RunningRows') \in Nat
  BY <1>9, FiniteJobs, FS_Subset, FS_CardinalityType
<1>11. Bounded'
  BY <1>1, <1>9, <1>10, FiniteJobs, JobQueueAssumption DEF Bounded, Inv
<1> QED BY <1>6, <1>8, <1>11 DEF Inv

LEMMA RunnerStepInv ==
    ASSUME Typed, Inv, RunnerStep
    PROVE  Inv'
<1>1. CASE StartRunJobs
  BY <1>1, JobQueueAssumption
     DEF StartRunJobs, Inv, Converged, Filed, Bounded, RunningIsFiled, Running,
         RunningRows, IsRunning, Typed
<1>2. CASE EndRunJobs
  BY <1>2, JobQueueAssumption
     DEF EndRunJobs, Inv, Converged, Filed, Bounded, RunningIsFiled, Running,
         RunningRows, IsRunning, Typed
<1>3. CASE RunnerFails \/ RunnerDies
  BY <1>3, RunnerForgetsInv DEF RunnerFails, RunnerDies
<1> QED BY <1>1, <1>2, <1>3, InitializeInv, ProcessInv, PickInv, SendInv, RunnerStep
        DEF RunnerStep

LEMMA StoreInv ==
    ASSUME Typed, Inv, NEW c \in Calls, NEW r, NEW answer,
           r.state \in {"pending", "done", "failed"},
           StoreOutcome(c, r, answer)
    PROVE  Inv'
<1>1. call[c].job \in Jobs
  BY DEF Typed, GoodCall, StoreOutcome
<1>2. /\ Notify(call[c].job) /\ row'[call[c].job] = r
      /\ \A k \in Jobs : k # call[c].job => row'[k] = row[k]
      /\ UNCHANGED <<view, runner, picked>>
  BY <1>1 DEF StoreOutcome, Typed, TypeOK
<1> QED BY <1>1, <1>2, OneRow DEF IsRunning

LEMMA CallStepInv ==
    ASSUME Typed, Inv, NEW c \in Calls, CallStep(c)
    PROVE  Inv'
<1>1. CASE ClientGivesUp(c)
  <2>1. call[c].job \in Jobs
    BY <1>1 DEF ClientGivesUp, GiveUp, Typed, GoodCall
  <2>2. CASE row[call[c].job].state = "enqueued"
    <3>1. /\ Notify(call[c].job) /\ row'[call[c].job].state = "pending"
          /\ \A k \in Jobs : k # call[c].job => row'[k] = row[k]
          /\ UNCHANGED <<view, runner, picked>>
      BY <1>1, <2>1, <2>2 DEF ClientGivesUp, GiveUp, Typed, TypeOK, Row
    <3> QED BY <2>1, <3>1, OneRow DEF IsRunning
  <2>3. CASE row[call[c].job].state # "enqueued"
    BY <1>1, <2>3, NoRow DEF ClientGivesUp, GiveUp
  <2> QED BY <2>2, <2>3
<1>2. CASE StartJob(c)
  <2>1. call[c].job \in Jobs /\ IsRunning(call[c].job)
    BY <1>2 DEF StartJob, Typed, GoodCall, IsRunning
  <2>2. /\ Notify(call[c].job)
        /\ \A k \in Jobs : k # call[c].job => row'[k] = row[k]
        /\ UNCHANGED <<view, runner, picked>>
    BY <1>2, <2>1 DEF StartJob, Typed, TypeOK
  <2> QED BY <2>1, <2>2, OneRow
<1>3. CASE RefuseJob(c) \/ Perform(c) \/ NothingToDoConflicts(c) \/ HandlerDies(c)
  BY <1>3, NoRow DEF RefuseJob, Perform, NothingToDoConflicts, HandlerDies
<1>4. CASE JobDone(c)
  BY <1>4, StoreInv DEF JobDone
<1>5. CASE JobConflicts(c) \/ JobRetries(c) \/ JobRetriesIgnored(c)
  <2>1. \A n, d : Postponed(n, d).state = "pending"
    BY DEF Postponed
  <2> QED BY <1>5, <2>1, StoredBack, StoreInv
<1>6. CASE JobFails(c)
  <2>1. \A d : Failed(c, d).state = "failed"
    BY DEF Failed
  <2> QED BY <1>6, <2>1, StoredBack, StoreInv
<1> QED BY <1>1, <1>2, <1>3, <1>4, <1>5, <1>6, CallStep(c) DEF CallStep, JobEnds

LEMMA RowStepInv ==
    ASSUME Typed, Inv, NEW j \in Jobs, RowStep(j)
    PROVE  Inv'
<1>1. ASSUME NEW r, Write(j, r), r.state \in {"pending", "done"},
             UNCHANGED <<view, runner, picked>>
      PROVE  Inv'
  BY <1>1, OneRow DEF Write, IsRunning, Typed, TypeOK
<1>2. row[j] \in Row
  BY DEF Typed, TypeOK
<1>3. CASE Enqueue(j)
  BY <1>1, <1>3 DEF Enqueue
<1>4. CASE EtaPasses(j)
  <2>1. /\ \A k \in Jobs : row'[k].state = row[k].state
        /\ \A k \in Jobs : k # j => row'[k] = row[k] /\ view'[k] = view[k]
        /\ row'[j] = [row[j] EXCEPT !.later = FALSE]
        /\ view'[j] = IF view[j] = "delayed" THEN "queued" ELSE view[j]
        /\ view \in [Jobs -> Filings] /\ view' \in [Jobs -> Filings]
        /\ UNCHANGED <<notified, runner, picked>>
    BY <1>2, <1>4 DEF EtaPasses, Typed, TypeOK, Filings, Row
  <2>2. /\ row'[j].later = FALSE /\ row'[j].state = row[j].state
    BY <1>2, <2>1 DEF Row
  <2>3. Converged'
    <3>1. \A k \in Jobs : k # j => Filing(row'[k]) = Filing(row[k]) /\ view'[k] = view[k]
      BY <2>1
    <3>2. /\ Filing(row[j]) = "queued" => Filing(row'[j]) = "queued"
          /\ view[j] = Filing(row[j]) => view'[j] = Filing(row'[j])
      BY <2>1, <2>2 DEF Filing
    <3>3. UNCHANGED <<notified, runner, picked>>
      BY <2>1
    <3> QED BY <3>1, <3>2, <3>3 DEF Converged, Inv
  <2>4. RunningRows' = RunningRows /\ Running' = Running
    BY <2>1 DEF RunningRows, Running, IsRunning
  <2>5. Filed'
    BY <2>1, JobQueueAssumption DEF Filed, RunningIsFiled, IsRunning, Inv, Typed
  <2> QED BY <2>1, <2>3, <2>4, <2>5 DEF Inv, Bounded
<1>5. CASE ButtonDone(j)
  BY <1>1, <1>2, <1>5 DEF ButtonDone, Row
<1>6. CASE Requeue(j)
  BY <1>1, <1>2, <1>6 DEF Requeue, Row
<1>7. CASE RequeueStuck(j)
  BY <1>1, <1>2, <1>7 DEF RequeueStuck, Row
<1>8. CASE Autovacuum(j)
  <2>1. /\ row'[j] = Absent("gone") /\ ~IsRunning(j)'
        /\ \A k \in Jobs : k # j => row'[k] = row[k]
        /\ UNCHANGED <<view, runner, picked>>
    BY <1>8 DEF Autovacuum, Typed, TypeOK, IsRunning, Absent
  <2>2. CASE row[j].state = "done"
    <3>1. Filing(row'[j]) = "absent" /\ Filing(row[j]) = "absent"
      BY <2>1, <2>2 DEF Filing, Absent
    <3>2. Converged'
      BY <1>8, <2>1, <2>2, <3>1 DEF Converged, Inv, Autovacuum, Filing
    <3> QED BY <2>1, <3>2, FewerRunning DEF IsRunning, Inv
  <2>3. CASE row[j].state # "done"
    BY <1>8, <2>1, <2>3, OneRow DEF Autovacuum
  <2> QED BY <2>2, <2>3
<1> QED BY <1>3, <1>4, <1>5, <1>6, <1>7, <1>8, RowStep(j) DEF RowStep

LEMMA NextInv == Typed /\ Inv /\ [Next]_vars => Inv'
<1>1. Inv /\ UNCHANGED vars => Inv'
  BY NoRow DEF vars
<1>2. Inv /\ Crash => Inv'
  BY RunnerForgetsInv DEF Crash
<1> QED BY <1>1, <1>2, RunnerStepInv, CallStepInv, RowStepInv DEF Next

LEMMA Invariance == Spec => [](Typed /\ Inv)
BY InitTyped, NextTyped, InitInv, NextInv, PTL DEF Spec

(* The runner's view of a job is wrong only while a notification of it is  *)
(* on its way or its request is about to be sent.                          *)
THEOREM ViewIsCurrent == Spec => []ViewConverges
<1>1. Inv => ViewConverges
  BY DEF Inv, Converged, ViewConverges
<1> QED BY <1>1, Invariance, PTL

(* Enqueued and started rows are always filed as running by a live runner. *)
THEOREM RunningFiled == Spec => []RunningIsFiled
<1>1. Inv => RunningIsFiled
  BY DEF Inv, Filed
<1> QED BY <1>1, Invariance, PTL

(* No more rows are enqueued or started than the channel has capacity for. *)
THEOREM CapacityHolds == Spec => []CapacityRespected
<1>1. Inv => CapacityRespected
  BY DEF Inv, Bounded, RunningRows, CapacityRespected
<1> QED BY <1>1, Invariance, PTL

-----------------------------------------------------------------------------
(* What JobQueue guarantees when jobs that run are left alone (Careful):   *)
(* exclusive runs, retry counters that never go back, final outcomes, and  *)
(* with them that it implements JobService.                                *)

(* A handler that runs a job owns its row: the row is started, or deleted, *)
(* and counts no more attempts than the handler's copy.                    *)
Owned ==
    /\ \A c \in Calls : Executing(c) =>
          /\ row[call[c].job].state \in {"started", "gone"}
          /\ row[call[c].job].retry =< call[c].retry
    /\ NoDoubleExecution
    /\ \A j \in Jobs : row[j].state = "new" => row[j].retry = 0

LEMMA InitOwned == Init => Owned
BY DEF Init, Owned, NoDoubleExecution, Executing, Idle, Request, Absent

(* The handlers that run something, and what they run, stay the same, or   *)
(* some of them end.                                                       *)
SameOrFewer ==
    \A c \in Calls : Executing(c)' =>
        /\ Executing(c)
        /\ call'[c].job = call[c].job /\ call'[c].retry = call[c].retry

LEMMA NumbersOfCalls ==
    ASSUME Typed
    PROVE  /\ \A c \in Calls : call[c].retry \in Nat
           /\ \A j \in Jobs : row[j].retry \in Nat
BY JobQueueAssumption DEF Typed, TypeOK, GoodCall, CallRecord, Row

(* A step that writes no row of a job that is run.                         *)
LEMMA OwnedKept ==
    ASSUME Typed, Owned, SameOrFewer,
           \A c \in Calls : Executing(c)' =>
              \/ row'[call[c].job] = row[call[c].job]
              \/ row'[call[c].job].state = "gone" /\ row'[call[c].job].retry = 0,
           \A j \in Jobs : row'[j].state = "new" => row'[j].retry = 0
    PROVE  Owned'
<1>1. \A c \in Calls : Executing(c)' =>
          /\ row'[call'[c].job].state \in {"started", "gone"}
          /\ row'[call'[c].job].retry =< call'[c].retry
  BY NumbersOfCalls DEF Owned, SameOrFewer
<1>2. NoDoubleExecution'
  BY DEF NoDoubleExecution, Owned, SameOrFewer
<1> QED BY <1>1, <1>2 DEF Owned

LEMMA OutdatedSame ==
    ASSUME Typed, NEW j \in Jobs, call' = Outdated(j)
    PROVE  SameOrFewer /\ Busy' = Busy
<1>1. \A c \in Calls : call'[c].pc = call[c].pc /\ call'[c].job = call[c].job
                       /\ call'[c].retry = call[c].retry
  BY OutdatedKeeps DEF Typed
<1>2. SameOrFewer
  BY <1>1 DEF SameOrFewer, Executing
<1>3. Busy' = Busy
  BY <1>1 DEF Busy, NotExecuting, Executing
<1> QED BY <1>2, <1>3

-----------------------------------------------------------------------------
(* The step of the service that a step of the queue is.                    *)

ServiceStep == Service!Next \/ UNCHANGED <<[j \in Jobs |-> Phase(row[j].state)], Busy>>

PhaseOf(j) == Phase(row[j].state)

LEMMA PhaseKept ==
    ASSUME \A j \in Jobs : PhaseOf(j)' = PhaseOf(j), Busy' = Busy
    PROVE  ServiceStep
BY DEF ServiceStep, PhaseOf

(* The phase of one job changes.                                           *)
LEMMA PhaseMoved ==
    ASSUME NEW j \in Jobs, NEW to, PhaseOf(j)' = to,
           \A k \in Jobs : k # j => PhaseOf(k)' = PhaseOf(k)
    PROVE  [k \in Jobs |-> Phase(row[k].state)]'
             = [[k \in Jobs |-> Phase(row[k].state)] EXCEPT ![j] = to]
BY DEF PhaseOf

LEMMA MoveIsStep ==
    ASSUME NEW j \in Jobs, j \notin Busy, Busy' = Busy,
           \A k \in Jobs : k # j => PhaseOf(k)' = PhaseOf(k),
           \/ PhaseOf(j) = "new" /\ PhaseOf(j)' = "waiting"
           \/ PhaseOf(j) \in {"dispatched", "settled"} /\ PhaseOf(j)' = "waiting"
           \/ PhaseOf(j) \in {"dispatched", "waiting"} /\ PhaseOf(j)' = "settled"
           \/ PhaseOf(j)' = PhaseOf(j)
    PROVE  ServiceStep
<1>1. CASE PhaseOf(j)' = PhaseOf(j)
  BY <1>1, PhaseKept
<1>2. CASE PhaseOf(j) = "new" /\ PhaseOf(j)' = "waiting"
  BY <1>2, PhaseMoved DEF ServiceStep, Service!Next, Service!Submit, Service!Move, PhaseOf
<1>3. CASE PhaseOf(j) \in {"dispatched", "settled"} /\ PhaseOf(j)' = "waiting"
  BY <1>3, PhaseMoved DEF ServiceStep, Service!Next, Service!Return, Service!Move, PhaseOf
<1>4. CASE PhaseOf(j) \in {"dispatched", "waiting"} /\ PhaseOf(j)' = "settled"
  BY <1>4, PhaseMoved DEF ServiceStep, Service!Next, Service!Close, Service!Move, PhaseOf
<1> QED BY <1>1, <1>2, <1>3, <1>4
(* A row that nobody's handler owns is written.                            *)
LEMMA QuietWrite ==
    ASSUME Typed, Owned, NEW j \in Jobs, NEW r, Write(j, r), NotExecuting(j),
           r.state \in {"pending", "done"}
    PROVE  Owned' /\ Busy' = Busy /\ j \notin Busy
<1>1. /\ row'[j] = r /\ \A k \in Jobs : k # j => row'[k] = row[k]
      /\ call' = Outdated(j)
  BY DEF Write, Typed, TypeOK
<1>2. SameOrFewer /\ Busy' = Busy
  BY <1>1, OutdatedSame
<1>3. \A c \in Calls : Executing(c)' => call[c].job # j /\ call[c].job \in Jobs
  BY <1>2 DEF SameOrFewer, NotExecuting, Executing, Typed, GoodCall
<1>4. \A k \in Jobs : row'[k].state = "new" => row'[k].retry = 0
  BY <1>1 DEF Owned
<1>5. Owned'
  BY <1>1, <1>2, <1>3, <1>4, OwnedKept
<1> QED BY <1>2, <1>5 DEF Busy

(* A job whose row is not started is run only if the row is gone.          *)
LEMMA NotStartedNotBusy ==
    ASSUME Typed, Owned, NEW j \in Jobs, row[j].state \notin {"started", "gone"}
    PROVE  NotExecuting(j)
BY DEF Owned, NotExecuting

LEMMA RowStepService ==
    ASSUME Careful, Typed, Owned, NEW j \in Jobs, RowStep(j)
    PROVE  Owned' /\ ServiceStep
<1>1. row[j] \in Row
  BY DEF Typed, TypeOK
<1>2. ASSUME NEW r, Write(j, r), NotExecuting(j),
             \/ row[j].state = "new" /\ r.state = "pending"
             \/ Exists(j) /\ r.state \in {"pending", "done"}
      PROVE  Owned' /\ ServiceStep
  <2>1. Owned' /\ Busy' = Busy /\ j \notin Busy
    BY <1>2, QuietWrite
  <2>2. \A k \in Jobs : k # j => PhaseOf(k)' = PhaseOf(k)
    BY <1>2 DEF Write, PhaseOf, Typed, TypeOK
  <2>3. PhaseOf(j)' = Phase(r.state) /\ PhaseOf(j) = Phase(row[j].state)
    BY <1>2 DEF Write, PhaseOf, Typed, TypeOK
  <2>4. \/ PhaseOf(j) = "new" /\ PhaseOf(j)' = "waiting"
        \/ PhaseOf(j) \in {"dispatched", "settled"} /\ PhaseOf(j)' = "waiting"
        \/ PhaseOf(j) \in {"dispatched", "waiting"} /\ PhaseOf(j)' = "settled"
        \/ PhaseOf(j)' = PhaseOf(j)
    BY <1>1, <1>2, <2>3 DEF Phase, Exists, Row, States
  <2> QED BY <2>1, <2>2, <2>4, MoveIsStep
<1>3. CASE Enqueue(j)
  <2>1. NotExecuting(j)
    BY <1>3, NotStartedNotBusy DEF Enqueue
  <2> QED BY <1>2, <1>3, <2>1 DEF Enqueue
<1>4. CASE EtaPasses(j)
  <2>1. \A k \in Jobs : row'[k].state = row[k].state /\ row'[k].retry = row[k].retry
    BY <1>1, <1>4 DEF EtaPasses, Typed, TypeOK, Row
  <2>2. ServiceStep
    BY <1>4, <2>1, PhaseKept DEF EtaPasses, PhaseOf, Busy, NotExecuting, Executing
  <2>3. \A c \in Calls : Executing(c) => call[c].job \in Jobs
    BY DEF Executing, Typed, GoodCall
  <2>4. Owned'
    BY <1>4, <2>1, <2>3 DEF EtaPasses, Owned, NoDoubleExecution, Executing
  <2> QED BY <2>2, <2>4
<1>5. CASE ButtonDone(j)
  BY <1>1, <1>2, <1>5 DEF ButtonDone, Permitted, Row
<1>6. CASE Requeue(j)
  BY <1>1, <1>2, <1>6 DEF Requeue, Permitted, Row
<1>7. CASE RequeueStuck(j)
  <2>1. NotExecuting(j) /\ Exists(j)
    BY <1>7, NotStartedNotBusy DEF RequeueStuck, Permitted, Exists
  <2> QED BY <1>1, <1>2, <1>7, <2>1 DEF RequeueStuck, Row
<1>8. CASE Autovacuum(j)
  <2>1. /\ row'[j].state = "gone" /\ row'[j].retry = 0 /\ call' = Outdated(j)
        /\ \A k \in Jobs : k # j => row'[k] = row[k]
    BY <1>8 DEF Autovacuum, Absent, Typed, TypeOK
  <2>2. SameOrFewer /\ Busy' = Busy
    BY <2>1, OutdatedSame
  <2>3. \A c \in Calls : Executing(c)' => call[c].job \in Jobs
    BY <2>2 DEF SameOrFewer, Executing, Typed, GoodCall
  <2>4. Owned'
    BY <2>1, <2>2, <2>3, OwnedKept DEF Owned
  <2>5. /\ PhaseOf(j)' = "gone" /\ PhaseOf(j) \in {"waiting", "dispatched", "settled"}
        /\ \A k \in Jobs : k # j => PhaseOf(k)' = PhaseOf(k)
    BY <1>1, <1>8, <2>1 DEF Autovacuum, PhaseOf, Phase, Exists, Row, States
  <2>6. ServiceStep
    BY <2>2, <2>5, PhaseMoved DEF ServiceStep, Service!Next, Service!Remove, PhaseOf
  <2> QED BY <2>4, <2>6
<1> QED BY <1>3, <1>4, <1>5, <1>6, <1>7, <1>8, RowStep(j) DEF RowStep

-----------------------------------------------------------------------------
(* Handlers.                                                               *)

(* The handler of c ends or goes on, and no other handler is touched.      *)
LEMMA OthersKept ==
    ASSUME Typed, NEW c \in Calls, NEW r,
           \/ call' = [call EXCEPT ![c] = r]
           \/ call' = [Outdated(call[c].job) EXCEPT ![c] = r] /\ call[c].job \in Jobs
    PROVE  /\ call'[c] = r
           /\ \A d \in Calls \ {c} : /\ call'[d].pc = call[d].pc
                                     /\ call'[d].job = call[d].job
                                     /\ call'[d].retry = call[d].retry
           /\ \A d \in Calls \ {c} : Executing(d)' <=> Executing(d)
BY OutdatedKeeps DEF Typed, Executing

LEMMA HandlerEnds ==
    ASSUME Typed, Owned, NEW c \in Calls, NEW r, r.pc \in {"idle", "errored"},
           call' = [call EXCEPT ![c] = r], UNCHANGED row
    PROVE  Owned' /\ ServiceStep
<1>1. SameOrFewer
  BY OthersKept DEF SameOrFewer, Executing
<1>2. Owned'
  BY <1>1, OwnedKept DEF Owned
<1>3. [j \in Jobs |-> Phase(row[j].state)]' = [j \in Jobs |-> Phase(row[j].state)]
  OBVIOUS
<1>4. Busy' \in SUBSET Busy
  BY <1>1 DEF SameOrFewer, Busy, NotExecuting
<1> QED BY <1>2, <1>3, <1>4 DEF ServiceStep, Service!Next, Service!Abandon

LEMMA StoreService ==
    ASSUME Typed, Owned, NEW c \in Calls, NEW r, NEW answer,
           r.state \in {"pending", "done", "failed"},
           answer.pc \in {"idle", "errored"},
           StoreOutcome(c, r, answer)
    PROVE  Owned' /\ ServiceStep
<1>1. PICK j \in Jobs : j = call[c].job /\ Executing(c)
  BY DEF Typed, GoodCall, StoreOutcome, Executing
<1>2. /\ row'[j] = r /\ \A k \in Jobs : k # j => row'[k] = row[k]
      /\ call' = [Outdated(j) EXCEPT ![c] = answer]
  BY <1>1 DEF StoreOutcome, Typed, TypeOK
<1>3. /\ call'[c] = answer
      /\ \A d \in Calls \ {c} : /\ call'[d].job = call[d].job
                                /\ call'[d].retry = call[d].retry
                                /\ Executing(d)' <=> Executing(d)
  BY <1>1, <1>2, OthersKept
<1>4. ~Executing(c)' /\ SameOrFewer
  BY <1>3 DEF SameOrFewer, Executing
<1>5. \A d \in Calls : Executing(d)' => call[d].job # j /\ call[d].job \in Jobs
  BY <1>1, <1>4 DEF SameOrFewer, Owned, NoDoubleExecution, Executing, Typed, GoodCall
<1>6. Owned'
  BY <1>2, <1>4, <1>5, OwnedKept DEF Owned
<1>7. j \in Busy
  BY <1>1 DEF Busy, NotExecuting
<1>8. Busy' = Busy \ {j}
  <2>1. ASSUME NEW k \in Jobs, k # j
        PROVE  NotExecuting(k)' <=> NotExecuting(k)
    <3>1. \A d \in Calls : Executing(d)' /\ call'[d].job = k
                              <=> Executing(d) /\ call[d].job = k
      BY <1>1, <1>3, <1>4, <2>1
    <3> QED BY <3>1 DEF NotExecuting
  <2>2. NotExecuting(j)'
    BY <1>4, <1>5 DEF NotExecuting, SameOrFewer
  <2> QED BY <2>1, <2>2 DEF Busy
<1>9. /\ PhaseOf(j)' \in {"waiting", "settled"}
      /\ \A k \in Jobs : k # j => PhaseOf(k)' = PhaseOf(k)
  BY <1>2 DEF PhaseOf, Phase
<1>10. [k \in Jobs |-> Phase(row[k].state)]'
         = [[k \in Jobs |-> Phase(row[k].state)] EXCEPT ![j] = PhaseOf(j)']
  BY <1>1, <1>9, PhaseMoved
<1>11. Service!Finish(j)
  BY <1>7, <1>8, <1>9, <1>10 DEF Service!Finish
<1> QED BY <1>1, <1>6, <1>11 DEF ServiceStep, Service!Next

LEMMA CallStepService ==
    ASSUME Careful, Typed, Owned, NEW c \in Calls, CallStep(c)
    PROVE  Owned' /\ ServiceStep
<1>0. Answered.pc = "idle"
  BY DEF Answered, Idle, Request
<1>1. CASE ClientGivesUp(c)
  <2>1. PICK j \in Jobs : j = call[c].job
    BY <1>1 DEF ClientGivesUp, GiveUp, Typed, GoodCall
  <2>2. PICK r : /\ r = IF call[c].pc = "errored" THEN Idle
                         ELSE [call[c] EXCEPT !.waiting = FALSE]
                 /\ \/ call' = [call EXCEPT ![c] = r]
                    \/ call' = [Outdated(j) EXCEPT ![c] = r]
    BY <1>1, <2>1 DEF ClientGivesUp, GiveUp
  <2>3. /\ call'[c] = r
        /\ \A d \in Calls \ {c} : /\ call'[d].pc = call[d].pc
                                  /\ call'[d].job = call[d].job
                                  /\ call'[d].retry = call[d].retry
        /\ \A d \in Calls \ {c} : Executing(d)' <=> Executing(d)
    BY <2>1, <2>2, OthersKept
  <2>4. /\ Executing(c)' <=> Executing(c)
        /\ Executing(c) => call'[c].job = call[c].job /\ call'[c].retry = call[c].retry
    BY <2>2, <2>3 DEF Executing, Idle, Request, Typed, GoodCall, CallRecord
  <2>5. SameOrFewer
    BY <2>3, <2>4 DEF SameOrFewer
  <2>6. Busy' = Busy
    <3>1. \A k \in Jobs : NotExecuting(k)' <=> NotExecuting(k)
      BY <2>3, <2>4 DEF NotExecuting
    <3> QED BY <3>1 DEF Busy
  <2>7. CASE row[j].state = "enqueued"
    <3>1. /\ row'[j].state = "pending"
          /\ \A k \in Jobs : k # j => row'[k] = row[k]
      BY <1>1, <2>1, <2>7 DEF ClientGivesUp, GiveUp, Typed, TypeOK, Row
    <3>2. NotExecuting(j)
      BY <2>7, NotStartedNotBusy
    <3>3. \A d \in Calls : Executing(d)' => call[d].job # j /\ call[d].job \in Jobs
      BY <2>5, <3>2 DEF SameOrFewer, NotExecuting, Executing, Typed, GoodCall
    <3>4. \A k \in Jobs : row'[k].state = "new" => row'[k].retry = 0
      BY <3>1 DEF Owned
    <3>5. Owned'
      BY <2>5, <3>1, <3>3, <3>4, OwnedKept
    <3>6. /\ PhaseOf(j) = "dispatched" /\ PhaseOf(j)' = "waiting"
          /\ \A k \in Jobs : k # j => PhaseOf(k)' = PhaseOf(k)
      BY <2>7, <3>1 DEF PhaseOf, Phase
    <3>7. j \notin Busy
      BY <3>2 DEF Busy
    <3> QED BY <2>6, <3>5, <3>6, <3>7, MoveIsStep
  <2>8. CASE row[j].state # "enqueued"
    <3>1. UNCHANGED row
      BY <1>1, <2>1, <2>8 DEF ClientGivesUp, GiveUp
    <3>2. Owned'
      BY <2>5, <3>1, OwnedKept DEF Owned
    <3> QED BY <2>6, <3>1, <3>2, PhaseKept DEF PhaseOf
  <2> QED BY <2>7, <2>8
<1>2. CASE StartJob(c)
  <2>1. PICK j \in Jobs : j = call[c].job
    BY <1>2 DEF StartJob, Typed, GoodCall
  <2>2. /\ row[j].state = "enqueued"
        /\ row'[j] = [row[j] EXCEPT !.state = "started"]
        /\ \A k \in Jobs : k # j => row'[k] = row[k]
    BY <1>2, <2>1 DEF StartJob, Typed, TypeOK
  <2>3. row'[j].state = "started" /\ row'[j].retry = row[j].retry
    BY <2>2 DEF Typed, TypeOK, Row
  <2>4. NotExecuting(j)
    BY <2>2, NotStartedNotBusy
  <2>5. PICK r : /\ r = [call[c] EXCEPT !.pc = "started", !.retry = row[j].retry,
                                        !.dated = row[j].dated]
                 /\ call' = [Outdated(j) EXCEPT ![c] = r]
    BY <1>2, <2>1 DEF StartJob
  <2>6. /\ call'[c] = r
        /\ \A d \in Calls \ {c} : /\ call'[d].pc = call[d].pc
                                  /\ call'[d].job = call[d].job
                                  /\ call'[d].retry = call[d].retry
        /\ \A d \in Calls \ {c} : Executing(d)' <=> Executing(d)
    BY <2>1, <2>5, OthersKept
  <2>7. r.pc = "started" /\ r.job = j /\ r.retry = row[j].retry
    BY <2>1, <2>5 DEF Typed, GoodCall, CallRecord
  <2>8. Executing(c)' /\ ~Executing(c)
    BY <1>2, <2>6, <2>7 DEF Executing, StartJob
  <2>9. \A d \in Calls \ {c} : Executing(d)' =>
            call'[d].job # j /\ call'[d].job \in Jobs
    BY <2>4, <2>6 DEF NotExecuting, Typed, GoodCall, Executing
  <2>10. NoDoubleExecution'
    BY <2>6, <2>7, <2>9 DEF NoDoubleExecution, Owned
  <2>11. row[j].retry \in Nat
    BY NumbersOfCalls
  <2>12. \A d \in Calls : Executing(d)' =>
          /\ row'[call'[d].job].state \in {"started", "gone"}
          /\ row'[call'[d].job].retry =< call'[d].retry
    <3>1. /\ row'[call'[c].job].state = "started"
          /\ row'[call'[c].job].retry =< call'[c].retry
      BY <2>3, <2>6, <2>7, <2>11
    <3>2. ASSUME NEW d \in Calls \ {c}, Executing(d)'
          PROVE  /\ row'[call'[d].job].state \in {"started", "gone"}
                 /\ row'[call'[d].job].retry =< call'[d].retry
      BY <2>2, <2>6, <2>9, <3>2 DEF Owned
    <3> QED BY <3>1, <3>2
  <2>13. Owned'
    BY <2>2, <2>3, <2>10, <2>12 DEF Owned
  <2>14. \A k \in Jobs : Phase(row'[k].state) = Phase(row[k].state)
    BY <2>2, <2>3 DEF Phase
  <2>15. Busy' = Busy \cup {j} /\ j \notin Busy
    <3>1. \A k \in Jobs : k # j => (NotExecuting(k)' <=> NotExecuting(k))
      <4> SUFFICES ASSUME NEW k \in Jobs, k # j
                   PROVE  NotExecuting(k)' <=> NotExecuting(k)
        OBVIOUS
      <4>1. \A d \in Calls : Executing(d)' /\ call'[d].job = k
                                <=> Executing(d) /\ call[d].job = k
        BY <2>6, <2>7, <2>8
      <4> QED BY <4>1 DEF NotExecuting
    <3>2. ~NotExecuting(j)'
      BY <2>6, <2>7, <2>8 DEF NotExecuting
    <3> QED BY <2>4, <3>1, <3>2 DEF Busy
  <2>16. Phase(row[j].state) = "dispatched"
    BY <2>2 DEF Phase
  <2>17. Service!Begin(j)
    BY <2>14, <2>15, <2>16 DEF Service!Begin
  <2> QED BY <2>13, <2>17 DEF ServiceStep, Service!Next
<1>4. CASE Perform(c)
  <2>1. /\ call'[c].pc = "performing" /\ call'[c].job = call[c].job
        /\ call'[c].retry = call[c].retry
        /\ \A d \in Calls \ {c} : call'[d] = call[d]
        /\ UNCHANGED row
    BY <1>4 DEF Perform, Typed, TypeOK, CallRecord
  <2>2. \A d \in Calls : /\ Executing(d)' <=> Executing(d)
                         /\ call'[d].job = call[d].job /\ call'[d].retry = call[d].retry
    BY <1>4, <2>1 DEF Perform, Executing
  <2>3. SameOrFewer
    BY <2>2 DEF SameOrFewer
  <2>4. Owned'
    BY <2>1, <2>3, OwnedKept DEF Owned
  <2>5. Busy' = Busy
    <3>1. \A k \in Jobs : NotExecuting(k)' <=> NotExecuting(k)
      BY <2>2 DEF NotExecuting
    <3> QED BY <3>1 DEF Busy
  <2> QED BY <2>1, <2>4, <2>5, PhaseKept DEF PhaseOf
<1>5. CASE JobDone(c)
  <2> DEFINE r == [state |-> "done", retry |-> Attempt(c),
                   later |-> FALSE, dated |-> TRUE]
  <2>1. r.state = "done"
    OBVIOUS
  <2>2. StoreOutcome(c, r, Answered)
    BY <1>5 DEF JobDone
  <2> HIDE DEF r
  <2> QED BY <1>0, <2>1, <2>2, StoreService
<1>6. CASE JobConflicts(c) \/ JobRetries(c) \/ JobRetriesIgnored(c)
  <2>1. \A n, d : Postponed(n, d).state = "pending"
    BY DEF Postponed
  <2> QED BY <1>0, <1>6, <2>1, StoredBack, StoreService
<1>7. Errored(c).pc \in {"idle", "errored"}
  BY DEF Errored, Idle, Request
<1>8. CASE JobFails(c)
  <2>1. \A d : Failed(c, d).state = "failed"
    BY DEF Failed
  <2> QED BY <1>7, <1>8, <2>1, StoredBack, StoreService
<1>9. CASE RefuseJob(c) \/ NothingToDoConflicts(c) \/ HandlerDies(c)
  BY <1>0, <1>7, <1>9, HandlerEnds
     DEF RefuseJob, NothingToDoConflicts, HandlerDies
<1> QED BY <1>1, <1>2, <1>4, <1>5, <1>6, <1>8, <1>9, CallStep(c)
        DEF CallStep, JobEnds


-----------------------------------------------------------------------------
(* The runner, and all steps together.                                     *)

(* A picked job that exists is run by nobody: its row is not started.      *)
LEMMA SendService ==
    ASSUME Typed, Inv, Owned, Send
    PROVE  Owned' /\ ServiceStep
<1>1. PICK j \in Jobs : j = picked
  BY DEF Send, Typed
<1>2. PICK c \in Calls :
        /\ call[c] = Idle
        /\ IF Exists(j)
           THEN /\ row' = [row EXCEPT ![j].state = "enqueued"]
                /\ call' = [Outdated(j) EXCEPT ![c] = Request("sent", j, TRUE)]
           ELSE /\ call' = [call EXCEPT ![c] = Request("sent", j, TRUE)]
                /\ UNCHANGED row
  BY <1>1 DEF Send
<1>3. /\ call'[c] = Request("sent", j, TRUE)
      /\ \A d \in Calls \ {c} : /\ call'[d].pc = call[d].pc
                                /\ call'[d].job = call[d].job
                                /\ call'[d].retry = call[d].retry
  <2>1. CASE Exists(j)
    <3>1. Outdated(j) \in [Calls -> GoodCall]
      BY OutdatedKeeps DEF Typed
    <3>2. call' = [Outdated(j) EXCEPT ![c] = Request("sent", j, TRUE)]
      BY <1>2, <2>1
    <3> QED BY <3>1, <3>2, OutdatedKeeps DEF Typed
  <2>2. CASE ~Exists(j)
    BY <1>2, <2>2 DEF Typed
  <2> QED BY <2>1, <2>2
<1>4. ~Executing(c) /\ ~Executing(c)'
  BY <1>2, <1>3 DEF Executing, Idle, Request
<1>5. \A d \in Calls : Executing(d)' <=> Executing(d)
  BY <1>3, <1>4 DEF Executing
<1>6. SameOrFewer
  BY <1>3, <1>4, <1>5 DEF SameOrFewer
<1>7. Busy' = Busy
  <2>1. \A k \in Jobs : NotExecuting(k)' <=> NotExecuting(k)
    BY <1>3, <1>4, <1>5 DEF NotExecuting
  <2> QED BY <2>1 DEF Busy
<1>8. CASE Exists(j)
  <2>1. /\ row'[j].state = "enqueued"
        /\ \A k \in Jobs : k # j => row'[k] = row[k]
    BY <1>2, <1>8 DEF Typed, TypeOK, Row
  <2>2. /\ ~IsRunning(j) /\ row[j].state \in {"pending", "done", "failed"}
        /\ view[j] = "running" /\ runner = "send"
    BY <1>1, <1>8 DEF Inv, Filed, IsRunning, Exists, Typed, TypeOK, Row, States, Send
  <2>3. NotExecuting(j)
    BY <2>2, NotStartedNotBusy
  <2>4. \A d \in Calls : Executing(d)' => call[d].job # j /\ call[d].job \in Jobs
    BY <1>5, <2>3 DEF NotExecuting, Executing, Typed, GoodCall
  <2>5. Owned'
    <3>1. \A k \in Jobs : row'[k].state = "new" => row'[k].retry = 0
      BY <2>1 DEF Owned
    <3> QED BY <1>6, <2>1, <2>4, <3>1, OwnedKept
  <2>6. Service!Dispatched \subseteq Running \ {j}
    BY <2>2 DEF Service!Dispatched, Running, Phase, Inv, Filed, RunningIsFiled,
                IsRunning, Typed, TypeOK, Row, States
  <2>7. Cardinality(Running \ {j}) = Cardinality(Running) - 1
    BY <2>2, FiniteJobs, FS_RemoveElement DEF Running
  <2>8. /\ Cardinality(Service!Dispatched) =< Cardinality(Running \ {j})
        /\ Cardinality(Service!Dispatched) \in Nat
    <3>1. IsFiniteSet(Running \ {j})
      BY FiniteJobs, FS_RemoveElement
    <3> QED BY <2>6, <3>1, FS_Subset, FS_CardinalityType
  <2>9. Cardinality(Service!Dispatched) < Capacity
    BY <2>2, <2>7, <2>8, FiniteJobs, JobQueueAssumption DEF Inv, Bounded
  <2>10. /\ PhaseOf(j)' = "dispatched" /\ PhaseOf(j) \in {"waiting", "settled"}
         /\ \A k \in Jobs : k # j => PhaseOf(k)' = PhaseOf(k)
    BY <2>1, <2>2 DEF PhaseOf, Phase
  <2>11. [k \in Jobs |-> Phase(row[k].state)]'
           = [[k \in Jobs |-> Phase(row[k].state)] EXCEPT ![j] = "dispatched"]
    BY <2>10, PhaseMoved
  <2>12. Service!Move(j, {"waiting", "settled"}, "dispatched")
    <3>1. j \notin Busy /\ Phase(row[j].state) \in {"waiting", "settled"}
      BY <2>3, <2>10 DEF Busy, PhaseOf
    <3> QED BY <1>7, <2>11, <3>1 DEF Service!Move
  <2>13. Service!Dispatch(j)
    BY <2>9, <2>12 DEF Service!Dispatch, Service!Cardinality, Cardinality
  <2> QED BY <2>5, <2>13 DEF ServiceStep, Service!Next
<1>9. CASE ~Exists(j)
  <2>1. UNCHANGED row
    BY <1>2, <1>9
  <2>2. Owned'
    BY <1>6, <2>1, OwnedKept DEF Owned
  <2> QED BY <1>7, <2>1, <2>2, PhaseKept DEF PhaseOf
<1> QED BY <1>8, <1>9

LEMMA RunnerStepService ==
    ASSUME Typed, Inv, Owned, RunnerStep
    PROVE  Owned' /\ ServiceStep
<1>1. ASSUME UNCHANGED <<row, call>> PROVE Owned' /\ ServiceStep
  BY <1>1 DEF Owned, NoDoubleExecution, Executing, ServiceStep, Busy, NotExecuting
<1>2. CASE RunnerDies
  <2>1. \A c \in Calls : /\ Executing(c)' <=> Executing(c)
                         /\ Executing(c) => /\ call'[c].job = call[c].job
                                            /\ call'[c].retry = call[c].retry
    BY <1>2 DEF RunnerDies, Executing, Idle, Request, Typed, GoodCall, CallRecord
  <2>2. SameOrFewer /\ UNCHANGED row
    BY <1>2, <2>1 DEF SameOrFewer, RunnerDies, RunnerForgets
  <2>3. Owned'
    BY <2>2, OwnedKept DEF Owned
  <2>4. Busy' = Busy
    <3>1. \A k \in Jobs : NotExecuting(k)' <=> NotExecuting(k)
      BY <2>1 DEF NotExecuting
    <3> QED BY <3>1 DEF Busy
  <2> QED BY <2>2, <2>3, <2>4, PhaseKept DEF PhaseOf
<1>3. CASE RunnerFails \/ InitializeDatabases \/ StartRunJobs \/ EndRunJobs
  BY <1>1, <1>3
     DEF RunnerFails, RunnerForgets, InitializeDatabases, StartRunJobs, EndRunJobs
<1>4. ASSUME NEW j \in Jobs, ProcessNotification(j) \/ Pick(j)
      PROVE  Owned' /\ ServiceStep
  BY <1>1, <1>4 DEF ProcessNotification, Pick
<1> QED BY <1>2, <1>3, <1>4, SendService, RunnerStep DEF RunnerStep

LEMMA CrashService ==
    ASSUME Typed, Owned, Crash
    PROVE  Owned' /\ ServiceStep
<1>1. \A c \in Calls : ~Executing(c)'
  BY DEF Crash, Executing, Idle, Request
<1>2. SameOrFewer /\ UNCHANGED row /\ Busy' = {}
  BY <1>1 DEF SameOrFewer, Crash, RunnerForgets, Busy, NotExecuting
<1>3. Owned'
  BY <1>2, OwnedKept DEF Owned
<1>4. [j \in Jobs |-> Phase(row[j].state)]' = [j \in Jobs |-> Phase(row[j].state)]
  BY <1>2
<1> QED BY <1>2, <1>3, <1>4 DEF ServiceStep, Service!Next, Service!Abandon

LEMMA NextService ==
    ASSUME Careful, Typed, Inv, Owned, [Next]_vars
    PROVE  Owned' /\ ServiceStep
<1>1. CASE UNCHANGED vars
  BY <1>1 DEF vars, Owned, NoDoubleExecution, Executing, ServiceStep, Busy,
              NotExecuting
<1> QED BY <1>1, RunnerStepService, CallStepService, RowStepService, CrashService
        DEF Next

LEMMA CarefulInvariance ==
    ASSUME Careful
    PROVE  Spec => [](Typed /\ Inv /\ Owned)
<1>1. Init => Typed /\ Inv /\ Owned
  BY InitTyped, InitInv, InitOwned
<1>2. Typed /\ Inv /\ Owned /\ [Next]_vars => (Typed /\ Inv /\ Owned)'
  BY NextTyped, NextInv, NextService
<1> QED BY <1>1, <1>2, PTL DEF Spec

(* With careful managers no job's method is run by two handlers at once.   *)
THEOREM ExclusiveRuns ==
    ASSUME Careful
    PROVE  Spec => []NoDoubleExecution
<1>1. Owned => NoDoubleExecution
  BY DEF Owned
<1> QED BY <1>1, CarefulInvariance, PTL

(* With careful managers the queue implements JobService: exclusive runs,  *)
(* bounded dispatch, and phases that change only as the service says.      *)
THEOREM Implementation ==
    ASSUME Careful
    PROVE  Spec => ImplementsService
<1>1. Init => Service!Init
  BY DEF Init, Service!Init, Phase, Absent, Busy, NotExecuting, Executing, Idle, Request
<1>2. Typed /\ Inv /\ Owned /\ [Next]_vars => [Service!Next]_(Service!vars)
  BY NextService DEF ServiceStep, Service!vars
<1>3. Spec => [](Typed /\ Inv /\ Owned)
  BY CarefulInvariance
<1> QED BY <1>1, <1>2, <1>3, PTL DEF Spec, ImplementsService, Service!Spec

-----------------------------------------------------------------------------
(* Action properties: which steps may write the row of a job at all.       *)

(* A handler's step leaves the row of j alone, moves it on while it waits  *)
(* for its request, or stores the outcome of the run of j that it owns.    *)
LEMMA CallWrites ==
    ASSUME Typed, Owned, NEW c \in Calls, CallStep(c), NEW j \in Jobs,
           row'[j] # row[j]
    PROVE  \/ row[j].state = "enqueued" /\ row'[j].retry = row[j].retry
           \/ /\ row[j].state \in {"started", "gone"}
              /\ row[j].retry =< row'[j].retry
              /\ JobRetriesIgnored(c) \/ Bump(row[j].retry) =< row'[j].retry
<1>1. row[j] \in Row /\ row \in [Jobs -> Row] /\ call[c] \in GoodCall
  BY DEF Typed, TypeOK
<1>2. CASE ClientGivesUp(c)
  BY <1>1, <1>2 DEF ClientGivesUp, GiveUp, GoodCall, Row
<1>3. CASE StartJob(c)
  BY <1>1, <1>3 DEF StartJob, GoodCall, Row
<1>4. CASE RefuseJob(c) \/ Perform(c) \/ NothingToDoConflicts(c) \/ HandlerDies(c)
  BY <1>4 DEF RefuseJob, Perform, NothingToDoConflicts, HandlerDies
<1>5. ASSUME NEW r, NEW answer, StoreOutcome(c, r, answer), r.retry \in 0..RetryCap,
             call[c].retry =< r.retry
      PROVE  /\ row[j].state \in {"started", "gone"}
             /\ row[j].retry =< row'[j].retry
             /\ r.retry = Attempt(c) => Bump(row[j].retry) =< row'[j].retry
  <2>1. j = call[c].job /\ row'[j] = r /\ Executing(c)
    BY <1>1, <1>5 DEF StoreOutcome, GoodCall, Executing
  <2>2. row[j].state \in {"started", "gone"} /\ row[j].retry =< call[c].retry
    BY <2>1 DEF Owned
  <2>3. row[j].retry =< row'[j].retry
    BY <1>1, <1>5, <2>1, <2>2, NumbersOfCalls
  <2>4. ASSUME r.retry = Attempt(c)
        PROVE  Bump(row[j].retry) =< row'[j].retry
    BY <1>1, <1>5, <2>1, <2>2, <2>4, NumbersOfCalls, JobQueueAssumption
       DEF Attempt, Bump, Row
  <2> QED BY <2>2, <2>3, <2>4
<1>6. CASE JobEnds(c) /\ ~NothingToDoConflicts(c)
  <2>1. call[c].pc = "performing"
    BY <1>6 DEF JobEnds, JobDone, JobConflicts, JobRetries, JobRetriesIgnored,
                JobFails, StoreOutcome
  <2>2. /\ Attempt(c) \in 0..RetryCap /\ call[c].retry =< Attempt(c)
        /\ call[c].retry \in 0..RetryCap /\ call[c].retry =< call[c].retry
    BY <2>1, OutcomesType
  <2>3. PICK r, answer : /\ StoreOutcome(c, r, answer)
                         /\ r.retry \in {Attempt(c), call[c].retry}
                         /\ JobRetriesIgnored(c) \/ r.retry = Attempt(c)
    <3>1. \A n, d : Postponed(n, d).retry = n
      BY DEF Postponed
    <3>2. \A d : Failed(c, d).retry = Attempt(c)
      BY DEF Failed
    <3>3. CASE JobDone(c)
      <4> DEFINE r == [state |-> "done", retry |-> Attempt(c),
                       later |-> FALSE, dated |-> TRUE]
      <4>1. StoreOutcome(c, r, Answered) /\ r.retry = Attempt(c)
        BY <3>3 DEF JobDone
      <4> HIDE DEF r
      <4> QED BY <4>1
    <3>4. CASE JobConflicts(c) \/ JobRetries(c)
      <4>1. PICK d \in Dates(c) :
                StoreOutcome(c, Postponed(Attempt(c), d), Answered)
        BY <3>4, StoredBack
      <4> QED BY <3>1, <4>1
    <3>5. CASE JobRetriesIgnored(c)
      <4>1. PICK d \in Dates(c) :
                StoreOutcome(c, Postponed(call[c].retry, d), Answered)
        BY <3>5, StoredBack
      <4> QED BY <3>1, <3>5, <4>1
    <3>6. CASE JobFails(c)
      <4>1. PICK d \in Dates(c) : StoreOutcome(c, Failed(c, d), Errored(c))
        BY <3>6, StoredBack
      <4> QED BY <3>2, <4>1
    <3> QED BY <1>6, <3>3, <3>4, <3>5, <3>6 DEF JobEnds
  <2> QED BY <1>5, <2>2, <2>3
<1> QED BY <1>2, <1>3, <1>4, <1>5, <1>6, CallStep(c) DEF CallStep

(* The runner writes enqueued the row it picked, and keeps its counter.    *)
LEMMA RunnerWrites ==
    ASSUME Typed, RunnerStep \/ Crash, NEW j \in Jobs, row'[j] # row[j]
    PROVE  j = picked /\ row'[j].retry = row[j].retry /\ row'[j].state = "enqueued"
<1>1. CASE Send
  <2>1. row' = [row EXCEPT ![picked].state = "enqueued"] /\ picked \in Jobs
    BY <1>1 DEF Send, Typed
  <2> QED BY <2>1 DEF Typed, TypeOK, Row
<1>2. CASE ~Send
  BY <1>2 DEF RunnerStep, Crash, RunnerForgets, RunnerFails, RunnerDies,
       InitializeDatabases, StartRunJobs, EndRunJobs, ProcessNotification, Pick
<1> QED BY <1>1, <1>2

(* Who writes a row otherwise.                                             *)
LEMMA RowWrites ==
    ASSUME Typed, Owned, NEW k \in Jobs, RowStep(k), NEW j \in Jobs, row'[j] # row[j]
    PROVE  /\ j = k
           /\ \/ Requeue(j) \/ Autovacuum(j)
              \/ RequeueStuck(j) /\ IsRunning(j)
              \/ /\ row[j].retry =< row'[j].retry
                 /\ row[j].state = "done" => row'[j].state = "done"
                 /\ row[j].state = "started" => row'[j].state # "pending"
<1>1. row[j] \in Row /\ row \in [Jobs -> Row] /\ row[j].retry \in Nat
  BY NumbersOfCalls DEF Typed, TypeOK
<1>2. CASE Enqueue(k)
  BY <1>1, <1>2 DEF Enqueue, Write, Owned
<1>3. CASE EtaPasses(k)
  BY <1>1, <1>3 DEF EtaPasses, Row
<1>4. CASE ButtonDone(k)
  BY <1>1, <1>4 DEF ButtonDone, Write, Row
<1>5. CASE Requeue(k)
  BY <1>1, <1>5 DEF Requeue, Write
<1>6. CASE RequeueStuck(k)
  BY <1>1, <1>6 DEF RequeueStuck, Write, IsRunning
<1>7. CASE Autovacuum(k)
  BY <1>1, <1>7 DEF Autovacuum
<1> QED BY <1>2, <1>3, <1>4, <1>5, <1>6, <1>7, RowStep(k) DEF RowStep

LEMMA Writers ==
    ASSUME Typed, Owned, [Next]_vars, NEW j \in Jobs, row'[j] # row[j]
    PROVE  /\ row'[j].retry < row[j].retry =>
                 Requeue(j) \/ RequeueStuck(j) \/ Autovacuum(j)
           /\ row[j].state = "started" /\ row'[j].state = "pending" =>
                 \/ Requeue(j) \/ RequeueStuck(j)
                 \/ \E c \in Calls : JobRetriesIgnored(c)
                 \/ Bump(row[j].retry) =< row'[j].retry
           /\ row[j].state = "done" /\ row'[j].state # "done" =>
                 Requeue(j) \/ Autovacuum(j) \/ j = picked
<1>0. row'[j].retry \in Nat
  <2>1. row' \in [Jobs -> Row]
    BY NextTyped DEF Typed, TypeOK
  <2> QED BY <2>1, JobQueueAssumption DEF Row
<1>1. row[j].retry \in Nat
  BY NumbersOfCalls
<1>2. row \in [Jobs -> Row]
  BY DEF Typed, TypeOK
<1>3. ASSUME NEW c \in Calls, CallStep(c)
      PROVE  /\ row[j].state # "done" /\ ~(row'[j].retry < row[j].retry)
             /\ row[j].state = "started" =>
                   JobRetriesIgnored(c) \/ Bump(row[j].retry) =< row'[j].retry
  <2>1. CASE row[j].state = "enqueued" /\ row'[j].retry = row[j].retry
    BY <1>1, <2>1
  <2>2. CASE /\ row[j].state \in {"started", "gone"}
             /\ row[j].retry =< row'[j].retry
             /\ JobRetriesIgnored(c) \/ Bump(row[j].retry) =< row'[j].retry
    BY <1>0, <1>1, <2>2
  <2> QED BY <1>3, <2>1, <2>2, CallWrites
<1>4. ASSUME NEW k \in Jobs, RowStep(k)
      PROVE  \/ Requeue(j) \/ Autovacuum(j)
             \/ RequeueStuck(j) /\ IsRunning(j)
             \/ /\ ~(row'[j].retry < row[j].retry)
                /\ row[j].state = "done" => row'[j].state = "done"
                /\ row[j].state = "started" => row'[j].state # "pending"
  BY <1>0, <1>1, <1>4, RowWrites
<1>5. CASE \E c \in Calls : CallStep(c)
  BY <1>3, <1>5
<1>6. CASE \E k \in Jobs : RowStep(k)
  <2>1. CASE RequeueStuck(j) /\ IsRunning(j)
    BY <2>1 DEF IsRunning
  <2>2. CASE Requeue(j)
    BY <2>2
  <2>3. CASE Autovacuum(j)
    <3>1. row'[j].state # "pending"
      BY <1>2, <2>3 DEF Autovacuum, Absent
    <3> QED BY <2>3, <3>1
  <2>4. CASE /\ ~(row'[j].retry < row[j].retry)
             /\ row[j].state = "done" => row'[j].state = "done"
             /\ row[j].state = "started" => row'[j].state # "pending"
    BY <2>4
  <2> QED BY <1>4, <1>6, <2>1, <2>2, <2>3, <2>4
<1>7. (RunnerStep \/ Crash) \/ (\E c \in Calls : CallStep(c)) \/ \E k \in Jobs : RowStep(k)
  BY DEF Next, vars
<1>8. CASE RunnerStep \/ Crash
  <2>1. j = picked /\ row'[j].retry = row[j].retry /\ row'[j].state = "enqueued"
    BY <1>8, RunnerWrites
  <2> QED BY <1>1, <2>1
<1> QED BY <1>5, <1>6, <1>7, <1>8

(* The retry counter of a job restarts only when it is requeued or deleted, *)
(* and counts every attempt that hands the job back.                        *)
THEOREM RetriesAreKept ==
    ASSUME Careful
    PROVE  Spec => RetryNeverLost
<1>1. Typed /\ Owned /\ [Next]_vars =>
        [\A j \in Jobs :
            /\ row'[j].retry < row[j].retry =>
                  Requeue(j) \/ RequeueStuck(j) \/ Autovacuum(j)
            /\ row[j].state = "started" /\ row'[j].state = "pending" =>
                  \/ Requeue(j) \/ RequeueStuck(j)
                  \/ \E c \in Calls : JobRetriesIgnored(c)
                  \/ Bump(row[j].retry) =< row'[j].retry]_vars
  <2> SUFFICES ASSUME Typed, Owned, [Next]_vars, NEW j \in Jobs
               PROVE  /\ row'[j].retry < row[j].retry =>
                            Requeue(j) \/ RequeueStuck(j) \/ Autovacuum(j)
                      /\ row[j].state = "started" /\ row'[j].state = "pending" =>
                            \/ Requeue(j) \/ RequeueStuck(j)
                            \/ \E c \in Calls : JobRetriesIgnored(c)
                            \/ Bump(row[j].retry) =< row'[j].retry
    OBVIOUS
  <2>1. CASE row'[j] = row[j]
    BY <2>1, NumbersOfCalls
  <2>2. CASE row'[j] # row[j]
    BY <2>2, Writers
  <2> QED BY <2>1, <2>2
<1>2. Spec => [](Typed /\ Inv /\ Owned)
  BY CarefulInvariance
<1> QED BY <1>1, <1>2, PTL DEF Spec, RetryNeverLost

(* A done job is done until it is requeued, deleted, or sent again because *)
(* it was set done after the runner had picked it.                         *)
THEOREM DoneStays ==
    ASSUME Careful
    PROVE  Spec => DoneIsFinal
<1>1. Typed /\ Owned /\ [Next]_vars =>
        [\A j \in Jobs : row[j].state = "done" /\ row'[j].state # "done" =>
            Requeue(j) \/ Autovacuum(j) \/ j = picked]_vars
  BY Writers
<1>2. Spec => [](Typed /\ Inv /\ Owned)
  BY CarefulInvariance
<1> QED BY <1>1, <1>2, PTL DEF Spec, DoneIsFinal

=============================================================================
