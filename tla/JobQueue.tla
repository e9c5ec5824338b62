------------------------------ MODULE JobQueue ------------------------------
(***************************************************************************)
(* The job queue: rows of the table queue_job, the job runner's memory of  *)
(* them, and the HTTP calls by which the runner asks Odoo to run a job.    *)
(*                                                                         *)
(* A job is a row.  Every INSERT or UPDATE of a row, and every DELETE of a *)
(* row that is not done, notifies the runner (LISTEN/NOTIFY).  The runner  *)
(* reads the row again and files the job in its channel; when the channel  *)
(* has capacity it writes the row enqueued and starts a thread that sends  *)
(* GET /queue_job/runjob.  The handler of that request locks the row,      *)
(* writes it started, commits, runs the job's method and stores the        *)
(* outcome.  The thread waits one second for the answer and, without one,  *)
(* writes the row pending again if it is still enqueued.                   *)
(*                                                                         *)
(* Jobs are ordered by data (priority, dates) that no property here tells  *)
(* apart: Pick chooses any job that is due.  Module Channels has the order *)
(* and the tree of channels; here there is one channel, the root.          *)
(***************************************************************************)
EXTENDS Naturals, FiniteSets

CONSTANTS
    Jobs,             \* job uuids
    Calls,            \* HTTP requests outstanding at once
    None,             \* no job
    Capacity,         \* capacity of the root channel
    MaxRetries,       \* max_retries of every job; 0 is "retry for ever"
    RetryCap,         \* bound: the retry counter saturates here
    Disturbances,     \* which faults and interventions may happen
    MaxDisturbances,  \* bound: how many of them
    Careful           \* TRUE: a job is requeued, or set done, by hand or by
                      \* the garbage collector only when no handler runs it

ASSUME JobQueueAssumption ==
    /\ IsFiniteSet(Jobs) /\ None \notin Jobs
    /\ Capacity \in Nat \ {0}
    /\ MaxRetries \in Nat /\ RetryCap \in Nat /\ MaxRetries =< RetryCap
    /\ MaxDisturbances \in Nat
    /\ Careful \in BOOLEAN

VARIABLES
    row,        \* the table: state, retry, eta in the future, date_done set
    notified,   \* jobs with a notification in the runner's connection
    view,       \* the runner's filing of each job in the root channel
    runner,     \* where the runner's loop is
    picked,     \* the job run_jobs took from the channel and has not sent
    call,       \* the HTTP requests, both ends
    disturbed   \* disturbances so far

vars == <<row, notified, view, runner, picked, call, disturbed>>

-----------------------------------------------------------------------------
States == {"new", "pending", "enqueued", "started", "done", "failed", "gone"}

Row == [state : States, retry : 0..RetryCap, later : BOOLEAN, dated : BOOLEAN]

Filings == {"absent", "queued", "delayed", "running", "failed"}

CallRecord ==
    [pc : {"idle", "sent", "started", "performing", "errored"},
     job : Jobs \cup {None}, waiting : BOOLEAN,
     retry : 0..RetryCap, dated : BOOLEAN, stale : BOOLEAN]

Absent(s) == [state |-> s, retry |-> 0, later |-> FALSE, dated |-> FALSE]

(* A request whose handler has not loaded its job.                         *)
Request(pc, j, waiting) ==
    [pc |-> pc, job |-> j, waiting |-> waiting,
     retry |-> 0, dated |-> FALSE, stale |-> FALSE]

Idle == Request("idle", None, FALSE)

(* A row that counts as running for the runner. *)
IsRunning(j) == row[j].state \in {"enqueued", "started"}

Exists(j) == row[j].state \notin {"new", "gone"}

Executing(c) == call[c].pc \in {"started", "performing"}

(* No handler is running the body of job j. *)
NotExecuting(j) == \A c \in Calls : call[c].job = j => ~Executing(c)

(* Mutant of Filing: the raw state of the row is taken for the filing.     *)
RawFiling(r) == r.state

(* How ChannelManager.notify files a job, given its row. *)
Filing(r) ==
    CASE r.state = "pending" -> IF r.later THEN "delayed" ELSE "queued"
      [] r.state \in {"enqueued", "started"} -> "running"
      [] r.state = "failed" -> "failed"
      [] OTHER -> "absent"

Running == {j \in Jobs : view[j] = "running"}

(* Mutant of HasCapacity: off by one.                                      *)
HasRoomForOneMore == Cardinality(Running) =< Capacity

HasCapacity == Cardinality(Running) < Capacity

Bump(n) == IF n < RetryCap THEN n + 1 ELSE n

(* Mutant of Notify: the trigger speaks of pending rows only.              *)
NotifyPending(j) ==
    notified' = IF runner = "down" \/ row'[j].state # "pending"
                THEN notified ELSE notified \cup {j}

(* The trigger queue_job_notify; nobody listens while the runner is down. *)
Notify(j) == notified' = IF runner = "down" THEN notified ELSE notified \cup {j}

(* The handlers whose snapshot another transaction's write of j outdates.  *)
Outdated(j) ==
    [c \in Calls |->
        IF call[c].pc = "performing" /\ call[c].job = j
        THEN [call[c] EXCEPT !.stale = TRUE] ELSE call[c]]

(* A committed write of the row of j by something other than a handler.    *)
Write(j, r) ==
    /\ row' = [row EXCEPT ![j] = r]
    /\ Notify(j)
    /\ call' = Outdated(j)

Disturb(kind) ==
    /\ kind \in Disturbances
    /\ disturbed < MaxDisturbances
    /\ disturbed' = disturbed + 1

Init ==
    /\ row = [j \in Jobs |-> Absent("new")]
    /\ notified = {}
    /\ view = [j \in Jobs |-> "absent"]
    /\ runner = "down"
    /\ picked = None
    /\ call = [c \in Calls |-> Idle]
    /\ disturbed = 0

-----------------------------------------------------------------------------
(* The callers of with_delay, and the clock.                               *)

(* A transaction that delayed job j commits.                               *)
Enqueue(j) ==
    /\ row[j].state = "new"
    /\ \E later \in BOOLEAN :
          Write(j, [state |-> "pending", retry |-> 0,
                    later |-> later, dated |-> FALSE])
    /\ UNCHANGED <<view, runner, picked, disturbed>>

(* The eta of j is reached, in the table and in the runner's eta queue.    *)
EtaPasses(j) ==
    /\ row[j].later \/ view[j] = "delayed"
    /\ row' = [row EXCEPT ![j].later = FALSE]
    /\ view' = [view EXCEPT ![j] = IF @ = "delayed" THEN "queued" ELSE @]
    /\ UNCHANGED <<notified, runner, picked, call, disturbed>>

-----------------------------------------------------------------------------
(* The runner.                                                             *)

(* Mutant of InitializeDatabases: only pending rows are read.              *)
InitializePending ==
    /\ runner = "down"
    /\ runner' = "notify"
    /\ view' = [j \in Jobs |-> IF IsRunning(j) THEN "absent" ELSE Filing(row[j])]
    /\ UNCHANGED <<row, notified, picked, call, disturbed>>

(* LISTEN, then read every row that is not done.  A row written between    *)
(* the two also leaves a notification, so reading at once loses nothing.   *)
InitializeDatabases ==
    /\ runner = "down"
    /\ runner' = "notify"
    /\ view' = [j \in Jobs |-> Filing(row[j])]
    /\ UNCHANGED <<row, notified, picked, call, disturbed>>

(* One notification: read the row as it is now and file the job.  Several  *)
(* notifications of a job are one: each would read the same current row.   *)
ProcessNotification(j) ==
    /\ runner = "notify"
    /\ j \in notified
    /\ notified' = notified \ {j}
    /\ view' = [view EXCEPT ![j] = Filing(row[j])]
    /\ UNCHANGED <<row, runner, picked, call, disturbed>>

(* process_notifications returns: the notifications fetched so far are     *)
(* handled, others may be on their way.                                    *)
StartRunJobs ==
    /\ runner = "notify"
    /\ runner' = "jobs"
    /\ UNCHANGED <<row, notified, view, picked, call, disturbed>>

(* get_jobs_to_run yields a job and marks it running in the channel.       *)
Pick(j) ==
    /\ runner = "jobs"
    /\ HasCapacity
    /\ view[j] = "queued"
    /\ view' = [view EXCEPT ![j] = "running"]
    /\ runner' = "send"
    /\ picked' = j
    /\ UNCHANGED <<row, notified, call, disturbed>>

(* set_job_enqueued writes the row whatever its state is now, then a       *)
(* thread sends the request.  Without the row the UPDATE changes nothing.  *)
Send ==
    /\ runner = "send"
    /\ \E c \in Calls :
          /\ call[c] = Idle
          /\ LET sent == Request("sent", picked, TRUE)
             IN  IF Exists(picked)
                 THEN /\ row' = [row EXCEPT ![picked].state = "enqueued"]
                      /\ Notify(picked)
                      /\ call' = [Outdated(picked) EXCEPT ![c] = sent]
                 ELSE /\ call' = [call EXCEPT ![c] = sent]
                      /\ UNCHANGED <<row, notified>>
    /\ runner' = "jobs"
    /\ picked' = None
    /\ UNCHANGED <<view, disturbed>>

(* Nothing left to yield: back to wait_notification and the next loop.     *)
EndRunJobs ==
    /\ runner = "jobs"
    /\ ~(HasCapacity /\ \E j \in Jobs : view[j] = "queued")
    /\ runner' = "notify"
    /\ UNCHANGED <<row, notified, view, picked, call, disturbed>>

RunnerForgets ==
    /\ runner # "down"
    /\ runner' = "down"
    /\ picked' = None
    /\ notified' = {}
    /\ view' = [j \in Jobs |-> "absent"]
    /\ UNCHANGED row

(* An exception in the loop, or a stop between Pick and Send: the jobs of  *)
(* the database are removed from the channels and its connection closed;   *)
(* the threads that wait for answers live on.                              *)
RunnerFails ==
    /\ Disturb("runner")
    /\ RunnerForgets
    /\ UNCHANGED call

(* The runner's process dies, and its threads with it.                     *)
RunnerDies ==
    /\ Disturb("runner")
    /\ RunnerForgets
    /\ call' = [c \in Calls |->
                   IF call[c].pc = "errored" THEN Idle
                   ELSE [call[c] EXCEPT !.waiting = FALSE]]

-----------------------------------------------------------------------------
(* The thread of a request.                                                *)

(* Mutant of GiveUp: the UPDATE does not ask for the state enqueued.       *)
GiveUpAnyState(c) ==
    LET j == call[c].job
        closed == IF call[c].pc = "errored" THEN Idle
                  ELSE [call[c] EXCEPT !.waiting = FALSE]
    IN  /\ call[c].waiting
        /\ IF Exists(j)
           THEN /\ row' = [row EXCEPT ![j].state = "pending"]
                /\ Notify(j)
                /\ call' = [Outdated(j) EXCEPT ![c] = closed]
           ELSE /\ call' = [call EXCEPT ![c] = closed]
                /\ UNCHANGED <<row, notified>>
        /\ UNCHANGED <<view, runner, picked>>

(* No answer within a second, or an error: UPDATE ... SET state pending    *)
(* WHERE uuid and state = enqueued.                                        *)
GiveUp(c) ==
    LET j == call[c].job
        closed == IF call[c].pc = "errored" THEN Idle
                  ELSE [call[c] EXCEPT !.waiting = FALSE]
    IN  /\ call[c].waiting
        /\ IF row[j].state = "enqueued"
           THEN /\ row' = [row EXCEPT ![j].state = "pending"]
                /\ Notify(j)
                /\ call' = [Outdated(j) EXCEPT ![c] = closed]
           ELSE /\ call' = [call EXCEPT ![c] = closed]
                /\ UNCHANGED <<row, notified>>
        /\ UNCHANGED <<view, runner, picked>>

(* A late answer to a request whose job still waits is a disturbance, as   *)
(* it sends the job round again.                                           *)
ClientGivesUp(c) ==
    /\ GiveUp(c)
    /\ IF call[c].pc = "sent" /\ row[call[c].job].state = "enqueued"
       THEN Disturb("timeout") ELSE UNCHANGED disturbed

-----------------------------------------------------------------------------
(* The handler of a request: RunJobController.runjob.                      *)

(* The request ends.  A good answer ends its thread too; an error is still *)
(* to be seen by the thread, if that still waits.                          *)
Answered == Idle

Errored(c) ==
    IF call[c].waiting
    THEN Request("errored", call[c].job, TRUE)
    ELSE Idle

(* Mutant of StartJob: a row that is already started is taken as well.     *)
StartJobAgain(c) ==
    LET j == call[c].job
    IN  /\ call[c].pc = "sent"
        /\ IsRunning(j)
        /\ row' = [row EXCEPT ![j].state = "started"]
        /\ Notify(j)
        /\ call' = [Outdated(j) EXCEPT
                      ![c] = [call[c] EXCEPT !.pc = "started",
                                             !.retry = row[j].retry,
                                             !.dated = row[j].dated]]
        /\ UNCHANGED <<view, runner, picked, disturbed>>

(* SELECT ... WHERE state = enqueued FOR UPDATE finds the row: it is       *)
(* written started and committed before another transaction can touch it.  *)
StartJob(c) ==
    LET j == call[c].job
    IN  /\ call[c].pc = "sent"
        /\ row[j].state = "enqueued"
        /\ row' = [row EXCEPT ![j].state = "started"]
        /\ Notify(j)
        /\ call' = [Outdated(j) EXCEPT
                      ![c] = [call[c] EXCEPT !.pc = "started",
                                             !.retry = row[j].retry,
                                             !.dated = row[j].dated]]
        /\ UNCHANGED <<view, runner, picked, disturbed>>

(* The row is not enqueued, or not there: nothing is done.                 *)
RefuseJob(c) ==
    /\ call[c].pc = "sent"
    /\ row[call[c].job].state # "enqueued"
    /\ call' = [call EXCEPT ![c] = Answered]
    /\ UNCHANGED <<row, notified, view, runner, picked, disturbed>>

(* perform counts the attempt, in the handler's copy only, and runs the    *)
(* method, whose first query opens the second transaction's snapshot.      *)
Attempt(c) == Bump(call[c].retry)

Perform(c) ==
    /\ call[c].pc = "started"
    /\ call' = [call EXCEPT ![c].pc = "performing"]
    /\ UNCHANGED <<row, notified, view, runner, picked, disturbed>>

(* store(): the whole row r, from the handler's copy.  If the row is gone, *)
(* store() creates it again under the same uuid.                           *)
StoreOutcome(c, r, answer) ==
    LET j == call[c].job
    IN  /\ call[c].pc = "performing"
        /\ row' = [row EXCEPT ![j] = r]
        /\ Notify(j)
        /\ call' = [Outdated(j) EXCEPT ![c] = answer]
        /\ UNCHANGED <<view, runner, picked>>

(* Mutant of Postponed: set_pending with its default reset_retry=True.     *)
PostponedAfresh(retry, dated) ==
    [state |-> "pending", retry |-> 0, later |-> TRUE, dated |-> dated]

(* The row after postpone and set_pending(reset_retry=False).              *)
Postponed(retry, dated) ==
    [state |-> "pending", retry |-> retry, later |-> TRUE, dated |-> dated]

(* The row after set_failed.                                               *)
Failed(c, dated) ==
    [state |-> "failed", retry |-> Attempt(c), later |-> FALSE, dated |-> dated]

(* date_done of the handler's copy, before and after set_done: an error of *)
(* the flush or the commit that follow finds it set, and keeps it.         *)
Dates(c) == {call[c].dated, TRUE}

(* The method returns, or says there is nothing to do: set_done in the     *)
(* method's own transaction, which commits only if its snapshot of the row *)
(* is still the current one.                                               *)
JobDone(c) ==
    /\ ~call[c].stale
    /\ StoreOutcome(c, [state |-> "done", retry |-> Attempt(c),
                        later |-> FALSE, dated |-> TRUE], Answered)
    /\ UNCHANGED disturbed

(* A serialization failure, of that commit or in the method: postponed in  *)
(* a transaction of its own, without looking at max_retries.               *)
JobConflicts(c) ==
    /\ \E dated \in Dates(c) : StoreOutcome(c, Postponed(Attempt(c), dated), Answered)
    /\ IF call[c].stale THEN UNCHANGED disturbed ELSE Disturb("conflict")

(* RetryableJobError: postponed, unless this was the last retry.           *)
JobRetries(c) ==
    /\ MaxRetries = 0 \/ Attempt(c) < MaxRetries
    /\ StoreOutcome(c, Postponed(Attempt(c), call[c].dated), Answered)
    /\ UNCHANGED disturbed

(* RetryableJobError(ignore_retry=True): the attempt is not counted.       *)
JobRetriesIgnored(c) ==
    /\ StoreOutcome(c, Postponed(call[c].retry, call[c].dated), Answered)
    /\ Disturb("ignore")

(* Any other exception, or a RetryableJobError that perform turned into a  *)
(* FailedJobError: set_failed, and the request answers 500.                *)
JobFails(c) ==
    /\ \E dated \in Dates(c) : StoreOutcome(c, Failed(c, dated), Errored(c))
    /\ UNCHANGED disturbed

(* NothingToDoJob whose commit meets a serialization failure: no clause    *)
(* catches it, so the row stays as it is and the request answers 500.      *)
NothingToDoConflicts(c) ==
    /\ call[c].pc = "performing" /\ call[c].stale
    /\ call' = [call EXCEPT ![c] = Errored(c)]
    /\ UNCHANGED <<row, notified, view, runner, picked, disturbed>>

(* The process that handles the request is killed: its transaction rolls   *)
(* back, the row keeps what was committed, the connection breaks.          *)
HandlerDies(c) ==
    /\ Disturb("handler")
    /\ call[c].pc \in {"sent", "started", "performing"}
    /\ call' = [call EXCEPT ![c] = Errored(c)]
    /\ UNCHANGED <<row, notified, view, runner, picked>>

-----------------------------------------------------------------------------
(* What managers, crons and a crash of the server do.                      *)

(* A job a handler runs is left alone by a careful manager.                *)
Permitted(j) == Careful => NotExecuting(j)

(* button_done, from the form or the wizard: the state is not looked at.   *)
ButtonDone(j) ==
    /\ Disturb("button_done")
    /\ Exists(j) /\ Permitted(j)
    /\ Write(j, [row[j] EXCEPT !.state = "done", !.dated = TRUE])
    /\ UNCHANGED <<view, runner, picked>>

(* requeue: pending, retry counter reset; eta and date_done are kept.      *)
Requeue(j) ==
    /\ Disturb("requeue")
    /\ Exists(j) /\ Permitted(j)
    /\ Write(j, [row[j] EXCEPT !.state = "pending", !.retry = 0])
    /\ UNCHANGED <<view, runner, picked>>

(* Mutant of RequeueStuck: started jobs that still run are requeued too.   *)
RequeueStuckHasty(j) ==
    /\ \/ /\ row[j].state = "enqueued"
          /\ \A c \in Calls : call[c].job = j => ~call[c].waiting
       \/ "started_delta" \in Disturbances /\ row[j].state = "started"
    /\ Write(j, [row[j] EXCEPT !.state = "pending", !.retry = 0])
    /\ UNCHANGED <<view, runner, picked, disturbed>>

(* Mutant of RequeueStuck: enqueued jobs are forgotten.                    *)
RequeueStuckStarted(j) ==
    /\ "started_delta" \in Disturbances
    /\ row[j].state = "started"
    /\ Permitted(j)
    /\ Write(j, [row[j] EXCEPT !.state = "pending", !.retry = 0])
    /\ UNCHANGED <<view, runner, picked, disturbed>>

(* requeue_stuck_jobs: a row that has been enqueued for minutes (the       *)
(* thread of its request has long stopped waiting); with a started_delta,  *)
(* a row that has been started for minutes.                                *)
RequeueStuck(j) ==
    /\ \/ /\ row[j].state = "enqueued"
          /\ \A c \in Calls : call[c].job = j => ~call[c].waiting
       \/ /\ "started_delta" \in Disturbances
          /\ row[j].state = "started"
          /\ Permitted(j)
    /\ Write(j, [row[j] EXCEPT !.state = "pending", !.retry = 0])
    /\ UNCHANGED <<view, runner, picked, disturbed>>

(* autovacuum: every row with an old date_done, whatever its state.  The   *)
(* trigger says nothing when a done row is deleted.                        *)
Autovacuum(j) ==
    /\ Disturb("autovacuum")
    /\ Exists(j) /\ row[j].dated
    /\ row' = [row EXCEPT ![j] = Absent("gone")]
    /\ call' = Outdated(j)
    /\ IF row[j].state = "done" THEN UNCHANGED notified ELSE Notify(j)
    /\ UNCHANGED <<view, runner, picked>>

(* The server is halted: runner, threads and handlers all end.             *)
Crash ==
    /\ Disturb("crash")
    /\ RunnerForgets
    /\ call' = [c \in Calls |-> Idle]

-----------------------------------------------------------------------------
JobEnds(c) ==
    \/ JobDone(c) \/ JobConflicts(c) \/ JobRetries(c) \/ JobRetriesIgnored(c)
    \/ JobFails(c) \/ NothingToDoConflicts(c)

RunnerStep ==
    \/ InitializeDatabases
    \/ StartRunJobs
    \/ \E j \in Jobs : ProcessNotification(j) \/ Pick(j)
    \/ Send
    \/ EndRunJobs
    \/ RunnerFails
    \/ RunnerDies

CallStep(c) ==
    \/ ClientGivesUp(c)
    \/ StartJob(c) \/ RefuseJob(c) \/ Perform(c) \/ JobEnds(c)
    \/ HandlerDies(c)

RowStep(j) ==
    \/ Enqueue(j) \/ EtaPasses(j)
    \/ ButtonDone(j) \/ Requeue(j) \/ RequeueStuck(j) \/ Autovacuum(j)

Next ==
    \/ RunnerStep
    \/ \E c \in Calls : CallStep(c)
    \/ \E j \in Jobs : RowStep(j)
    \/ Crash

Spec == Init /\ [][Next]_vars

(* The runner's loop and the threads make progress, the server gets to     *)
(* every request and every method ends, clocks run, and the two crons run. *)
Fairness ==
    /\ WF_vars(InitializeDatabases)
    /\ WF_vars(StartRunJobs /\ notified = {})
    /\ WF_vars(EndRunJobs)
    /\ WF_vars(Send)
    /\ WF_vars(\E j \in Jobs : Pick(j))
    /\ \A j \in Jobs : /\ SF_vars(ProcessNotification(j))
                       /\ WF_vars(EtaPasses(j))
                       /\ WF_vars(RequeueStuck(j))
    /\ \A c \in Calls : /\ WF_vars(ClientGivesUp(c))
                        /\ WF_vars(StartJob(c) \/ RefuseJob(c))
                        /\ WF_vars(Perform(c))
                        /\ WF_vars(JobEnds(c))

FairSpec == Spec /\ Fairness

-----------------------------------------------------------------------------
TypeOK ==
    /\ row \in [Jobs -> Row]
    /\ notified \subseteq Jobs
    /\ view \in [Jobs -> Filings]
    /\ runner \in {"down", "notify", "jobs", "send"}
    /\ picked \in Jobs \cup {None}
    /\ call \in [Calls -> CallRecord]
    /\ disturbed \in Nat

(* No change of a row is lost on the runner.  While it is up, every job it *)
(* has no notification for, and has not just taken from its channel, is    *)
(* filed as its row says: the order of LISTEN and SELECT, the reading of   *)
(* the current row, the trigger's silence on the deletion of a done row    *)
(* and the threads that write rows behind the runner's back all hinge on   *)
(* it.                                                                     *)
ViewConverges ==
    runner # "down" =>
        \A j \in Jobs : j \notin notified /\ j # picked => view[j] = Filing(row[j])

(* A row is enqueued or started only while the runner files its job as     *)
(* running: no notification in flight, no thread's reset and no restart    *)
(* lets the runner take a job whose request may still start.               *)
RunningIsFiled ==
    runner # "down" => \A j \in Jobs : IsRunning(j) => view[j] = "running"

(* The capacity of the root channel bounds the rows that are enqueued or   *)
(* started, over restarts of the runner, requeues and late writes by       *)
(* handlers, although set_running files jobs without asking for capacity.  *)
CapacityRespected == Cardinality({j \in Jobs : IsRunning(j)}) =< Capacity

(* With careful managers a job's method is never run by two handlers at    *)
(* once, although requests are sent again after a timeout and              *)
(* set_job_enqueued overwrites the row whatever its state.                 *)
NoDoubleExecution ==
    \A c, d \in Calls :
        Executing(c) /\ Executing(d) /\ call[c].job = call[d].job => c = d

(* With careful managers max_retries bounds what RetryableJobError may     *)
(* repeat: no handler's late write of its own copy of the row lowers the   *)
(* retry counter, which restarts only when the job is requeued or deleted, *)
(* and a started job that goes back to pending has one attempt more on its *)
(* counter, unless the method asked for it not to be counted.              *)
RetryNeverLost ==
    [][\A j \in Jobs :
          /\ row'[j].retry < row[j].retry =>
                Requeue(j) \/ RequeueStuck(j) \/ Autovacuum(j)
          /\ row[j].state = "started" /\ row'[j].state = "pending" =>
                \/ Requeue(j) \/ RequeueStuck(j)
                \/ \E c \in Calls : JobRetriesIgnored(c)
                \/ Bump(row[j].retry) =< row'[j].retry]_vars

(* A done job runs again only if it is requeued, or was set done between   *)
(* the moment the runner took it from the channel and the moment it wrote  *)
(* it enqueued: that UPDATE does not look at the state.                    *)
DoneIsFinal ==
    [][\A j \in Jobs : row[j].state = "done" /\ row'[j].state # "done" =>
          Requeue(j) \/ Autovacuum(j) \/ j = picked]_vars

(* What the callers of with_delay may rely on, with careful managers:      *)
(* module JobService, where the jobs being run are those of the handlers   *)
(* between the commit of started and the end of the request.               *)
Phase(s) ==
    CASE s = "pending" -> "waiting"
      [] s \in {"enqueued", "started"} -> "dispatched"
      [] s \in {"done", "failed"} -> "settled"
      [] OTHER -> s

Busy == {j \in Jobs : ~NotExecuting(j)}

Service == INSTANCE JobService
             WITH phase <- [j \in Jobs |-> Phase(row[j].state)], busy <- Busy

(* The queue implements that service: exclusive runs, bounded dispatch,    *)
(* and no change of a job's phase behind the back of its handler.          *)
ImplementsService == Service!Spec

(* What autovacuum says of itself: it deletes jobs that are done.          *)
VacuumsDoneJobs ==
    [][\A j \in Jobs : Exists(j) /\ row'[j].state = "gone" =>
          row[j].state = "done"]_vars

(* Every job that is delayed ends: done, failed or deleted, whatever       *)
(* timeouts, conflicts, crashes and restarts happen to it on the way.      *)
EveryJobSettles ==
    \A j \in Jobs :
        row[j].state = "pending" ~> row[j].state \in {"done", "failed", "gone"}
=============================================================================
