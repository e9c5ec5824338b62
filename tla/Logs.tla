-------------------------------- MODULE Logs --------------------------------
(***************************************************************************)
(* The log of an import or an export: what users see of a job.             *)
(*                                                                         *)
(* A log is made together with its job, whose context names it.  The       *)
(* context is stored with the job, so that jobs that this one makes have   *)
(* the same log.  When the outcome of a job is committed, a hook writes it *)
(* to the log, in a transaction of its own: hooks of two jobs, or of two   *)
(* outcomes of one job that is requeued, may run in any order, or not at   *)
(* all if their process dies.  Users resolve logs, run them again, and a   *)
(* cron deletes those that tell of success.                                *)
(***************************************************************************)
EXTENDS Integers, FiniteSets

CONSTANTS
    MaxRequeues,   \* bound: how often jobs are requeued
    MaxAcc,        \* bound: processes that die, records that users delete
    None

(* What a log says.                                                        *)
LogRecords ==
    [status : {"draft", "done", "failed"}, resolved : BOOLEAN, linked : BOOLEAN]

LogsAssumption == None \notin LogRecords

VARIABLES
    job,       \* [main, sub -> none, pending, started, done, failed]
    log,       \* [status, resolved, linked]; None: deleted
    hooks,     \* outcomes that are not yet written: [n, status]
    outcomes,  \* how many outcomes were committed
    written,   \* the number of the one that the log tells
    record,    \* Odoo has the record that is imported
    byHand,    \* users resolved the log or ran it; history
    wasDone,   \* the log told of success; history
    rerun,     \* jobs that were made from the log and have not ended
    requeues, accidents,
    lost       \* an outcome was not written, or after a later one; history

vars == <<job, log, hooks, outcomes, written, record, byHand, wasDone, rerun,
          requeues, accidents, lost>>

Parts == {"main", "sub"}

-----------------------------------------------------------------------------
Init ==
    /\ job = [p \in Parts |-> IF p = "main" THEN "pending" ELSE "none"]
    /\ log = [status |-> "draft", resolved |-> FALSE, linked |-> FALSE]
    /\ hooks = {} /\ outcomes = 0 /\ written = 0
    /\ record \in BOOLEAN
    /\ byHand = FALSE /\ wasDone = FALSE /\ rerun = 0
    /\ requeues = 0 /\ accidents = 0
    /\ lost = FALSE

history == <<byHand, wasDone, lost>>

-----------------------------------------------------------------------------
(* Jobs.                                                                   *)

Start(p) ==
    /\ job[p] = "pending"
    /\ job' = [job EXCEPT ![p] = "started"]
    /\ UNCHANGED <<log, hooks, outcomes, written, record, rerun, requeues, accidents, history>>

(* write of queue.job: a hook for the outcome once it is committed.        *)
Outcome(status) ==
    /\ outcomes' = outcomes + 1
    /\ hooks' = hooks \cup {[n |-> outcomes + 1, status |-> status]}

(* The job makes the record, or finds nothing to do; the main one may make *)
(* another job, with its own context.                                      *)
Succeed(p) ==
    /\ job[p] = "started"
    /\ \/ job' = [job EXCEPT ![p] = "done"]
       \/ /\ p = "main" /\ job["sub"] = "none"
          /\ job' = [job EXCEPT !.main = "done", !.sub = "pending"]
    /\ Outcome("done")
    /\ record' \in {record, TRUE}
    /\ UNCHANGED <<log, written, rerun, requeues, accidents, history>>

Fail(p) ==
    /\ job[p] = "started"
    /\ job' = [job EXCEPT ![p] = "failed"]
    /\ Outcome("failed")
    /\ UNCHANGED <<log, written, record, rerun, requeues, accidents, history>>

(* A job that is pending again leaves the log as it is.                    *)
Requeue(p) ==
    /\ requeues < MaxRequeues /\ requeues' = requeues + 1
    /\ job[p] \in {"done", "failed"}
    /\ job' = [job EXCEPT ![p] = "pending"]
    /\ UNCHANGED <<log, hooks, outcomes, written, record, rerun, accidents, history>>

-----------------------------------------------------------------------------
(* Mutant of Updated: write does not resolve the log.                      *)
UpdatedOnly(status) == [log EXCEPT !.status = status, !.linked = record]

(* update_status, and write: a log that tells of success is resolved.      *)
Updated(status) ==
    [status |-> status, linked |-> record, resolved |-> log.resolved \/ status = "done"]

(* Mutant of Deletes: a log of a failure is deleted as well.               *)
DeletesAny(status) == ~record

(* "Cannot find record": a success without a record.                       *)
Deletes(status) == status = "done" /\ ~record

(* A hook runs.                                                            *)
WriteLog(h) ==
    /\ h \in hooks
    /\ hooks' = hooks \ {h}
    /\ log' = IF log = None \/ Deletes(h.status) THEN None ELSE Updated(h.status)
    /\ written' = h.n
    /\ lost' = (lost \/ h.n < written)
    /\ wasDone' = (wasDone \/ h.status = "done")
    /\ UNCHANGED <<job, outcomes, record, rerun, requeues, accidents, byHand>>

(* Its process dies first, or its write is refused.                        *)
LoseHook(h) ==
    /\ accidents < MaxAcc /\ accidents' = accidents + 1
    /\ h \in hooks
    /\ hooks' = hooks \ {h}
    /\ lost' = TRUE
    /\ UNCHANGED <<job, log, outcomes, written, record, rerun, requeues, byHand, wasDone>>

-----------------------------------------------------------------------------
(* Users and the cron.                                                     *)

(* multi_import, multi_export: logs of an outcome that is not resolved.    *)
MayRun == log # None /\ log.status # "draft" /\ ~log.resolved

Run ==
    /\ MayRun /\ rerun = 0
    /\ rerun' = 1
    /\ log' = [log EXCEPT !.resolved = TRUE]
    /\ byHand' = TRUE
    /\ UNCHANGED <<job, hooks, outcomes, written, record, requeues, accidents, wasDone, lost>>

(* The job of a log that was run again has no log.                         *)
RerunEnds ==
    /\ rerun = 1
    /\ rerun' = 0
    /\ record' \in {record, TRUE}
    /\ UNCHANGED <<job, log, hooks, outcomes, written, requeues, accidents, history>>

(* multi_resolved, multi_unresolved, toogle_resolved.                      *)
Resolve ==
    /\ log # None /\ log.status # "draft"
    /\ log' = [log EXCEPT !.resolved = ~@]
    /\ byHand' = TRUE
    /\ UNCHANGED <<job, hooks, outcomes, written, record, rerun, requeues, accidents,
                   wasDone, lost>>

ClearSuccessful ==
    /\ log # None /\ log.status = "done"
    /\ log' = None
    /\ UNCHANGED <<job, hooks, outcomes, written, record, rerun, requeues, accidents, history>>

DeleteRecord ==
    /\ accidents < MaxAcc /\ accidents' = accidents + 1
    /\ record /\ record' = FALSE
    /\ log' = IF log = None THEN None ELSE [log EXCEPT !.linked = FALSE]
    /\ UNCHANGED <<job, hooks, outcomes, written, rerun, requeues, history>>

Next ==
    \/ \E p \in Parts : Start(p) \/ Succeed(p) \/ Fail(p) \/ Requeue(p)
    \/ \E h \in hooks : WriteLog(h) \/ LoseHook(h)
    \/ Run \/ RerunEnds \/ Resolve \/ ClearSuccessful \/ DeleteRecord

Spec == Init /\ [][Next]_vars

-----------------------------------------------------------------------------
(* A failure of a job, or of one that it made, is in the log and not taken *)
(* for resolved, once the hooks have run: unless a user has resolved it,   *)
(* the log told of success before, a hook was lost or overtaken, or a job  *)
(* was requeued.                                                           *)
FailuresTold ==
    hooks = {} /\ ~lost /\ requeues = 0 /\ (\E p \in Parts : job[p] = "failed") =>
        \/ log = None /\ wasDone
        \/ log # None /\ log.status = "failed" /\ (log.resolved => byHand \/ wasDone)

(* A log that tells of success has its record, until that is deleted, and  *)
(* its jobs have succeeded as far as they have ended; only a user leaves   *)
(* it unresolved.                                                          *)
SuccessIsTrue ==
    log # None /\ log.status = "done" =>
        /\ log.linked \/ accidents > 0
        /\ log.resolved \/ byHand
        /\ (hooks = {} /\ ~lost /\ requeues = 0) =>
              \A p \in Parts : job[p] # "failed"
=============================================================================
