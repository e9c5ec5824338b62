----------------------------- MODULE JobIdentity -----------------------------
(***************************************************************************)
(* Jobs with an identity key, and methods that are delayed by themselves.  *)
(*                                                                         *)
(* A caller that delays a job gives it an identity key: when a job with    *)
(* that key waits already, none is made and the caller gets that one.  The *)
(* caller's transaction sees the rows that there were when it began, and   *)
(* its own.  The method may be one that _patch_job_auto_delay has patched: *)
(* it delays itself when it is called, unless that is done by a job.       *)
(*                                                                         *)
(* All jobs here are of one method, one record and one key.  What a job is *)
(* asked to process is what its caller's transaction writes.               *)
(***************************************************************************)
EXTENDS Integers, FiniteSets

CONSTANTS
    Transactions,   \* the callers' transactions
    Jobs,           \* uuids
    MaxAgain,       \* bound: how often jobs are put back to pending
    None

(* The context of a call: what a patched method is told by its caller.     *)
Contexts == {{}, {"auto_delay"}, {"auto_delay", "_job_force_sync"},
             {"auto_delay", "test_queue_job_no_delay"}}

(* The row of a job; knew: the jobs that there were for its maker.         *)
Rows ==
    [state : {"pending", "enqueued", "started", "done", "failed"},
     context : Contexts, knew : SUBSET Jobs]

JobIdentityAssumption == None \notin Jobs /\ None \notin Rows

VARIABLES
    trans,    \* [Transactions -> phase, view, own, answer]
    row,      \* [Jobs -> state, context, knew; or None]: the committed rows
    work,     \* [Jobs -> the transactions whose data the job has processed]
    again,    \* jobs that were put back to pending; history
    missed,   \* transactions whose job started before they ended; history
    left      \* how often jobs may still be put back

vars == <<trans, row, work, again, missed, left>>

-----------------------------------------------------------------------------
Committed == {t \in Transactions : trans[t].phase = "committed"}

Waiting == {"pending", "enqueued"}

(* Mutant of Waits: a job that has started is answered with, too.          *)
NotDone(state) == state \in Waiting \cup {"started"}

(* Also the condition of queue_job_identity_key_state_partial_index.       *)
Waits(state) == state \in Waiting

(* job_record_with_same_identity_key: in the rows as they were when the    *)
(* transaction began, and among its own.                                   *)
SameKey(t) ==
    trans[t].own \cup {j \in Jobs : trans[t].view[j] # None /\ Waits(trans[t].view[j].state)}

Fresh == {j \in Jobs : row[j] = None /\ \A t \in Transactions : j \notin trans[t].own}

(* auto_delay_wrapper: the method's own body is run at once.               *)
RunsDirectly(context) ==
    \/ "auto_delay" \notin context
    \/ context \cap {"job_uuid", "_job_force_sync", "test_queue_job_no_delay"} # {}

(* Mutant of JobContext: as it was stored.                                 *)
StoredContext(context) == context

(* Job.func: the job's own uuid is added to the context that was stored.   *)
JobContext(context) == context \cup {"job_uuid"}

Init ==
    /\ trans = [t \in Transactions |->
                   [phase |-> "new", view |-> [j \in Jobs |-> None], own |-> {},
                    answer |-> None, context |-> {}]]
    /\ row = [j \in Jobs |-> None]
    /\ work = [j \in Jobs |-> {}]
    /\ again = {} /\ missed = {}
    /\ left = MaxAgain

-----------------------------------------------------------------------------
(* Callers.                                                                *)

Begin(t) ==
    /\ trans[t].phase = "new"
    /\ trans' = [trans EXCEPT ![t].phase = "open", ![t].view = row]
    /\ UNCHANGED <<row, work, again, missed, left>>

(* Job.enqueue gives the job that waits already, ...                       *)
Reuse(t) == \E j \in SameKey(t) : trans' = [trans EXCEPT ![t].answer = j]

(* ... or else stores a new one, with the context of the call.             *)
Make(t, context) ==
    /\ SameKey(t) = {}
    /\ \E j \in Fresh :
          trans' = [trans EXCEPT ![t].answer = j, ![t].own = {j}, ![t].context = context]

(* The patched method runs at once, or is delayed (with_delay).            *)
Call(t, context) ==
    /\ trans[t].phase = "open" /\ trans[t].answer = None
    /\ \/ RunsDirectly(context) /\ UNCHANGED trans
       \/ ~RunsDirectly(context) /\ (Reuse(t) \/ Make(t, context))
    /\ UNCHANGED <<row, work, again, missed, left>>

(* The rows of its jobs are there from now on.                             *)
Stored(t) ==
    [k \in Jobs |->
        IF k \in trans[t].own
        THEN [state |-> "pending", context |-> trans[t].context,
              knew |-> {j \in Jobs : trans[t].view[j] # None}]
        ELSE row[k]]

Commit(t) ==
    LET j == trans[t].answer
    IN  /\ trans[t].phase = "open"
        /\ trans' = [trans EXCEPT ![t].phase = "committed"]
        /\ row' = Stored(t)
        /\ missed' = IF j \in Jobs \ trans[t].own /\ row[j].state \notin Waiting
                        /\ trans[t].view[j].state \in Waiting
                     THEN missed \cup {t} ELSE missed
        /\ UNCHANGED <<work, again, left>>

Rollback(t) ==
    /\ trans[t].phase = "open"
    /\ trans' = [trans EXCEPT ![t].phase = "gone", ![t].own = {}, ![t].answer = None]
    /\ UNCHANGED <<row, work, again, missed, left>>

-----------------------------------------------------------------------------
(* Jobs, as JobQueue runs them.                                            *)

InState(j, states) == row[j] # None /\ row[j].state \in states

Becomes(j, from, to) ==
    /\ InState(j, from)
    /\ row' = [row EXCEPT ![j].state = to]

Send(j) ==
    /\ Becomes(j, {"pending"}, "enqueued")
    /\ UNCHANGED <<trans, work, again, missed, left>>

Start(j) ==
    /\ Becomes(j, {"enqueued"}, "started")
    /\ UNCHANGED <<trans, work, again, missed, left>>

(* The method is called with the job's context: it processes what is       *)
(* committed, or delays itself once more.                                  *)
Perform(j) ==
    /\ Becomes(j, {"started"}, "done")
    /\ work' = [work EXCEPT ![j] = IF RunsDirectly(JobContext(row[j].context))
                                   THEN Committed ELSE @]
    /\ UNCHANGED <<trans, again, missed, left>>

Fail(j) ==
    /\ Becomes(j, {"started"}, "failed")
    /\ UNCHANGED <<trans, work, again, missed, left>>

(* A retry that is postponed, a stuck job, a job requeued by a manager.    *)
Again(j) ==
    /\ left > 0
    /\ Becomes(j, {"started", "failed", "done"}, "pending")
    /\ again' = again \cup {j}
    /\ left' = left - 1
    /\ UNCHANGED <<trans, work, missed>>

Next ==
    \/ \E t \in Transactions :
          Begin(t) \/ Commit(t) \/ Rollback(t) \/ \E c \in Contexts : Call(t, c)
    \/ \E j \in Jobs : Send(j) \/ Start(j) \/ Perform(j) \/ Fail(j) \/ Again(j)

Spec == Init /\ [][Next]_vars

-----------------------------------------------------------------------------
(* Two jobs of one key wait together only if neither maker saw the other's *)
(* job, or one of them came back after it had run: "when a job should be   *)
(* created and a pending job with the exact same recordset and arguments,  *)
(* the second will not be created".                                        *)
OneWaits ==
    \A i, j \in Jobs : i # j /\ InState(i, Waiting) /\ InState(j, Waiting) =>
        \/ i \notin row[j].knew /\ j \notin row[i].knew
        \/ {i, j} \cap again # {}

(* A caller that was given a job, its own or another's, finds its data     *)
(* processed when the job is done, the method having run and not delayed   *)
(* itself again; but for a job that started before the caller's            *)
(* transaction had ended.                                                  *)
CallsServed ==
    \A t \in Committed \ missed :
        trans[t].answer # None /\ InState(trans[t].answer, {"done"}) =>
            t \in work[trans[t].answer]
=============================================================================
