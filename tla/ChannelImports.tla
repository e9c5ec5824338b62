--------------------------- MODULE ChannelImports ---------------------------
(***************************************************************************)
(* What a channel tells of its imports of products: is_in_syncing, which   *)
(* the pages of the import look at, and done_job_uuid, the job that ends   *)
(* the import, whose state the user's page is told while it waits.         *)
(*                                                                         *)
(* A request queues the job that lists the store; that one queues a job    *)
(* for each product and the job that ends the import, which waits for the  *)
(* others by retrying.  The page that starts imports is disabled while one *)
(* is under way; the wizard that starts them as well does not look.        *)
(* A user who retries the log of a failed import runs it without a channel *)
(* of its own: no flag is raised, and the job that ends it can only fail.  *)
(* Transactions that write the same channel conflict and are repeated, so  *)
(* that they have the effect of one after the other.                       *)
(***************************************************************************)
EXTENDS Integers, FiniteSets

CONSTANTS
    Imports,      \* requests of an import
    MaxJobs,      \* bound: products that a listing finds
    None

VARIABLES
    active,       \* the channel is connected; its menus are shown
    menus,
    syncing,      \* is_in_syncing
    doneJob,      \* done_job_uuid: the import whose last job that is, or None
    cron,         \* check_new_orders is active
    phase,        \* [Imports -> see Phases]
    found,        \* [Imports -> products that the listing found]
    waits,        \* [Imports -> jobs of products that are neither done nor failed]
    retried,      \* imports that a user ran from the log
    beside,       \* imports that were under way together with another, had
                  \* failed when another was requested or requeued, or had not
                  \* ended when the retry of a log found nothing; history
    latest        \* the import that was requested last; history

vars == <<active, menus, syncing, doneJob, cron, phase, found, waits, retried,
          beside, latest>>

(* queued: its first job waits.  listed: its last job waits for the others. *)
(* unlisted, unended: that job has failed.  over: nothing is left to do.   *)
Phases == {"none", "queued", "listed", "unlisted", "unended", "over"}

(* Imports of the channel itself: those under way, and those that failed.  *)
UnderWay == {i \in Imports \ retried : phase[i] \in {"queued", "listed"}}
Stuck == {i \in Imports \ retried : phase[i] \in {"unlisted", "unended"}}

Init ==
    /\ active = TRUE /\ menus = TRUE
    /\ syncing = FALSE /\ doneJob = None
    /\ cron \in BOOLEAN
    /\ phase = [i \in Imports |-> "none"]
    /\ found = [i \in Imports |-> 0] /\ waits = found
    /\ retried = {} /\ beside = {} /\ latest = None

-----------------------------------------------------------------------------
(* Import i begins, or begins again, beside those that have not ended.     *)
With(i) == (IF UnderWay = {} THEN {} ELSE UnderWay \cup {i}) \cup (Stuck \ {i})

(* import_product, and the wizard of imports.                              *)
Request(i) ==
    /\ active /\ phase[i] = "none"
    /\ phase' = [phase EXCEPT ![i] = "queued"]
    /\ syncing' = TRUE
    /\ latest' = i
    /\ beside' = beside \cup With(i)
    /\ UNCHANGED <<active, menus, doneJob, cron, found, waits, retried>>

(* A user retries the log of an import that failed: _run_import_product    *)
(* at once, for no channel, ...                                            *)
Retry(i, n) ==
    /\ phase[i] = "none" /\ n > 0
    /\ phase' = [phase EXCEPT ![i] = "listed"]
    /\ found' = [found EXCEPT ![i] = n]
    /\ waits' = [waits EXCEPT ![i] = n]
    /\ retried' = retried \cup {i}
    /\ doneJob' = i
    /\ UNCHANGED <<active, menus, syncing, cron, beside, latest>>

(* ... and when it finds nothing.                                          *)
RetryInVain(i) ==
    /\ phase[i] = "none"
    /\ phase' = [phase EXCEPT ![i] = "over"]
    /\ retried' = retried \cup {i}
    /\ syncing' = FALSE
    /\ beside' = beside \cup UnderWay \cup Stuck
    /\ UNCHANGED <<active, menus, doneJob, cron, found, waits, latest>>

(* _run_import_product, ...                                                *)
List(i, n) ==
    /\ phase[i] = "queued" /\ n > 0
    /\ phase' = [phase EXCEPT ![i] = "listed"]
    /\ found' = [found EXCEPT ![i] = n]
    /\ waits' = [waits EXCEPT ![i] = n]
    /\ doneJob' = i
    /\ UNCHANGED <<active, menus, syncing, cron, retried, beside, latest>>

(* ... when it finds nothing, ...                                          *)
FindNothing(i) ==
    /\ phase[i] = "queued"
    /\ phase' = [phase EXCEPT ![i] = "over"]
    /\ syncing' = FALSE
    /\ UNCHANGED <<active, menus, doneJob, cron, found, waits, retried, beside, latest>>

(* ... and when it fails.                                                  *)
FailToList(i) ==
    /\ phase[i] = "queued"
    /\ phase' = [phase EXCEPT ![i] = "unlisted"]
    /\ UNCHANGED <<active, menus, syncing, doneJob, cron, found, waits, retried,
                   beside, latest>>

(* The job of a product is done or has failed.                             *)
EndJob(i) ==
    /\ waits[i] > 0
    /\ waits' = [waits EXCEPT ![i] = @ - 1]
    /\ UNCHANGED <<active, menus, syncing, doneJob, cron, phase, found, retried,
                   beside, latest>>

(* A manager requeues one of them; once the import has ended nothing waits *)
(* for it any more.                                                        *)
RequeueJob(i) ==
    /\ phase[i] \in {"listed", "unended"} /\ waits[i] < found[i]
    /\ waits' = [waits EXCEPT ![i] = @ + 1]
    /\ UNCHANGED <<active, menus, syncing, doneJob, cron, phase, found, retried,
                   beside, latest>>

(* Mutant of DoneSynching: it does not wait for the jobs of products.      *)
DoneEarly(i) ==
    /\ phase[i] = "listed" /\ i \notin retried
    /\ phase' = [phase EXCEPT ![i] = "over"]
    /\ syncing' = FALSE /\ doneJob' = None /\ cron' = TRUE
    /\ UNCHANGED <<active, menus, found, waits, retried, beside, latest>>

(* done_synching, when all jobs have ended.                                *)
DoneSynching(i) ==
    /\ phase[i] = "listed" /\ waits[i] = 0 /\ i \notin retried
    /\ phase' = [phase EXCEPT ![i] = "over"]
    /\ syncing' = FALSE /\ doneJob' = None
    /\ cron' = TRUE
    /\ UNCHANGED <<active, menus, found, waits, retried, beside, latest>>

(* It has retried a hundred times, has no channel, or fails otherwise.     *)
FailToEnd(i) ==
    /\ phase[i] = "listed"
    /\ phase' = [phase EXCEPT ![i] = "unended"]
    /\ UNCHANGED <<active, menus, syncing, doneJob, cron, found, waits, retried,
                   beside, latest>>

(* A manager requeues the job that failed.                                 *)
Requeue(i) ==
    /\ phase[i] \in {"unlisted", "unended"}
    /\ phase' = [phase EXCEPT ![i] = IF @ = "unlisted" THEN "queued" ELSE "listed"]
    /\ beside' = IF i \in retried THEN beside ELSE beside \cup With(i)
    /\ UNCHANGED <<active, menus, syncing, doneJob, cron, found, waits, retried, latest>>

(* disconnect, by a user or after an answer that refuses the credentials;  *)
(* reconnect, when check_connection succeeds.  Jobs are not stopped.       *)
Disconnect ==
    /\ active' = FALSE /\ menus' = FALSE
    /\ UNCHANGED <<syncing, doneJob, cron, phase, found, waits, retried, beside, latest>>

Reconnect ==
    /\ active' = TRUE /\ menus' = TRUE
    /\ UNCHANGED <<syncing, doneJob, cron, phase, found, waits, retried, beside, latest>>

Next ==
    \/ \E i \in Imports :
          \/ Request(i) \/ FindNothing(i) \/ FailToList(i) \/ EndJob(i)
          \/ DoneSynching(i) \/ FailToEnd(i) \/ Requeue(i) \/ RequeueJob(i)
          \/ RetryInVain(i)
          \/ \E n \in 1..MaxJobs : List(i, n) \/ Retry(i, n)
    \/ Disconnect \/ Reconnect

Spec == Init /\ [][Next]_vars

-----------------------------------------------------------------------------
(* is_importing_done, what the page of the import is told.                 *)
Told ==
    CASE ~active -> "error"
      [] active /\ doneJob # None ->
            CASE phase[doneJob] = "over" -> "success"
              [] phase[doneJob] = "unended" -> "error"
              [] OTHER -> "wait"
      [] active /\ doneJob = None -> IF syncing THEN "wait" ELSE "success"

(* The flag tells of an import that has not come to its end, and no import *)
(* is under way without it, unless another one was beside it, began after  *)
(* it had failed, or was retried from the log in vain: whatever jobs fail, *)
(* are requeued or find nothing, and whenever the channel is disconnected. *)
(* An import that is retried from the log never has the flag.              *)
FlagTellsImport ==
    /\ syncing => UnderWay \cup Stuck # {}
    /\ \A i \in UnderWay \ beside : syncing

(* A user who asks after an import is told of its success when all of its  *)
(* jobs have ended and not before, unless another one was beside it.       *)
SuccessTold ==
    latest # None /\ latest \notin beside /\ Told = "success" =>
        phase[latest] = "over" /\ waits[latest] = 0
=============================================================================
