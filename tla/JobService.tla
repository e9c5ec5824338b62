----------------------------- MODULE JobService -----------------------------
(***************************************************************************)
(* What the job queue promises to the code that delays jobs, without rows, *)
(* runner or requests: a job waits, is dispatched while there is capacity, *)
(* is run by one worker at a time, and settles.  While a worker runs a job *)
(* nobody but that worker changes the job's phase, except that the garbage *)
(* collector may remove it; only the end of a run brings a removed job     *)
(* back.                                                                   *)
(***************************************************************************)
EXTENDS Naturals, FiniteSets

CONSTANTS Jobs, Capacity

VARIABLES
    phase,   \* [Jobs -> new, waiting, dispatched, settled, gone]
    busy     \* the jobs a worker is running

vars == <<phase, busy>>

Dispatched == {j \in Jobs : phase[j] = "dispatched"}

Init ==
    /\ phase = [j \in Jobs |-> "new"]
    /\ busy = {}

(* The phase of a job that nobody runs changes.                            *)
Move(j, from, to) ==
    /\ j \notin busy
    /\ phase[j] \in from
    /\ phase' = [phase EXCEPT ![j] = to]
    /\ busy' = busy

Submit(j) == Move(j, {"new"}, "waiting")

(* A settled job may be dispatched again: see DoneIsFinal in JobQueue.     *)
Dispatch(j) ==
    /\ Cardinality(Dispatched) < Capacity
    /\ Move(j, {"waiting", "settled"}, "dispatched")

Return(j) == Move(j, {"dispatched", "settled"}, "waiting")

Close(j) == Move(j, {"waiting", "dispatched"}, "settled")

Begin(j) ==
    /\ j \notin busy /\ phase[j] = "dispatched"
    /\ busy' = busy \cup {j}
    /\ phase' = phase

(* The worker stores an outcome.                                           *)
Finish(j) ==
    /\ j \in busy
    /\ busy' = busy \ {j}
    /\ \E to \in {"waiting", "settled"} : phase' = [phase EXCEPT ![j] = to]

(* Workers end without storing anything.                                   *)
Abandon ==
    /\ \E left \in SUBSET busy : left # busy /\ busy' = left
    /\ phase' = phase

Remove(j) ==
    /\ phase[j] \in {"waiting", "dispatched", "settled"}
    /\ phase' = [phase EXCEPT ![j] = "gone"]
    /\ busy' = busy

Next ==
    \/ \E j \in Jobs :
          \/ Submit(j) \/ Dispatch(j) \/ Return(j) \/ Close(j)
          \/ Begin(j) \/ Finish(j) \/ Remove(j)
    \/ Abandon

Spec == Init /\ [][Next]_vars
=============================================================================
