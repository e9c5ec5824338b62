------------------------------ MODULE Channels ------------------------------
(***************************************************************************)
(* The job runner's tree of channels.                                      *)
(*                                                                         *)
(* A job belongs to one channel, its home, and competes for the capacity   *)
(* of every channel on the path from there to the root: when a channel     *)
(* yields a job it counts it as running and puts it in its parent's queue. *)
(* What the root yields is sent to Odoo.  A job with an eta waits in a     *)
(* queue of its own until then.  A channel may be sequential (it then has  *)
(* capacity 1, and stops on failed jobs) or throttled (it then rests after *)
(* every job).                                                             *)
(*                                                                         *)
(* JobQueue has the rows and the requests, with one channel; here the rows *)
(* are reduced to what ChannelManager.notify is told of them.              *)
(***************************************************************************)
EXTENDS Integers, FiniteSets

CONSTANTS
    Jobs,
    Nodes,        \* the channels
    Root,
    Parent,       \* [Nodes -> Nodes], the root being its own parent
    Path,         \* [Nodes -> SUBSET Nodes]: a channel and those above it
    Capacity,     \* [Nodes -> Nat]; 0 is unlimited
    Sequential,   \* the sequential channels
    Throttle,     \* [Nodes -> Nat], seconds
    Home,         \* [Jobs -> Nodes]; the root if the channel is unknown
    Rank,         \* [Jobs -> Nat]: order by priority, date_created, seq
    MaxTime       \* bound: the clock stops here

ASSUME ChannelsAssumption ==
    /\ IsFiniteSet(Jobs) /\ IsFiniteSet(Nodes)
    /\ Root \in Nodes
    /\ Parent \in [Nodes -> Nodes]
    /\ Path \in [Nodes -> SUBSET Nodes]
    /\ Path[Root] = {Root}
    /\ \A c \in Nodes \ {Root} : /\ c \notin Path[Parent[c]]
                                 /\ Path[c] = {c} \cup Path[Parent[c]]
    /\ Capacity \in [Nodes -> Nat]
    /\ Sequential \subseteq {c \in Nodes : Capacity[c] = 1}
    /\ Throttle \in [Nodes -> Nat]
    /\ Home \in [Jobs -> Nodes]
    /\ Rank \in [Jobs -> Nat]
    /\ \A i, j \in Jobs : Rank[i] = Rank[j] => i = j
    /\ MaxTime \in Nat

VARIABLES
    row,       \* [Jobs -> state, eta]: the table
    told,      \* jobs whose row changed since the runner last read it
    eta,       \* [Jobs -> time or 0]: the eta of the runner's job object
    queue,     \* [Nodes -> jobs ready in the channel]
    later,     \* [Nodes -> jobs in the channel's eta queue]
    running,   \* [Nodes -> jobs that count as running in the channel]
    failed,    \* [Nodes -> failed jobs of the channel]
    pause,     \* [Nodes -> time until which the channel rests, or 0]
    visited,   \* channels done in this round of run_jobs; all: the runner waits
    now        \* the clock

memory == <<eta, queue, later, running, failed, pause>>
vars == <<row, told, memory, visited, now>>

-----------------------------------------------------------------------------
Times == 0..MaxTime

Rows == [state : {"none", "pending", "running", "failed"}, eta : Times]

Children(c) == {d \in Nodes \ {Root} : Parent[d] = c}

(* d is on the path from the home of a job up to c.                        *)
Below(d, c) == c \in Path[d]

(* The runner has an object for j: some channel holds it.                  *)
Known(j) ==
    \E c \in Nodes : j \in queue[c] \cup later[c] \cup running[c] \cup failed[c]

Without(f, j) == [c \in Nodes |-> IF c \in Path[Home[j]] THEN f[c] \ {j} ELSE f[c]]

With(f, c, j) == [f EXCEPT ![c] = @ \cup {j}]

HasCapacity(c) ==
    /\ ~(c \in Sequential /\ failed[c] # {})
    /\ Capacity[c] = 0 \/ Cardinality(running[c]) < Capacity[c]

Resting(c, t) == Throttle[c] > 0 /\ pause[c] # 0 /\ t < pause[c]

First(S) == CHOOSE j \in S : \A k \in S : Rank[j] =< Rank[k]

(* The head of an eta queue: by eta, then as the others.                   *)
Earliest(S) ==
    CHOOSE j \in S : \A k \in S :
        \/ eta[j] < eta[k]
        \/ eta[j] = eta[k] /\ Rank[j] =< Rank[k]

Due(c, t) == {j \in later[c] : eta[j] =< t}

(* A sequential channel waits for a job with an eta that comes before the  *)
(* others, provided that job is the head of the eta queue.                 *)
Blocked(c, ready, waiting) ==
    /\ c \in Sequential
    /\ ready # {} /\ waiting # {}
    /\ Rank[Earliest(waiting)] < Rank[First(ready)]

Best(S, n) == {j \in S : Cardinality({k \in S : Rank[k] < Rank[j]}) < n}

(* A mutant of Room: capacity asked for once, before the loop.             *)
RoomUnchecked(c) == IF Throttle[c] > 0 THEN 1 ELSE Cardinality(Jobs)

(* How many jobs the loop of get_jobs_to_run may pop.                      *)
Room(c) ==
    CASE Throttle[c] > 0 -> 1
      [] Throttle[c] = 0 /\ Capacity[c] = 0 -> Cardinality(Jobs)
      [] OTHER -> Capacity[c] - Cardinality(running[c])

(* What channel c yields at time t, its children having yielded more.      *)
Yielded(c, more, t) ==
    LET ready == queue[c] \cup more \cup Due(c, t)
    IN  IF Resting(c, t) \/ ~HasCapacity(c)
           \/ Blocked(c, ready, later[c] \ Due(c, t))
        THEN {} ELSE Best(ready, Room(c))

Init ==
    /\ row = [j \in Jobs |-> [state |-> "none", eta |-> 0]]
    /\ told = {}
    /\ eta = [j \in Jobs |-> 0]
    /\ queue = [c \in Nodes |-> {}]
    /\ later = [c \in Nodes |-> {}]
    /\ running = [c \in Nodes |-> {}]
    /\ failed = [c \in Nodes |-> {}]
    /\ pause = [c \in Nodes |-> 0]
    /\ visited = {}
    /\ now = 0

-----------------------------------------------------------------------------
(* The table, as JobQueue changes it.  Every change is notified.           *)

Change(j, from, to, e) ==
    /\ row[j].state \in from
    /\ row' = [row EXCEPT ![j] = [state |-> to, eta |-> e]]
    /\ told' = told \cup {j}
    /\ UNCHANGED <<memory, visited, now>>

(* A job is delayed, perhaps with an eta.                                  *)
Delay(j) == \E e \in {0} \cup (now + 1)..MaxTime : Change(j, {"none"}, "pending", e)

(* Its request ends; an eta that has passed stays in the row.              *)
Succeed(j) == Change(j, {"running"}, "none", 0)
Fail(j) == Change(j, {"running"}, "failed", row[j].eta)
Postpone(j) == \E e \in (now + 1)..MaxTime : Change(j, {"running"}, "pending", e)
GiveBack(j) == Change(j, {"running"}, "pending", row[j].eta)

(* A manager requeues it, or sets it done, while no request runs it (see   *)
(* Careful in JobQueue); the garbage collector deletes it.                 *)
Requeue(j) == Change(j, {"pending", "failed"}, "pending", row[j].eta)
SetDone(j) == Change(j, {"pending", "failed"}, "none", 0)

-----------------------------------------------------------------------------
(* ChannelManager.notify and the set_ methods of the job's home channel.   *)

(* set_done, remove_job.                                                   *)
FileNothing(j) ==
    /\ queue' = Without(queue, j) /\ later' = Without(later, j)
    /\ running' = Without(running, j) /\ failed' = Without(failed, j)

(* In its home's queue, and in no other set of any channel.                *)
QueueAnew(j) ==
    /\ IF row[j].eta = 0
       THEN /\ queue' = With(Without(queue, j), Home[j], j)
            /\ later' = Without(later, j)
       ELSE /\ later' = With(Without(later, j), Home[j], j)
            /\ queue' = Without(queue, j)
    /\ running' = Without(running, j) /\ failed' = Without(failed, j)

(* Mutants of FilePending: without parent.remove, and with a job that runs *)
(* taken for one that is queued.                                           *)
FilePendingHere(j, fresh) ==
    IF ~fresh /\ j \in queue[Home[j]] \cup later[Home[j]]
    THEN UNCHANGED <<queue, later, running, failed>>
    ELSE /\ queue' = IF row[j].eta = 0 THEN With(queue, Home[j], j) ELSE queue
         /\ later' = IF row[j].eta # 0 THEN With(later, Home[j], j) ELSE later
         /\ running' = [running EXCEPT ![Home[j]] = @ \ {j}]
         /\ failed' = Without(failed, j)

FilePendingIfNew(j, fresh) ==
    IF ~fresh /\ j \in queue[Home[j]] \cup later[Home[j]] \cup running[Home[j]]
    THEN UNCHANGED <<queue, later, running, failed>>
    ELSE QueueAnew(j)

(* A job that its home has queued already stays where it is; otherwise it  *)
(* is removed from all channels and queued there.                          *)
FilePending(j, fresh) ==
    IF ~fresh /\ j \in queue[Home[j]] \cup later[Home[j]]
    THEN UNCHANGED <<queue, later, running, failed>>
    ELSE QueueAnew(j)

(* Upwards from its home, until a channel that has it running already.     *)
FileRunning(j, fresh) ==
    LET up == {c \in Path[Home[j]] :
                  fresh \/ \A d \in Path[Home[j]] : Below(d, c) => j \notin running[d]}
        drop(f) == [c \in Nodes |-> IF c \in up THEN f[c] \ {j} ELSE f[c]]
    IN  /\ running' = [c \in Nodes |-> IF c \in up THEN running[c] \cup {j}
                                                   ELSE running[c]]
        /\ queue' = drop(queue) /\ later' = drop(later) /\ failed' = drop(failed)

FileFailed(j, fresh) ==
    IF ~fresh /\ j \in failed[Home[j]]
    THEN UNCHANGED <<queue, later, running, failed>>
    ELSE /\ queue' = Without(queue, j) /\ later' = Without(later, j)
         /\ running' = Without(running, j)
         /\ failed' = With(Without(failed, j), Home[j], j)

(* One notification.  A job whose eta is not that of the runner's object,  *)
(* which loses it when it passes, is removed and filed anew.               *)
Notify(j) ==
    LET fresh == ~Known(j) \/ row[j].eta # eta[j]
    IN  /\ visited = {}
        /\ j \in told
        /\ told' = told \ {j}
        /\ eta' = [eta EXCEPT ![j] = row[j].eta]
        /\ \/ row[j].state = "none" /\ FileNothing(j)
           \/ row[j].state = "pending" /\ FilePending(j, fresh)
           \/ row[j].state = "running" /\ FileRunning(j, fresh)
           \/ row[j].state = "failed" /\ FileFailed(j, fresh)
        /\ UNCHANGED <<row, pause, visited, now>>

(* The runner fails and starts again: remove_db, then every row is read.   *)
(* A runner in a new process has no channel resting.                       *)
Restart ==
    LET at(s, e) == [c \in Nodes |->
                        {j \in Jobs : /\ row[j].state = s /\ Home[j] = c
                                      /\ (row[j].eta # 0) = e}]
    IN  /\ eta' = [j \in Jobs |-> row[j].eta]
        /\ queue' = at("pending", FALSE)
        /\ later' = at("pending", TRUE)
        /\ running' = [c \in Nodes |-> {j \in Jobs : /\ row[j].state = "running"
                                                     /\ c \in Path[Home[j]]}]
        /\ failed' = [c \in Nodes |-> {j \in Jobs : /\ row[j].state = "failed"
                                                    /\ Home[j] = c}]
        /\ pause' \in {pause, [c \in Nodes |-> 0]}
        /\ told' = {}
        /\ visited' = {}
        /\ UNCHANGED <<row, now>>

-----------------------------------------------------------------------------
(* run_jobs: get_jobs_to_run of every channel, children first.             *)

(* The root's jobs are written enqueued, which is notified in turn.        *)
SendAll(jobs) ==
    /\ row' = [j \in Jobs |-> IF j \in jobs THEN [row[j] EXCEPT !.state = "running"]
                                            ELSE row[j]]
    /\ told' = told \cup jobs

(* Mutants of PauseAfter: the sign, and a pause that is never forgotten.   *)
PausedSince(c, out) == IF Throttle[c] > 0 /\ out # {} THEN now - Throttle[c] ELSE pause[c]
PauseKept(c, out) == IF Throttle[c] > 0 /\ out # {} THEN now + Throttle[c] ELSE pause[c]

(* A throttled channel rests after each job; a pause that is over is       *)
(* forgotten, whether or not the channel has a job or room for one.        *)
PauseAfter(c, out) ==
    CASE Throttle[c] > 0 /\ out # {} -> now + Throttle[c]
      [] Throttle[c] > 0 /\ out = {} /\ ~Resting(c, now) -> 0
      [] OTHER -> pause[c]

Visit(c) ==
    LET asked == ~Resting(c, now) /\ HasCapacity(c)
        due == IF asked THEN Due(c, now) ELSE {}
        out == Yielded(c, {}, now)
    IN  /\ c \notin visited /\ Children(c) \subseteq visited
        /\ visited' = visited \cup {c}
        /\ eta' = [j \in Jobs |-> IF j \in due THEN 0 ELSE eta[j]]
        /\ later' = [later EXCEPT ![c] = @ \ due]
        /\ queue' = [d \in Nodes |->
                        CASE d = c -> (queue[c] \cup due) \ out
                          [] d # c /\ c # Root /\ d = Parent[c] -> queue[d] \cup out
                          [] OTHER -> queue[d]]
        /\ running' = [running EXCEPT ![c] = @ \cup out]
        /\ pause' = [pause EXCEPT ![c] = PauseAfter(c, out)]
        /\ IF c = Root THEN SendAll(out) ELSE UNCHANGED <<row, told>>
        /\ UNCHANGED <<failed, now>>

-----------------------------------------------------------------------------
(* wait_notification.                                                      *)

(* Mutant of Alarms: the children are not asked.                           *)
AlarmsOfRoot == IF HasCapacity(Root) THEN {eta[j] : j \in later[Root]} ELSE {}

(* The times at which channels ask to be woken up.                         *)
Alarms ==
    LET from[c \in Nodes] ==
            IF ~HasCapacity(c) THEN {}
            ELSE IF pause[c] # 0 THEN {pause[c]}
            ELSE {eta[j] : j \in later[c]} \cup UNION {from[d] : d \in Children(c)}
    IN  from[Root]

(* The earliest; 0 if there is none.                                       *)
WakeupTime ==
    IF Alarms = {} THEN 0 ELSE CHOOSE t \in Alarms : \A u \in Alarms : t =< u

(* A notification, the wakeup time, or without one a timeout.              *)
Wake ==
    /\ visited = Nodes
    /\ told # {} \/ WakeupTime =< now
    /\ visited' = {}
    /\ UNCHANGED <<row, told, memory, now>>

(* run_jobs reads the clock once: the time that a round takes passes after *)
(* it.                                                                     *)
Tick ==
    /\ visited \in {{}, Nodes}
    /\ now < MaxTime
    /\ now' = now + 1
    /\ UNCHANGED <<row, told, memory, visited>>

-----------------------------------------------------------------------------
RowChange(j) ==
    \/ Delay(j) \/ Succeed(j) \/ Fail(j) \/ Postpone(j) \/ GiveBack(j)
    \/ Requeue(j) \/ SetDone(j)

Next ==
    \/ \E j \in Jobs : RowChange(j) \/ Notify(j)
    \/ \E c \in Nodes : Visit(c)
    \/ Wake
    \/ Restart
    \/ Tick

Spec == Init /\ [][Next]_vars

-----------------------------------------------------------------------------
TypeOK ==
    /\ row \in [Jobs -> Rows]
    /\ told \subseteq Jobs
    /\ eta \in [Jobs -> Times]
    /\ queue \in [Nodes -> SUBSET Jobs]
    /\ later \in [Nodes -> SUBSET Jobs]
    /\ running \in [Nodes -> SUBSET Jobs]
    /\ failed \in [Nodes -> SUBSET Jobs]
    /\ pause \in [Nodes -> Nat]
    /\ visited \subseteq Nodes
    /\ now \in Times

(* The channels where job j waits.                                         *)
WaitsIn(j) == {c \in Nodes : j \in queue[c] \cup later[c]}

(* The flow of water: a job that waits does so in one channel of its path, *)
(* counts as running in exactly those below it, and has failed nowhere; a  *)
(* job that waits nowhere runs on its whole path or not at all.            *)
FlowShape ==
    \A j \in Jobs :
        LET runs == {c \in Nodes : j \in running[c]}
        IN  \/ \E c \in Path[Home[j]] :
                  /\ WaitsIn(j) = {c}
                  /\ runs = {d \in Path[Home[j]] : Below(d, c) /\ d # c}
                  /\ \A d \in Nodes : j \notin failed[d]
            \/ /\ WaitsIn(j) = {}
               /\ \/ runs = Path[Home[j]] /\ \A d \in Nodes : j \notin failed[d]
                  \/ runs = {} /\ {d \in Nodes : j \in failed[d]} \subseteq {Home[j]}

(* A channel with a capacity never counts more running jobs than that,     *)
(* over restarts, and although set_running does not ask for capacity.      *)
ChannelCapacity ==
    \A c \in Nodes : Capacity[c] # 0 => Cardinality(running[c]) =< Capacity[c]

(* The runner files every job it has no notification for as its row says:  *)
(* the early returns of set_pending, set_running and set_failed, and the   *)
(* object made anew when an eta changes, leave no job where it was.        *)
FiledAsTold ==
    \A j \in Jobs \ told :
        CASE row[j].state = "none" -> ~Known(j)
          [] row[j].state = "pending" -> WaitsIn(j) # {}
          [] row[j].state = "running" -> j \in running[Root]
          [] row[j].state = "failed" -> j \in failed[Home[j]]

(* What a round at time t would send.                                      *)
SentAt(t) ==
    LET out[c \in Nodes] == Yielded(c, UNION {out[d] : d \in Children(c)}, t)
    IN  out[Root]

(* A runner that waits, with every notification read, is woken before any  *)
(* job could be sent: resting channels, etas, full and blocked channels at *)
(* every level of the tree taken into account.                             *)
NoOversleep ==
    visited = Nodes /\ told = {} =>
        \A t \in now..MaxTime : SentAt(t) # {} => WakeupTime \in 1..t

(* Once a round is over nothing asks to be woken at once: the pause that   *)
(* get_jobs_to_run forgets "to avoid perpetual wakeup while the channel is *)
(* at full capacity", and the etas that have passed.                       *)
NoBusyWait ==
    [][visited # Nodes /\ visited' = Nodes =>
           WakeupTime' = 0 \/ WakeupTime' > now']_vars

(* The comment in ChannelQueue.pop: in a sequential queue a job with an    *)
(* eta holds back those of lower priority until then.                      *)
SequentialWaits ==
    [][\A c \in Sequential :
          \A j \in running'[c] \ running[c] :
              c \in visited' \ visited =>
                  \A k \in later'[c] : Rank[j] < Rank[k]]_vars
=============================================================================
