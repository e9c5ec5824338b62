---------------------------- MODULE JobFunctions ----------------------------
(***************************************************************************)
(* Which channel a job runs in.                                            *)
(*                                                                         *)
(* Three things know of channels.  The records of queue.job.channel form a *)
(* tree whose complete names are stored; a record of queue.job.function    *)
(* gives the jobs of one method a channel; and the runner has a tree of    *)
(* its own, made when it starts from a configuration string that names     *)
(* channels.  A job's row stores the name of its channel, which is what    *)
(* the runner and the garbage collector look at.                           *)
(*                                                                         *)
(* A name is the sequence of its parts.  One method is followed.           *)
(***************************************************************************)
EXTENDS Integers, Sequences, FiniteSets, FiniteSetsExt

CONSTANTS
    Channels,     \* records of queue.job.channel; the first is root
    Names,        \* what a channel below root may be called
    Jobs,
    Overrides,    \* channels given to with_delay, or set by a manager
    Entries,      \* [name, capacity, sequential]: parts of a configuration
    MaxEntries,   \* bound: entries of a configuration
    None

VARIABLES
    channel,   \* [Channels -> name, parent; or None]
    function,  \* the channel that the method's record gives; None: no record
    row,       \* [Jobs -> override, channel, linked, done; or None]
    renamed,   \* history: jobs whose channel was renamed after they were made
    config,    \* the entries of the configuration that the runner has read
    tree       \* the runner's channels: [names -> capacity, sequential]

vars == <<channel, function, row, renamed, config, tree>>

-----------------------------------------------------------------------------
(* Records of channels.                                                    *)
Root == 1

Recorded(chs) == {c \in Channels : chs[c] # None}
Known == Recorded(channel)

Children(c, chs) == {d \in Channels : chs[d] # None /\ chs[d].parent = c}

ChannelRecords == [name : Names \cup {"root"}, parent : Channels \cup {None}]

JobFunctionsAssumption ==
    /\ Root \in Channels
    /\ MaxEntries \in Nat
    /\ None \notin Channels /\ None \notin Overrides /\ None \notin ChannelRecords
    /\ \A e \in Entries : e.name \in Seq(Names \cup {"root"}) \ {<<>>}

(* _compute_complete_name.                                                 *)
CompleteName(c, chs) ==
    LET up[d \in Recorded(chs)] ==
            IF d = Root THEN <<"root">> ELSE Append(up[chs[d].parent], chs[d].name)
    IN  up[c]

Above(c, chs) ==
    LET up[d \in Recorded(chs)] == IF d = Root THEN {Root} ELSE {d} \cup up[chs[d].parent]
    IN  up[c]

(* The constraint of the complete names.                                   *)
Unique(chs) ==
    \A c, d \in Recorded(chs) :
        CompleteName(c, chs) = CompleteName(d, chs) => c = d

(* _compute_channel of a job, with the channel of its function.            *)
ChannelOf(override, linked, f, chs) ==
    IF override # None THEN override
    ELSE IF linked THEN CompleteName(f, chs) ELSE <<"root">>

(* Mutant of Recomputed: what a job has stored stays.                      *)
Kept(f, chs) ==
    [j \in Jobs |-> IF row[j] = None \/ ~row[j].linked THEN row[j]
                    ELSE [row[j] EXCEPT !.linked = f # None]]

(* _compute_channel depends on the channel of the job's function: it runs  *)
(* when that one is written, and for no other reason.                      *)
Recomputed(f, chs) ==
    [j \in Jobs |->
        IF row[j] = None \/ ~row[j].linked THEN row[j]
        ELSE [row[j] EXCEPT !.channel = ChannelOf(row[j].override, f # None, f, chs),
                            !.linked = f # None]]

-----------------------------------------------------------------------------
(* The runner's tree.                                                      *)

(* "sub:4 is the same as root.sub:4".                                      *)
Full(name) == IF name[1] = "root" THEN name ELSE <<"root">> \o name

UpTo(name) == {SubSeq(name, 1, n) : n \in 1..Len(name)}

(* A capacity left out is 1; 0 is unlimited.                               *)
Parsed(e) == [capacity |-> IF e.capacity = None THEN 1 ELSE e.capacity,
              sequential |-> e.sequential]

(* Mutant of WithChannel: parents that are missing stay so.                *)
Alone(name, t) ==
    [n \in DOMAIN t \cup {name} |->
        IF n \in DOMAIN t THEN t[n] ELSE [capacity |-> 0, sequential |-> FALSE]]

(* get_channel_by_name with autocreate.                                    *)
WithChannel(name, t) ==
    [n \in DOMAIN t \cup UpTo(name) |->
        IF n \in DOMAIN t THEN t[n] ELSE [capacity |-> 0, sequential |-> FALSE]]

(* get_channel_from_config.                                                *)
Configured(e, t) == [WithChannel(Full(e.name), t) EXCEPT ![Full(e.name)] = Parsed(e)]

(* simple_configure.                                                       *)
TreeOf(entries) ==
    LET after[n \in 0..Len(entries)] ==
            IF n = 0 THEN [name \in {<<"root">>} |-> [capacity |-> 1, sequential |-> FALSE]]
            ELSE Configured(entries[n], after[n - 1])
    IN  after[Len(entries)]

(* configure refuses a sequential channel that may run several jobs, and   *)
(* the runner then does not start.                                         *)
Accepted(entries) ==
    \A e \in Range(entries) : e.sequential => Parsed(e).capacity = 1

(* notify: the root if the runner does not know the channel.               *)
FiledIn(name) == IF Full(name) \in DOMAIN tree THEN Full(name) ELSE <<"root">>

Init ==
    /\ channel = [c \in Channels |->
                     IF c = Root THEN [name |-> "root", parent |-> None] ELSE None]
    /\ function = None
    /\ row = [j \in Jobs |-> None]
    /\ renamed = {}
    /\ config \in {s \in UNION {[1..n -> Entries] : n \in 0..MaxEntries} : Accepted(s)}
    /\ tree = TreeOf(config)

-----------------------------------------------------------------------------
(* A channel is made; where a module is installed that gives one which is  *)
(* there already, nothing is.                                              *)
CreateChannel(c, n, p) ==
    LET chs == [channel EXCEPT ![c] = [name |-> n, parent |-> p]]
    IN  /\ channel[c] = None /\ p \in Known
        /\ Unique(chs)
        /\ channel' = chs
        /\ UNCHANGED <<function, row, renamed, config, tree>>

(* A channel other than the root is renamed or moved; the complete names   *)
(* below it follow, and the channel that functions store.                  *)
WriteChannel(c, n, p) ==
    LET chs == [channel EXCEPT ![c] = [name |-> n, parent |-> p]]
    IN  /\ c \in Known \ {Root}
        /\ p \in {d \in Known : c \notin Above(d, channel)}
        /\ Unique(chs) /\ chs # channel
        /\ channel' = chs
        /\ renamed' = renamed \cup
              {j \in Jobs : /\ row[j] # None
                            /\ row[j].linked /\ row[j].override = None
                            /\ c \in Above(function, channel)}
        /\ UNCHANGED <<function, row, config, tree>>

(* Neither the root, nor a channel that another one or a function needs.   *)
MayGo(c) == c # Root /\ Children(c, channel) = {} /\ function # c

UnlinkChannel(c) ==
    /\ c \in Known /\ MayGo(c)
    /\ channel' = [channel EXCEPT ![c] = None]
    /\ UNCHANGED <<function, row, renamed, config, tree>>

-----------------------------------------------------------------------------
(* The method's record is made, if it has none, ...                        *)
CreateFunction(c) ==
    /\ function = None /\ c \in Known
    /\ function' = c
    /\ UNCHANGED <<channel, row, renamed, config, tree>>

(* ... is given a channel, by a user or by a module that is installed, ... *)
WriteFunction(c) ==
    /\ function # None /\ c \in Known
    /\ function' = c
    /\ row' = Recomputed(c, channel)
    /\ renamed' = {}
    /\ UNCHANGED <<channel, config, tree>>

(* ... or is deleted.                                                      *)
UnlinkFunction ==
    /\ function # None
    /\ function' = None
    /\ row' = Recomputed(None, channel)
    /\ renamed' = {}
    /\ UNCHANGED <<channel, config, tree>>

-----------------------------------------------------------------------------
(* A job of the method is stored: _compute_job_function, _compute_channel, *)
(* and _inverse_channel if it is given a channel.                          *)
Store(j, override) ==
    /\ row[j] = None
    /\ row' = [row EXCEPT ![j] =
                  [override |-> override, linked |-> function # None, done |-> FALSE,
                   channel |-> ChannelOf(override, function # None, function, channel)]]
    /\ renamed' = renamed \ {j}
    /\ UNCHANGED <<channel, function, config, tree>>

(* A manager gives it another channel.                                     *)
SetChannel(j, name) ==
    /\ row[j] # None
    /\ row' = [row EXCEPT ![j].override = name, ![j].channel = name]
    /\ renamed' = renamed \ {j}
    /\ UNCHANGED <<channel, function, config, tree>>

Finish(j) ==
    /\ row[j] # None /\ ~row[j].done
    /\ row' = [row EXCEPT ![j].done = TRUE]
    /\ UNCHANGED <<channel, function, renamed, config, tree>>

(* What autovacuum finds, a removal interval after the jobs were done.     *)
Collected ==
    {j \in Jobs : /\ row[j] # None /\ row[j].done
                  /\ \E c \in Known : row[j].channel = CompleteName(c, channel)}

Autovacuum ==
    /\ Collected # {}
    /\ row' = [j \in Jobs |-> IF j \in Collected THEN None ELSE row[j]]
    /\ renamed' = renamed \ Collected
    /\ UNCHANGED <<channel, function, config, tree>>

Next ==
    \/ \E c, p \in Channels, n \in Names : CreateChannel(c, n, p) \/ WriteChannel(c, n, p)
    \/ \E c \in Channels : UnlinkChannel(c) \/ CreateFunction(c) \/ WriteFunction(c)
    \/ UnlinkFunction
    \/ \E j \in Jobs, o \in Overrides \cup {None} : Store(j, o)
    \/ \E j \in Jobs, o \in Overrides : SetChannel(j, o)
    \/ \E j \in Jobs : Finish(j)
    \/ Autovacuum

Spec == Init /\ [][Next]_vars

-----------------------------------------------------------------------------
(* The entry of the configuration that counts for a name: the last one.    *)
Given(name) == {i \in DOMAIN config : Full(config[i].name) = name}

(* "If some of the parent channels are missing when creating a subchannel, *)
(* the parent channels are auto created with an infinite capacity (except  *)
(* for the root channel, which defaults to a capacity of 1 when not        *)
(* configured explicity)".                                                 *)
TreeAsConfigured ==
    /\ DOMAIN tree = {<<"root">>} \cup UNION {UpTo(Full(e.name)) : e \in Range(config)}
    /\ \A n \in DOMAIN tree :
          IF Given(n) # {} THEN tree[n] = Parsed(config[Max(Given(n))])
          ELSE tree[n] = [capacity |-> IF n = <<"root">> THEN 1 ELSE 0, sequential |-> FALSE]

(* A job that no override directs runs in the channel that its function    *)
(* has now, within the capacity that the configuration gives that channel, *)
(* and the garbage collector finds it there: whatever is renamed, moved or *)
(* deleted, but for the jobs that were there when their channel got        *)
(* another name, and those older than the function's record (in root).     *)
JobsFollowFunction ==
    \A j \in Jobs : (row[j] # None /\ j \notin renamed /\ row[j].override = None) =>
            LET name == IF row[j].linked THEN CompleteName(function, channel) ELSE <<"root">>
            IN  /\ row[j].channel = name
                /\ row[j].done => j \in Collected
                /\ Given(name) # {} =>
                      /\ FiledIn(row[j].channel) = name
                      /\ tree[name] = Parsed(config[Max(Given(name))])
=============================================================================
