----------------------------- MODULE Categories -----------------------------
(***************************************************************************)
(* The store's categories, and the customer groups that may see them.      *)
(*                                                                         *)
(* An import of categories is one transaction: it lists the tree, makes    *)
(* and links records, then lists the details.  An import of groups queues  *)
(* a job per group.  An export sends a record, and before it the parents   *)
(* of a category, in one transaction; what it does on the store stays when *)
(* the transaction is rolled back.  Edits in Odoo raise need_to_export,    *)
(* exports lower it.                                                       *)
(*                                                                         *)
(* A transaction sees the rows as they were when it began, and fails if it *)
(* writes a row that another has written since (REPEATABLE READ).  The     *)
(* parent of a group is the category it is for.                            *)
(***************************************************************************)
EXTENDS Integers, FiniteSets, Sequences, TLC

CONSTANTS
    Contents,         \* what a category or group may contain
    InitialStore,     \* a sequence of Entry
    InitialRecords,   \* [Keys -> Record or None]
    MaxOnStore,       \* bound: the store makes so many entries
    MaxOwn,           \* bound: users make so many records
    Disturbances, MaxDisturbances,   \* what may happen, and how often
    None

VARIABLES
    store,      \* the store's entries, by id
    records,    \* [Keys -> record or None]
    import,     \* None or the import that is going on
    export,     \* None or the export that is going on
    jobs,       \* the groups that were listed and are not saved
    disturbed,  \* counts what happens
    due,        \* history: records whose last edit in Odoo the store does not have
    excused     \* history: records of which that is known to be silent

(* A record that an import makes has the number that the store gave it.    *)
Keys == 1..(MaxOnStore + MaxOwn)
Ids == 1..MaxOnStore

Entry(kind, parent, content) ==
    [kind |-> kind, parent |-> parent, content |-> content, alive |-> TRUE]
Record(kind, id, parent, content) ==
    [kind |-> kind, id |-> id, parent |-> parent, content |-> content, flag |-> FALSE]

Alive(s, id) == id \in DOMAIN s /\ s[id].alive
Existing(rows) == {k \in Keys : rows[k] # None}
Of(rows, kind, id) == {k \in Existing(rows) : rows[k].kind = kind /\ rows[k].id = id}

(* unique(id_on_channel, channel_id), for each model.                      *)
Unique(rows) ==
    \A k, l \in Existing(rows) :
        k # l /\ rows[k].id # 0 => <<rows[k].kind, rows[k].id>> # <<rows[l].kind, rows[l].id>>

(* From the topmost parent of an entry or a record to itself.  Two         *)
(* transactions that each move a record can close a circle.                *)
Path(rows, k) ==
    LET from[n \in 0..Cardinality(DOMAIN rows)] ==
            IF n = 0 THEN <<k>>
            ELSE LET s == from[n - 1]
                     p == rows[Head(s)].parent
                 IN  IF p = 0 THEN s ELSE <<p>> \o s
    IN  from[Cardinality(DOMAIN rows)]
Circular(rows, k) == Len(Path(rows, k)) > Cardinality(DOMAIN rows)
AboveSet(rows, k) == LET s == Path(rows, k) IN {s[i] : i \in 1..(Len(s) - 1)}

vars == <<store, records, import, export, jobs, disturbed, due, excused>>

Disturb(kind) ==
    kind \in Disturbances /\ disturbed < MaxDisturbances /\ disturbed' = disturbed + 1

Init ==
    /\ store = InitialStore
    /\ records = InitialRecords
    /\ import = None /\ export = None /\ jobs = {}
    /\ disturbed = 0 /\ due = {} /\ excused = {}

-----------------------------------------------------------------------------
(* The store's staff.                                                      *)

StaffAdds(kind, parent, c) ==
    /\ Len(store) < MaxOnStore
    /\ parent # 0 => Alive(store, parent) /\ store[parent].kind = "category"
    /\ Disturb("add")
    /\ store' = Append(store, Entry(kind, parent, c))
    /\ UNCHANGED <<records, import, export, jobs, due, excused>>

StaffMoves(id, parent) ==
    /\ Alive(store, id) /\ store[id].kind = "category" /\ parent # store[id].parent
    /\ parent # 0 => /\ Alive(store, parent) /\ store[parent].kind = "category"
                     /\ id \notin {parent} \cup AboveSet(store, parent)
    /\ Disturb("move")
    /\ store' = [store EXCEPT ![id].parent = parent]
    /\ UNCHANGED <<records, import, export, jobs, due, excused>>

StaffRemoves(id) ==
    /\ Alive(store, id) /\ ~(\E x \in DOMAIN store : Alive(store, x) /\ store[x].parent = id)
    /\ Disturb("remove")
    /\ store' = [store EXCEPT ![id].alive = FALSE]
    /\ UNCHANGED <<records, import, export, jobs, due, excused>>

-----------------------------------------------------------------------------
(* Transactions: old is what they see, mine what they make of it, wrote    *)
(* the rows that they write without a change.                              *)

Wrote(t) == {k \in Keys : t.mine[k] # t.old[k]} \cup t.wrote
Merged(t) == [k \in Keys |-> IF k \in Wrote(t) THEN t.mine[k] ELSE records[k]]
Commits(t) ==
    /\ \A k \in Wrote(t) : records[k] = t.old[k]
    /\ LET rows == Merged(t)
       IN  Unique(rows) /\ \A k \in Existing(rows) : rows[k].parent # 0 => rows[rows[k].parent] # None

Transaction == [old |-> records, mine |-> records, wrote |-> {}]

-----------------------------------------------------------------------------
(* The import of categories.                                               *)

Categories(s) == {id \in DOMAIN s : Alive(s, id) /\ s[id].kind = "category"}
Known(s, rows) == {c \in Categories(s) : Of(rows, "category", c) # {}}
KeyOf(rows, c) == IF Of(rows, "category", c) = {} THEN c ELSE CHOOSE k \in Of(rows, "category", c) : TRUE

(* Where SingularCategoryTreeDataInTrans gets to: below a category that is *)
(* known and not a root, what it finds is dropped.                         *)
Reached(s, rows) ==
    LET known == Known(s, rows)
    IN  {c \in Categories(s) : \A a \in AboveSet(s, c) : s[a].parent = 0 \/ a \notin known}

RootKeys(s, rows) == {KeyOf(rows, c) : c \in {d \in Known(s, rows) : s[d].parent = 0}}

(* What the walk makes of the record of a category that it reaches.        *)
Walked(s, rows, c, detached) ==
    LET old == rows[KeyOf(rows, c)]
        parent == IF s[c].parent = 0 THEN 0 ELSE KeyOf(rows, s[c].parent)
    IN  IF Of(rows, "category", c) = {} THEN Record("category", c, parent, s[c].content)
        ELSE IF s[c].parent # 0 THEN [old EXCEPT !.parent = parent]
        ELSE [old EXCEPT !.content = s[c].content, !.parent = IF @ \in detached THEN 0 ELSE @]

(* Mutant of Others: the children of a root are added to those it has.    *)
OthersStay(rows, detached) == rows

(* Known roots lose the children they have, (5, 0, 0), and get those of    *)
(* the tree.                                                               *)
Others(rows, detached) ==
    [k \in Keys |-> IF rows[k] # None /\ rows[k].kind = "category" /\ rows[k].parent \in detached
                    THEN [rows[k] EXCEPT !.parent = 0] ELSE rows[k]]

WithTree(s, rows) ==
    LET roots == RootKeys(s, rows)
        others == Others(rows, roots)
        walked == [c \in Reached(s, rows) |-> Walked(s, rows, c, roots)]
        keys == {<<KeyOf(rows, c), c>> : c \in DOMAIN walked}
    IN  [k \in Keys |-> IF \E p \in keys : p[1] = k
                        THEN walked[(CHOOSE p \in keys : p[1] = k)[2]] ELSE others[k]]

BeginImport ==
    /\ import = None
    /\ import' = Transaction @@ [step |-> "tree", tree |-> <<>>]
    /\ UNCHANGED <<store, records, export, jobs, disturbed, due, excused>>

(* Odoo refuses circles: the import is logged as failed.                   *)
ImportTree ==
    /\ import # None /\ import.step = "tree"
    /\ LET rows == WithTree(store, import.mine)
           detached == {k \in Existing(import.old) : import.old[k].parent \in RootKeys(store, import.old)}
       IN  import' = IF \E k \in Existing(rows) : Circular(rows, k) THEN None
                     ELSE [import EXCEPT !.step = "details", !.tree = store, !.mine = rows, !.wrote = detached]
    /\ UNCHANGED <<store, records, export, jobs, disturbed, due, excused>>

WithDetails(rows) ==
    [k \in Keys |->
        IF rows[k] # None /\ rows[k].kind = "category" /\ Alive(store, rows[k].id)
        THEN [rows[k] EXCEPT !.content = store[rows[k].id].content] ELSE rows[k]]

(* The details of categories of which there is no record are dropped.  A   *)
(* page that is refused ends the listing, and any other error is logged    *)
(* and what the transaction has done so far is kept.                       *)
ImportDetails ==
    /\ import # None /\ import.step = "details"
    /\ \/ /\ import' = [import EXCEPT !.step = "save",
                          !.mine = WithDetails(@)]
          /\ UNCHANGED disturbed
       \/ Disturb("refused") /\ import' = [import EXCEPT !.step = "save"]
    /\ UNCHANGED <<store, records, export, jobs, due, excused>>

SaveImport ==
    /\ import # None /\ import.step = "save"
    /\ records' = IF Commits(import) THEN Merged(import) ELSE records
    /\ import' = None
    /\ UNCHANGED <<store, export, jobs, disturbed, due, excused>>

-----------------------------------------------------------------------------
(* The import of groups.                                                   *)

(* A group with a category of which there is no record is logged as        *)
(* failed.  Whether to create or to update is decided here.                *)
ListGroup(id) ==
    /\ jobs = {}
    /\ Alive(store, id) /\ store[id].kind = "group"
    /\ store[id].parent # 0 => Of(records, "category", store[id].parent) # {}
    /\ jobs' = {[id |-> id, content |-> store[id].content,
                 parent |-> IF store[id].parent = 0 THEN 0 ELSE KeyOf(records, store[id].parent),
                 update |-> Of(records, "group", id)]}
    /\ UNCHANGED <<store, records, import, export, disturbed, due, excused>>

(* The job fails if the record or the category is gone, or there is one    *)
(* of the id now.                                                          *)
SyncGroup(j) ==
    LET k == IF j.update = {} THEN j.id ELSE CHOOSE l \in j.update : TRUE
        flag == j.update # {} /\ records[k] # None /\ records[k].flag
        rows == [records EXCEPT ![k] = [Record("group", j.id, j.parent, j.content) EXCEPT !.flag = flag]]
        saves == /\ j.update = {} <=> records[k] = None
                 /\ j.parent # 0 => records[j.parent] # None
                 /\ Unique(rows)
    IN  /\ records' = IF saves THEN rows ELSE records
        /\ jobs' = jobs \ {j}
        /\ UNCHANGED <<store, import, export, disturbed, due, excused>>

-----------------------------------------------------------------------------
(* Edits in Odoo.                                                          *)

UserWrites(k, row) ==
    /\ records' = [records EXCEPT ![k] = row]
    /\ due' = due \cup {k} /\ excused' = excused \ {k}
    /\ UNCHANGED <<store, import, export, jobs>>

UserCreates(kind, parent, c) ==
    /\ Disturb("create")
    /\ parent \in {0} \cup {p \in Existing(records) : records[p].kind = "category"}
    /\ \E k \in Keys \ Ids :
         /\ records[k] = None
         /\ UserWrites(k, Record(kind, 0, parent, c))

(* Mutant of UserEdits: the flag of a group is left alone.                *)
UserEditsQuietly(k, c) ==
    /\ k \in Existing(records) /\ c # records[k].content
    /\ Disturb("edit")
    /\ UserWrites(k, [records[k] EXCEPT !.content = c, !.flag = @ \/ records[k].kind = "category"])

UserEdits(k, c) ==
    /\ k \in Existing(records) /\ c # records[k].content
    /\ Disturb("edit")
    /\ UserWrites(k, [records[k] EXCEPT !.content = c, !.flag = TRUE])

(* _check_category_recursion of the parent store.                          *)
UserMoves(k, parent) ==
    /\ k \in Existing(records) /\ parent # records[k].parent
    /\ parent # 0 => /\ parent \in Existing(records) /\ records[parent].kind = "category"
                     /\ k \notin {parent} \cup AboveSet(records, parent)
    /\ Disturb("edit")
    /\ UserWrites(k, [records[k] EXCEPT !.parent = parent, !.flag = TRUE])

(* The database clears the parent of the children, and no flag is raised.  *)
UserUnlinks(k) ==
    /\ k \in Existing(records)
    /\ Disturb("unlink")
    /\ LET below == {l \in Existing(records) \ {k} : records[l].parent = k}
       IN  /\ records' = [l \in Keys |-> IF l = k THEN None
                                         ELSE IF l \in below THEN [records[l] EXCEPT !.parent = 0]
                                         ELSE records[l]]
           /\ due' = (due \ {k}) \cup below
           /\ excused' = (excused \ {k}) \cup below
    /\ UNCHANGED <<store, import, export, jobs>>

(* bigcommerce_delete_customer_group.                                      *)
UserDeletesOnStore(k) ==
    /\ k \in Existing(records) /\ records[k].kind = "group" /\ Alive(store, records[k].id)
    /\ Disturb("delete")
    /\ store' = [store EXCEPT ![records[k].id].alive = FALSE]
    /\ records' = [records EXCEPT ![k].id = 0, ![k].flag = TRUE]
    /\ UNCHANGED <<import, export, jobs, due, excused>>

-----------------------------------------------------------------------------
(* The export.                                                             *)

Chain(rows, k) ==
    IF rows[k].kind = "group" THEN <<k>> ELSE Path(rows, k)

BeginExport(k) ==
    /\ export = None /\ k \in Existing(records) /\ ~Circular(records, k)
    /\ export' = Transaction @@ [todo |-> Chain(records, k), sent |-> {}, quiet |-> {}]
    /\ UNCHANGED <<store, records, import, jobs, disturbed, due, excused>>

(* prepare_data.  The store refuses a parent that it does not have.        *)
ParentId(k) == LET p == export.mine[k].parent IN IF p = 0 THEN 0 ELSE export.mine[p].id
Acceptable(k) ==
    LET p == export.mine[k].parent IN p = 0 \/ (Alive(store, ParentId(k)) /\ store[ParentId(k)].kind = "category")
Sent(k) == Entry(export.mine[k].kind, ParentId(k), export.mine[k].content)

OnStore(k) == Alive(store, export.mine[k].id)
Exported(k, id, quiet) ==
    export' = [export EXCEPT !.todo = Tail(@), !.sent = @ \cup {k}, !.quiet = @ \cup quiet,
                             !.mine[k].id = id, !.mine[k].flag = FALSE]

Put(k) ==
    /\ OnStore(k) /\ Acceptable(k)
    /\ store' = [store EXCEPT ![export.mine[k].id] = Sent(k)]
    /\ Exported(k, export.mine[k].id, {})

(* Without an id, and if the store answers "not found".                    *)
Post(k) ==
    /\ ~OnStore(k) /\ Acceptable(k) /\ Len(store) < MaxOnStore
    /\ store' = Append(store, Sent(k))
    /\ Exported(k, Len(store) + 1, {})

(* The second request after "not found" is refused: a message is posted    *)
(* and the export goes on as if it had succeeded.                          *)
PostSwallowed(k) ==
    /\ ~OnStore(k) /\ export.mine[k].id # 0
    /\ Exported(k, export.mine[k].id, {k})
    /\ UNCHANGED store

(* Any other refusal, and the rate limit, end the transaction.             *)
Refused(k) ==
    /\ OnStore(k) \/ export.mine[k].id = 0
    /\ export' = None
    /\ UNCHANGED store

Send ==
    /\ export # None /\ export.todo # <<>>
    /\ LET k == Head(export.todo)
       IN  \/ (Put(k) \/ Post(k)) /\ UNCHANGED disturbed
           \/ ~Acceptable(k) /\ (Refused(k) \/ PostSwallowed(k)) /\ UNCHANGED disturbed
           \/ Disturb("refused") /\ (Refused(k) \/ PostSwallowed(k))
    /\ UNCHANGED <<records, import, jobs, due, excused>>

EndExport ==
    /\ export # None /\ export.todo = <<>>
    /\ \/ ~Commits(export) /\ UNCHANGED <<records, due, excused>>
       \/ /\ Commits(export)
          /\ records' = Merged(export)
          /\ due' = {k \in due : records[k] # export.old[k] \/ k \in export.quiet
                                  \/ k \notin export.sent}
          /\ excused' = excused \cup {k \in export.quiet : records[k] = export.old[k]}
    /\ export' = None
    /\ UNCHANGED <<store, import, jobs, disturbed>>

Staff ==
    \/ \E id \in DOMAIN store :
         StaffRemoves(id) \/ \E p \in {0} \cup DOMAIN store : StaffMoves(id, p)
    \/ \E kind \in {"category", "group"}, p \in {0} \cup DOMAIN store, c \in Contents :
         StaffAdds(kind, p, c)

User ==
    \/ \E k \in Keys :
         \/ \E c \in Contents : UserEdits(k, c)
         \/ \E p \in {0} \cup Keys : UserMoves(k, p)
         \/ UserUnlinks(k) \/ UserDeletesOnStore(k) \/ BeginExport(k)
    \/ \E kind \in {"category", "group"}, p \in {0} \cup Keys, c \in Contents : UserCreates(kind, p, c)

Next ==
    \/ Staff \/ User \/ Send \/ EndExport
    \/ BeginImport \/ ImportTree \/ ImportDetails \/ SaveImport
    \/ \E id \in DOMAIN store : ListGroup(id)
    \/ \E j \in jobs : SyncGroup(j)

Spec == Init /\ [][Next]_vars
-----------------------------------------------------------------------------
(* Properties.                                                             *)

(* need_to_export is raised while the store lacks an edit of something     *)
(* that it has, however edits, imports and exports interleave and fail;    *)
(* unless a second request was refused silently, or a category was deleted *)
(* above it.                                                               *)
EditsTold ==
    \A k \in due \ excused : records[k].id # 0 => records[k].flag

(* Once an import has read the tree, its roots and its new categories have *)
(* the children that they have on the store, and no others: the walk that  *)
(* makes, links and unlinks records is right as far as it gets.            *)
TreeImported ==
    import # None /\ import.step # "tree" =>
        LET s == import.tree
            rows == import.mine
            known == Known(s, import.old)
            children(k) == {l \in Existing(rows) : rows[l].kind = "category" /\ rows[l].parent = k}
        IN  \A c \in Reached(s, import.old) :
                s[c].parent = 0 \/ c \notin known =>
                    children(KeyOf(rows, c)) = {KeyOf(rows, d) : d \in {x \in Categories(s) : s[x].parent = c}}
=============================================================================
