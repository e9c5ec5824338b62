---------------------------- MODULE StoreClient -----------------------------
(***************************************************************************)
(* The client of the store's interface: composites, that hold the data of  *)
(* records and the last response, and the methods of their models, that    *)
(* send requests.                                                          *)
(*                                                                         *)
(* Each method has one request builder for the whole process.  A call      *)
(* looks the method up, which leaves the model in its decorator, then      *)
(* fills the builder, then builds the request from it and sends it.        *)
(* Threads of a process share builders and decorators.                     *)
(***************************************************************************)
EXTENDS Integers, FiniteSets, Sequences

CONSTANTS
    Threads,          \* of one process
    V2Models, V3Models,   \* models, by the version of the store's interface
    InitialStore,     \* [Models -> [ids -> body or None]]
    Bodies,           \* what a record may contain
    PageSize,         \* records on a page
    MaxCalls,         \* bound: calls of the threads together
    Disturbances, MaxDisturbances,   \* what may happen, and how often
    None

VARIABLES
    store,      \* the store's records
    held,       \* [Threads -> the composite that a thread works with, or None]
    call,       \* [Threads -> the call that is going on, or None]
    owner,      \* [Methods -> the model a method was last looked up for]
    builder,    \* [Methods -> what its builder was last filled with]
    calls,      \* counts the calls
    disturbed,  \* counts what happens
    sent,       \* history: the request of this step, and what its caller asked for
    listing     \* history: [Threads -> what a listing has seen, or None]

vars == <<store, held, call, owner, builder, calls, disturbed, sent, listing>>

Models == V2Models \cup V3Models
Ids == UNION {DOMAIN InitialStore[m] : m \in Models}
Methods == {"all", "next_v2", "next_v3", "get", "publish", "put", "delete"}
NoBody == {"all", "next_v2", "next_v3", "get", "delete"}
Keyed == {"get", "put", "delete"}

(* What composites and requests consist of, and what calls are.            *)
Contents == Bodies \cup {None} \cup
    UNION {{InitialStore[m][id] : id \in DOMAIN InitialStore[m]} : m \in Models}
Data == [id : Ids \cup {None}, body : Contents]
Requests ==
    [method : Methods, model : Models, key : Ids \cup {None}, json : Data \cup {None}, params : Nat \cup {None}]
Calls == [asked : Requests, built : BOOLEAN, shared : BOOLEAN]
Responses == [page : Nat \cup {None}, more : BOOLEAN]

StoreClientAssumption ==
    /\ PageSize \in Nat \ {0}
    /\ InitialStore = [m \in Models |-> [id \in DOMAIN InitialStore[m] |-> InitialStore[m][id]]]
    /\ \A m \in Models : IsFiniteSet(DOMAIN InitialStore[m]) /\ DOMAIN InitialStore[m] \subseteq Nat
    /\ None \notin Nat /\ None \notin Calls /\ None \notin Responses /\ None \notin Data

(* What is held of a record: its id and its body, if it has them; key is   *)
(* the id that was acknowledged.                                           *)
Datum(id, body) == [id |-> id, body |-> body]
Empty == Datum(None, None)
Nil == [kind |-> "nil", data |-> <<>>, key |-> None]
Singular(d) == [kind |-> "one", data |-> <<d>>, key |-> d.id]
FromData(list) ==
    IF list = <<>> THEN Nil
    ELSE IF Len(list) = 1 THEN Singular(list[1])
    ELSE [kind |-> "many", data |-> list, key |-> None]

Composite(model, res, response) == [model |-> model, res |-> res, response |-> response]

NoAttributes == [model |-> None, key |-> None, json |-> None, params |-> None, url |-> None]

Disturb(kind) ==
    kind \in Disturbances /\ disturbed < MaxDisturbances /\ disturbed' = disturbed + 1

Init ==
    /\ store = InitialStore
    /\ held = [t \in Threads |-> None]
    /\ call = [t \in Threads |-> None]
    /\ owner = [m \in Methods |-> None]
    /\ builder = [m \in Methods |-> NoAttributes]
    /\ calls = 0
    /\ disturbed = 0
    /\ sent = None
    /\ listing = [t \in Threads |-> None]

-----------------------------------------------------------------------------
(* Composites.                                                             *)

Idle(t) == call[t] = None /\ calls < MaxCalls
Holds(t, c) ==
    /\ held' = [held EXCEPT ![t] = c]
    /\ sent' = None
    /\ UNCHANGED <<store, call, owner, builder, calls, disturbed>>

(* api[model], acknowledge(id) and create_new_with(data): clones have no    *)
(* response.                                                               *)
Take(t, model) ==
    /\ Idle(t) /\ listing[t] = None
    /\ \E res \in {Nil} \cup {[Singular(Empty) EXCEPT !.key = id] : id \in DOMAIN store[model]}
                       \cup {Singular(Datum(None, b)) : b \in Bodies} :
         Holds(t, Composite(model, res, None))
    /\ UNCHANGED listing

(* Mutant of Assigned: a key in the new data is not acknowledged.          *)
AssignedKeepingKey(res, d) ==
    [res EXCEPT !.data = <<IF d.id = None THEN [d EXCEPT !.id = res.key] ELSE d>>]

(* The setter of data: an id in it is acknowledged, and an id that was     *)
(* acknowledged is added if there is none.                                 *)
Assigned(res, d) ==
    LET key == IF d.id = None THEN res.key ELSE d.id
    IN  [res EXCEPT !.key = key, !.data = <<[d EXCEPT !.id = key]>>]

Assign(t, d) ==
    /\ Idle(t) /\ listing[t] = None /\ held[t] # None /\ held[t].res.kind = "one"
    /\ Holds(t, [held[t] EXCEPT !.res = Assigned(@, d)])
    /\ UNCHANGED listing

(* One of the composites that iterating over this one gives.               *)
Iterate(t) ==
    /\ Idle(t) /\ listing[t] = None /\ held[t] # None /\ held[t].res.kind = "many"
    /\ \E i \in DOMAIN held[t].res.data : Holds(t, [held[t] EXCEPT !.res = Singular(held[t].res.data[i])])
    /\ UNCHANGED listing

(* A method that adds to the data and passes the resource on, such as      *)
(* get_order_products.                                                     *)
Enrich(t) ==
    /\ Idle(t) /\ held[t] # None /\ held[t].res # Nil /\ held[t].response # None
    /\ Holds(t, [held[t] EXCEPT !.response = None])
    /\ listing' = [listing EXCEPT ![t] = IF @ = None THEN None ELSE [@ EXCEPT !.broken = TRUE]]

-----------------------------------------------------------------------------
(* Calls.                                                                  *)

(* What a caller asks for.  get_next_page repeats the last request with    *)
(* the next page; v3 only if the store said that there is one.             *)
Ask(t, method) ==
    LET c == held[t]
    IN  [method |-> method, model |-> c.model,
         key |-> IF method \in Keyed THEN c.res.key ELSE None,
         json |-> IF method \in NoBody THEN None ELSE c.res.data[1],
         params |-> CASE method = "all" -> 1
                      [] method \in {"next_v2", "next_v3"} -> c.response.page + 1
                      [] OTHER -> None]

NextPage(t) ==
    LET c == held[t]
    IN  /\ c.response # None
        /\ c.response.page # None
        /\ c.model \in V3Models => c.response.more

Callable(t, method) ==
    LET res == held[t].res
    IN  CASE method = "all" -> res = Nil
          [] method = "next_v2" -> held[t].model \in V2Models /\ NextPage(t)
          [] method = "next_v3" -> held[t].model \in V3Models /\ NextPage(t)
          [] method = "publish" -> res.kind = "one"
          [] OTHER -> res.kind = "one" /\ res.key # None

(* The lookup, __get__ of the decorator, and what the handler propagates.  *)
Call(t, method) ==
    /\ Idle(t) /\ held[t] # None /\ Callable(t, method)
    /\ listing[t] # None => method \in {"next_v2", "next_v3"}
    /\ LET others == {u \in Threads : call[u] # None /\ call[u].asked.method = method}
       IN  call' = [u \in Threads |->
              IF u = t THEN [asked |-> Ask(t, method), built |-> FALSE, shared |-> others # {}]
              ELSE IF u \in others THEN [call[u] EXCEPT !.shared = TRUE] ELSE call[u]]
    /\ owner' = [owner EXCEPT ![method] = held[t].model]
    /\ calls' = calls + 1
    /\ listing' = [listing EXCEPT ![t] =
          IF method = "all" THEN [due |-> {id \in DOMAIN store[held[t].model] : store[held[t].model][id] # None},
                                  seen |-> {}, broken |-> FALSE, done |-> FALSE]
          ELSE @]
    /\ sent' = None
    /\ UNCHANGED <<store, held, builder, disturbed>>

(* Mutant of Filled: the body is kept when there is no data.               *)
FilledOver(old, asked, model) ==
    [old EXCEPT !.model = model, !.key = asked.key, !.params = asked.params,
                !.json = IF asked.json = None \/ (asked.json.body = None /\ @ # None) THEN @ ELSE asked.json,
                !.url = IF asked.method \in {"next_v2", "next_v3"} THEN asked.model ELSE @]

(* The model is that of the last lookup.  An attribute that a method does  *)
(* not set stays; url is set by get_next_page only.                        *)
Filled(old, asked, model) ==
    [old EXCEPT !.model = model, !.key = asked.key, !.params = asked.params,
                !.json = IF asked.method \in NoBody THEN @ ELSE asked.json,
                !.url = IF asked.method \in {"next_v2", "next_v3"} THEN asked.model ELSE @]

Fill(t) ==
    /\ call[t] # None /\ ~call[t].built
    /\ LET a == call[t].asked
       IN  builder' = [builder EXCEPT ![a.method] = Filled(@, a, owner[a.method])]
    /\ call' = [call EXCEPT ![t].built = TRUE]
    /\ sent' = None
    /\ UNCHANGED <<store, held, owner, calls, disturbed, listing>>

Request(method) ==
    LET b == builder[method]
    IN  [method |-> method, model |-> IF b.url # None THEN b.url ELSE b.model,
         key |-> b.key, json |-> b.json, params |-> b.params]

-----------------------------------------------------------------------------
(* The store's answers.                                                    *)

(* The ids of a model, in ascending order.                                 *)
Listed(model) ==
    LET ids == {id \in DOMAIN store[model] : store[model][id] # None}
    IN  CHOOSE s \in [1..Cardinality(ids) -> ids] : \A i, j \in DOMAIN s : i < j => s[i] < s[j]

Page(model, n) ==
    LET ids == Listed(model)
        last == IF n * PageSize < Len(ids) THEN n * PageSize ELSE Len(ids)
    IN  [i \in 1..(last - (n - 1) * PageSize) |->
            Datum(ids[(n - 1) * PageSize + i], store[model][ids[(n - 1) * PageSize + i]])]

Alive(r) == r.key \in DOMAIN store[r.model] /\ store[r.model][r.key] # None
Free(model) == {id \in DOMAIN store[model] : store[model][id] = None}

(* The data of the answer, None if it is refused.                          *)
Answer(r) ==
    CASE r.method \in {"all", "next_v2", "next_v3"} -> Page(r.model, r.params)
      [] r.method = "publish" ->
            IF Free(r.model) = {} \/ r.json.body = None THEN None
            ELSE <<Datum(CHOOSE id \in Free(r.model) : TRUE, r.json.body)>>
      [] r.method \in Keyed /\ ~Alive(r) -> None
      [] r.method = "get" /\ Alive(r) -> <<Datum(r.key, store[r.model][r.key])>>
      [] r.method = "put" /\ Alive(r) ->
            <<Datum(r.key, IF r.json.body = None THEN store[r.model][r.key] ELSE r.json.body)>>
      [] r.method = "delete" /\ Alive(r) -> <<>>

Effect(r, answer) ==
    IF answer = None \/ r.method \notin {"publish", "put", "delete"} THEN store
    ELSE IF r.method = "delete" THEN [store EXCEPT ![r.model][r.key] = None]
    ELSE [store EXCEPT ![r.model][answer[1].id] = answer[1].body]

(* Mutant of HasNextPage: the last page is not fetched.                    *)
HasNextPageEarly(r) == (r.params + 1) * PageSize < Len(Listed(r.model))

(* current_page < total_pages, as the store counts them.                   *)
HasNextPage(r) == r.params * PageSize < Len(Listed(r.model))

(* handle_json_response_data, get_delegated_result_from.  An answer that   *)
(* is refused gives a nil that has the response; a page after the last one *)
(* of v2 is not JSON, which gives the same.                                *)
Result(t, r, answer) ==
    Composite(held[t].model, IF answer = None THEN Nil ELSE FromData(answer),
              [page |-> r.params,
               more |-> answer # None /\ r.params # None /\ HasNextPage(r)])

Seen(t, answer) ==
    IF listing[t] = None THEN None
    ELSE [listing[t] EXCEPT
            !.seen = @ \cup IF answer = None THEN {} ELSE {answer[i].id : i \in DOMAIN answer},
            !.broken = @ \/ answer = None \/ call[t].shared,
            !.done = held'[t].res = Nil]

Disturbed == [t \in Threads |-> IF listing[t] = None THEN None ELSE [listing[t] EXCEPT !.broken = TRUE]]

Send(t) ==
    /\ call[t] # None /\ call[t].built
    /\ LET r == Request(call[t].asked.method)
           outcomes == {Answer(r)} \cup IF disturbed < MaxDisturbances /\ "refused" \in Disturbances
                                        THEN {None} ELSE {}
       IN  \E answer \in outcomes :
             /\ disturbed' = disturbed + IF answer # Answer(r) THEN 1 ELSE 0
             /\ store' = Effect(r, answer)
             /\ held' = [held EXCEPT ![t] = Result(t, r, answer)]
             /\ sent' = [request |-> r, asked |-> call[t].asked, shared |-> call[t].shared]
             /\ listing' = IF r.method = "delete" THEN Disturbed ELSE [listing EXCEPT ![t] = Seen(t, answer)]
    /\ call' = [call EXCEPT ![t] = None]
    /\ UNCHANGED <<owner, builder, calls>>

(* Importers go on while a page has data.                                  *)
Over(t) == call[t] = None /\ (listing[t].done \/ ~NextPage(t))

EndListing(t) ==
    /\ listing[t] # None /\ Over(t)
    /\ listing' = [listing EXCEPT ![t] = None]
    /\ held' = [held EXCEPT ![t] = None]
    /\ sent' = None
    /\ UNCHANGED <<store, call, owner, builder, calls, disturbed>>

(* Records come and go: those after one that leaves move up.               *)
StaffRemoves(model, id) ==
    /\ store[model][id] # None /\ Disturb("remove")
    /\ store' = [store EXCEPT ![model][id] = None]
    /\ listing' = Disturbed
    /\ sent' = None
    /\ UNCHANGED <<held, call, owner, builder, calls>>

Next ==
    \/ \E t \in Threads :
         \/ \E m \in Models : Take(t, m)
         \/ \E id \in Ids \cup {None}, b \in Bodies : Assign(t, Datum(id, b))
         \/ Iterate(t) \/ Enrich(t)
         \/ \E m \in Methods : Call(t, m)
         \/ Fill(t) \/ Send(t) \/ EndListing(t)
    \/ \E m \in Models : \E id \in DOMAIN store[m] : StaffRemoves(m, id)

Spec == Init /\ [][Next]_vars
-----------------------------------------------------------------------------
(* Properties.                                                             *)

(* Whatever calls the builder of a method served before, a request has the *)
(* model, the address, the body and the page that its caller asked for,    *)
(* unless two threads were in that method at once.                         *)
RequestsAsAsked ==
    sent # None /\ ~sent.shared => sent.request = sent.asked

(* What is put to the address of a record bears the id of that record.     *)
PutsOwnRecord ==
    sent # None /\ sent.request.method = "put" /\ ~sent.shared /\ sent.request.json.body # None =>
        sent.request.json.id = sent.request.key

(* When a listing ends it has seen each record that was there when it      *)
(* began, unless an answer was refused, records left, threads met or the   *)
(* data went through a method that passes the resource on.                 *)
ListingComplete ==
    \A t \in Threads :
        listing[t] # None /\ ~listing[t].broken /\ Over(t) => listing[t].due \subseteq listing[t].seen
=============================================================================
