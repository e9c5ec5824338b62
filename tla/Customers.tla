----------------------------- MODULE Customers ------------------------------
(***************************************************************************)
(* Customers of orders: their profiles, and the contacts that orders are   *)
(* addressed to.                                                           *)
(*                                                                         *)
(* The import of an order fetches its customer, saves the profile, finds   *)
(* or makes the main contact, companies, and the contacts for the invoice  *)
(* and the delivery, and queues a job that saves the order.  Imports are   *)
(* transactions: they see what was there when they began.                  *)
(***************************************************************************)
EXTENDS Integers, FiniteSets

CONSTANTS
    Emails,           \* what a customer's profile says: the e-mail
    InitialStore,     \* [ids -> e-mail], the ids from 1
    OrderData,        \* what an order may say, see Address
    Orders,           \* orders that are imported
    MaxContacts,      \* bound: contacts in Odoo
    MaxSaves,         \* bound: jobs that save orders
    Disturbances, MaxDisturbances,   \* what may happen, and how often
    None

VARIABLES
    store,       \* [ids -> e-mail or None] the store's customers
    profiles,    \* [ids -> e-mail or None] customer.channel, unique by id
    contacts,    \* res.partner, a set of Contact
    orders,      \* [Orders -> None, or what was said of it first and last]
    runs,        \* imports of orders that run
    jobs,        \* jobs that save orders
    warned,      \* orders with an activity: the delivery address is another
    disturbed,   \* counts what happens
    unseen       \* history: contacts made by one who could not see another's

vars == <<store, profiles, contacts, orders, runs, jobs, warned, disturbed, unseen>>

Ids == DOMAIN InitialStore
NoProfiles == [c \in Ids |-> None]

(* An address of an order has a company or none; a guest's main contact is *)
(* found by the e-mail of the address.                                     *)
Address(email, company, place) == [email |-> email, company |-> company, place |-> place]

(* parent is 0 for main contacts and companies.                            *)
Contact(k, type, email, parent, place) ==
    [key |-> k, type |-> type, email |-> email, parent |-> parent, place |-> place]
Keys == {k.key : k \in contacts} \cup UNION {{k.key : k \in r.made} : r \in runs}

Disturb(kind) ==
    kind \in Disturbances /\ disturbed < MaxDisturbances /\ disturbed' = disturbed + 1

Init ==
    /\ store = InitialStore
    /\ profiles = NoProfiles
    /\ contacts = {} /\ orders = [o \in Orders |-> None]
    /\ runs = {} /\ jobs = {} /\ warned = {}
    /\ disturbed = 0 /\ unseen = {}

-----------------------------------------------------------------------------
(* The store.                                                              *)

CustomerChanges(c, email) ==
    /\ store[c] \notin {None, email} /\ Disturb("change")
    /\ store' = [store EXCEPT ![c] = email]
    /\ UNCHANGED <<profiles, contacts, orders, runs, jobs, warned, unseen>>

CustomerLeaves(c) ==
    /\ store[c] # None /\ Disturb("leave")
    /\ store' = [store EXCEPT ![c] = None]
    /\ UNCHANGED <<profiles, contacts, orders, runs, jobs, warned, unseen>>

-----------------------------------------------------------------------------
(* Transactions.                                                           *)

(* Rows created are created once, unique(id_on_channel, channel_id), and   *)
(* rows written were not written since.                                    *)
Commits(r) == \A c \in DOMAIN r.saved : profiles[c] = r.seen[c]
Saves(r) == [c \in Ids |-> IF c \in DOMAIN r.saved THEN r.saved[c] ELSE profiles[c]]

(* kind: the order is created or updated, by what is in Odoo now.          *)
BeginOrder(o, data) ==
    /\ ~(\E r \in runs : r.order = o)
    /\ runs' = runs \cup {[order |-> o, data |-> data, kind |-> IF orders[o] = None THEN "create" ELSE "update",
                           step |-> "begun", saved |-> <<>>, seen |-> profiles, old |-> contacts, made |-> {},
                           result |-> [main |-> 0, invoice |-> 0, delivery |-> 0]]}
    /\ UNCHANGED <<store, profiles, contacts, orders, jobs, warned, disturbed, unseen>>

(* get_data_from_channel: a customer that the store does not give fails    *)
(* the order.                                                              *)
FetchCustomer(r) ==
    /\ r.step = "begun"
    /\ LET c == r.data.customer
       IN  runs' = (runs \ {r}) \cup
              IF c = 0 THEN {[r EXCEPT !.step = "customer"]}
              ELSE IF store[c] = None THEN {}
              ELSE {[r EXCEPT !.step = "customer", !.saved = [x \in {c} |-> store[c]]]}
    /\ UNCHANGED <<store, profiles, contacts, orders, jobs, warned, disturbed, unseen>>

(* What the transaction sees.  Searches give the first.                    *)
Sees(r) == r.old \cup r.made
First(found) == (CHOOSE k \in found : \A l \in found : k.key <= l.key).key

Fresh(r) ==
    LET taken == Keys \cup {k.key : k \in r.made}
    IN  CHOOSE k \in 1..(Cardinality(taken) + 1) : k \notin taken
Makes(r, type, email, parent, place) ==
    [r EXCEPT !.made = @ \cup {Contact(Fresh(r), type, email, parent, place)}]

(* The e-mail that the main contact is looked for by, None for a guest     *)
(* without an address.                                                     *)
MainEmail(r) ==
    LET d == r.data
    IN  IF d.customer # 0 THEN r.saved[d.customer]
        ELSE IF d.invoice # None THEN d.invoice.email
        ELSE IF d.delivery # None THEN d.delivery.email ELSE None

Mains(r) == {k \in Sees(r) : k.type = "contact" /\ k.email # None /\ k.email = MainEmail(r)}

(* get_customer_partner.                                                   *)
WithMain(r) ==
    IF Mains(r) # {} THEN [r EXCEPT !.result.main = First(Mains(r))]
    ELSE [Makes(r, "contact", MainEmail(r), 0, None) EXCEPT !.result.main = Fresh(r)]

(* determine_company looks for the name only: what it filters by address   *)
(* is dropped.                                                             *)
Companies(r, name) == {k \in Sees(r) : k.type = "company" /\ k.place = name}
WithCompany(r, name) == IF Companies(r, name) # {} THEN r ELSE Makes(r, "company", None, 0, name)

(* Mutant of Matching: the children of the main contact are looked at,     *)
(* also if there is a company.                                             *)
MatchingMain(r, type, parent, address) ==
    {k \in Sees(r) : k.parent = r.result.main /\ k.type = type /\ k.place = address.place /\ k.email = address.email}

(* compare_address, of the children of the company or the main contact.    *)
Matching(r, type, parent, address) ==
    {k \in Sees(r) : k.parent = parent /\ k.type = type /\ k.place = address.place /\ k.email = address.email}

WithContact(r, type) ==
    LET address == r.data[type]
    IN  IF address = None THEN [r EXCEPT !.result[type] = r.result.main]
        ELSE LET run == IF address.company = None THEN r ELSE WithCompany(r, address.company)
                 parent == IF address.company = None THEN r.result.main ELSE First(Companies(run, address.company))
                 found == Matching(run, type, parent, address)
             IN  IF found # {} THEN [run EXCEPT !.result[type] = First(found)]
                 ELSE [Makes(run, type, address.email, parent, address.place) EXCEPT !.result[type] = Fresh(run)]

(* determine_customer.                                                     *)
Determine(r) ==
    /\ r.step = "customer"
    /\ LET run == WithContact(WithContact(WithMain(r), "invoice"), "delivery")
       IN  /\ \A k \in run.made : k.key <= MaxContacts
           /\ runs' = (runs \ {r}) \cup {[run EXCEPT !.step = "done"]}
    /\ UNCHANGED <<store, profiles, contacts, orders, jobs, warned, disturbed, unseen>>

(* What is said of an order.                                               *)
Said(r) == [data |-> r.data, email |-> MainEmail(r), result |-> r.result]

(* The end of the transaction.  An order that waits for its products is    *)
(* imported again later: there is no job, and the contacts stay.           *)
EndOrder(r) ==
    /\ r.step = "done"
    /\ runs' = runs \ {r}
    /\ \/ /\ Commits(r)
          /\ profiles' = Saves(r)
          /\ contacts' = contacts \cup r.made
          /\ \/ UNCHANGED jobs
             \/ /\ Cardinality(jobs) < MaxSaves
                /\ jobs' = jobs \cup {[order |-> r.order, kind |-> r.kind, said |-> Said(r)]}
          /\ unseen' = unseen \cup IF contacts = r.old THEN {} ELSE {k.key : k \in r.made}
       \/ ~Commits(r) /\ UNCHANGED <<profiles, contacts, jobs, unseen>>
    /\ UNCHANGED <<store, orders, warned, disturbed>>

Of(key) == CHOOSE k \in contacts : k.key = key

(* create and _update_in_queue_job: the delivery contact stays that of the *)
(* first; the rest, and updated_shipping_address_id, are of the latest.    *)
(* Who made an order twice, or lost one to update, fails.                  *)
SaveOrder(j) ==
    /\ jobs' = jobs \ {j}
    /\ \/ /\ j.kind = "create" /\ orders[j.order] = None
          /\ orders' = [orders EXCEPT ![j.order] = [first |-> j.said, latest |-> j.said]]
          /\ UNCHANGED warned
       \/ /\ j.kind = "update" /\ orders[j.order] # None
          /\ orders' = [orders EXCEPT ![j.order] = [first |-> @.first, latest |-> j.said]]
          /\ warned' = IF Of(j.said.result.delivery).place = Of(orders[j.order].latest.result.delivery).place
                       THEN warned ELSE warned \cup {j.order}
       \/ /\ (j.kind = "create") # (orders[j.order] = None)
          /\ UNCHANGED <<orders, warned>>
    /\ UNCHANGED <<store, profiles, contacts, runs, disturbed, unseen>>

Next ==
    \/ \E c \in Ids : CustomerLeaves(c) \/ \E e \in Emails : CustomerChanges(c, e)
    \/ \E o \in Orders, data \in OrderData : BeginOrder(o, data)
    \/ \E r \in runs : FetchCustomer(r) \/ Determine(r) \/ EndOrder(r)
    \/ \E j \in jobs : SaveOrder(j)

Spec == Init /\ [][Next]_vars
-----------------------------------------------------------------------------
(* Properties.                                                             *)

(* However often and in which order orders are imported, there is one main *)
(* contact for an e-mail, one company of a name and one contact for an     *)
(* address below them, unless two that could not see each other made them. *)
ContactsReused ==
    \A k, l \in contacts :
        /\ k.key # l.key /\ (k.email # None \/ k.type = "company")
        /\ [k EXCEPT !.key = 0] = [l EXCEPT !.key = 0]
        => k.key \in unseen \/ l.key \in unseen

(* key is the contact of the type that has the address, below the main     *)
(* contact or the company that the address names.                          *)
HasAddress(key, type, address, main) ==
    IF address = None THEN key = main
    ELSE /\ <<Of(key).type, Of(key).place, Of(key).email>> = <<type, address.place, address.email>>
         /\ IF address.company = None THEN Of(key).parent = main
            ELSE Of(Of(key).parent).type = "company" /\ Of(Of(key).parent).place = address.company

(* An order is addressed to whom it says: the main contact of its customer *)
(* or of its first address, and contacts with its addresses.  A delivery   *)
(* goes where the order said first; if it says another place since, there  *)
(* is an activity (_update_in_queue_job).                                  *)
OrdersAddressed ==
    \A o \in Orders : orders[o] # None =>
        LET first == orders[o].first
            last == orders[o].latest
        IN  /\ Of(last.result.main).email = last.email
            /\ HasAddress(last.result.invoice, "invoice", last.data.invoice, last.result.main)
            /\ HasAddress(last.result.delivery, "delivery", last.data.delivery, last.result.main)
            /\ HasAddress(first.result.delivery, "delivery", first.data.delivery, first.result.main)
            /\ o \in warned \/ Of(first.result.delivery).place = Of(last.result.delivery).place
=============================================================================
