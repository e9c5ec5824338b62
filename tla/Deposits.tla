------------------------------ MODULE Deposits -------------------------------
(***************************************************************************)
(* The deposits of one sale order, and the invoices they pay.              *)
(*                                                                         *)
(* A deposit is a payment of the customer, mostly for an order: together   *)
(* the deposits of an order may not be more than the order.  An invoice    *)
(* that is posted takes what it needs from the order's deposits.  For each *)
(* of them a journal entry is made: on one side it draws on the deposit,   *)
(* on the other it pays the invoice.  Setting back a payment or an invoice *)
(* deletes the entries.                                                    *)
(*                                                                         *)
(* An imported order obeys the processing rule of its channel: whenever    *)
(* the order is written, the rule may confirm it, make a deposit of all    *)
(* its amount, and invoice it.                                             *)
(*                                                                         *)
(* Each action is a transaction.  They write the order's stored totals and *)
(* the residual amounts, so those that meet cannot both commit.  A piece   *)
(* of the order costs 1.                                                   *)
(***************************************************************************)
EXTENDS Integers, FiniteSets, FiniteSetsExt

CONSTANTS
    Deposits, Invoices,   \* bound: so many of each
    Rules,                \* rules of the channel, [confirms, pays, trigger]
    MaxTotal,             \* bound: the amount of an order, a deposit, an invoice
    Disturbances, MaxDisturbances,   \* what may happen, and how often
    None

(* account.payment, account.move and the journal entries between them.     *)
Payments == [amount : Nat, state : {"draft", "posted"}, linked : BOOLEAN]
Bills == [amount : Nat, state : {"draft", "posted", "cancel"}]
JournalEntries ==
    [deposit : Deposits, invoice : Invoices, amount : Nat, drawn : BOOLEAN, number : Nat]

DepositsAssumption ==
    /\ None \notin Payments /\ None \notin Bills
    /\ MaxTotal \in Nat \ {0} /\ MaxDisturbances \in Nat
    /\ Rules \subseteq [confirms : BOOLEAN, pays : BOOLEAN,
                        trigger : {None, "order_confirmed", "fully_shipped"}]
    /\ \A rule \in Rules : rule.pays \/ rule.trigger # None => rule.confirms
    /\ IsFiniteSet(Deposits) /\ IsFiniteSet(Invoices)

VARIABLES
    order,       \* sale.order: [state, total, delivered]
    deposit,     \* account.payment, [Deposits -> None or [amount, state, linked]]
    invoice,     \* account.move, [Invoices -> None or [amount, state]]
    entries,     \* the journal entries between them; one whose payment was set
                 \* back under it is no longer drawn on the deposit
    disturbed,   \* counts, for the bound
    peak,        \* history: the highest amount the order has had
    unchecked,   \* history: deposits posted together were more than was left
    loose        \* history: deposits whose journal entry was set back by itself

vars == <<order, deposit, invoice, entries, disturbed, peak, unchecked, loose>>

Amounts == 1..MaxTotal
Sum(es) == MapThenSumSet(LAMBDA e : e.amount, es)
EntriesOf(es, d) == {e \in es : e.deposit = d}
EntriesFor(es, i) == {e \in es : e.invoice = i}

(* amount_residual, of the payment's line and of the invoice's.            *)
Residual(es, d) == deposit[d].amount - Sum({e \in EntriesOf(es, d) : e.drawn})
Due(es, i) == invoice[i].amount - Sum(EntriesFor(es, i))

Posted(payments) == {d \in Deposits : payments[d] # None /\ payments[d].state = "posted"}
PostedInvoices == {i \in Invoices : invoice[i] # None /\ invoice[i].state = "posted"}

(* deposit_ids of the order, deposit_total and remaining_total.            *)
OrderDeposits(payments) == {d \in Posted(payments) : payments[d].linked}
DepositTotal(payments) == MapThenSumSet(LAMBDA d : payments[d].amount, OrderDeposits(payments))
RemainingTotal == order.total - DepositTotal(deposit)

(* qty_invoiced, of invoices that are not cancelled.                       *)
Invoiced ==
    MapThenSumSet(LAMBDA i : invoice[i].amount,
                  {i \in Invoices : invoice[i] # None /\ invoice[i].state # "cancel"})

Disturb(kind) ==
    kind \in Disturbances /\ disturbed < MaxDisturbances /\ disturbed' = disturbed + 1

Init ==
    /\ \E t \in Amounts : order = [state |-> "draft", total |-> t, delivered |-> 0] /\ peak = t
    /\ deposit = [d \in Deposits |-> None]
    /\ invoice = [i \in Invoices |-> None]
    /\ entries = {}
    /\ disturbed = 0 /\ unchecked = FALSE /\ loose = {}

-----------------------------------------------------------------------------
(* Applying deposits to an invoice.                                        *)

(* _create_deposit_payment_entry: an entry of what the deposit still has   *)
(* or, if it is less, of what the invoice needs; none if that is nothing.  *)
Entry(es, d, left, i, due) ==
    LET amount == Min({left, due})
        number == CHOOSE n \in 1..(Cardinality(es) + 1) : \A e \in es : e.number # n
    IN  IF amount = 0 THEN {}
        ELSE {[deposit |-> d, invoice |-> i, amount |-> amount, drawn |-> TRUE, number |-> number]}

(* _reconcile_deposit: one deposit after the other, in the order of their  *)
(* dates, which can be any.  left is what each deposit has.                *)
Reconciled(es, ds, left, i, due) ==
    LET after(s) ==
            LET paid[n \in 0..Cardinality(ds)] ==
                    IF n = 0 THEN es
                    ELSE LET before == paid[n - 1]
                         IN  before \cup Entry(before, s[n], left[s[n]], i, due - Sum(before \ es))
            IN  paid[Cardinality(ds)]
    IN  {after(s) : s \in Injection(1..Cardinality(ds), ds)}

Left(es, ds) == [d \in ds |-> Residual(es, d)]

-----------------------------------------------------------------------------
(* Deposits.                                                               *)

(* The wizard deposit.order opens the form of a payment for the order; a   *)
(* payment can be for none.                                                *)
NewDeposit(d) ==
    /\ deposit[d] = None
    /\ \E a \in Amounts, linked \in BOOLEAN :
         /\ linked => order.state = "sale"
         /\ deposit' = [deposit EXCEPT ![d] = [amount |-> a, state |-> "draft", linked |-> linked]]
    /\ UNCHANGED <<order, invoice, entries, disturbed, peak, unchecked, loose>>

EditDeposit(d) ==
    /\ deposit[d] # None /\ deposit[d].state = "draft"
    /\ \E a \in Amounts, linked \in BOOLEAN :
         /\ linked => deposit[d].linked \/ order.state = "sale"
         /\ deposit' = [deposit EXCEPT ![d].amount = a, ![d].linked = linked]
    /\ UNCHANGED <<order, invoice, entries, disturbed, peak, unchecked, loose>>

(* action_post: each is held against what remains of the order, before any *)
(* is posted.                                                              *)
PostDeposits(ds) ==
    /\ ds # {} /\ \A d \in ds : deposit[d] # None /\ deposit[d].state = "draft"
    /\ \A d \in ds : deposit[d].linked => deposit[d].amount <= RemainingTotal
    /\ IF Cardinality(ds) > 1 THEN Disturb("batch") ELSE UNCHANGED disturbed
    /\ deposit' = [d \in Deposits |-> IF d \in ds THEN [deposit[d] EXCEPT !.state = "posted"] ELSE deposit[d]]
    /\ unchecked' = (unchecked \/ (Cardinality(ds) > 1 /\ DepositTotal(deposit') > order.total))
    /\ UNCHANGED <<order, invoice, entries, peak, loose>>

(* action_draft of the payment: its entries are deleted.                   *)
DraftDeposit(d) ==
    /\ d \in Posted(deposit)
    /\ deposit' = [deposit EXCEPT ![d].state = "draft"]
    /\ entries' = entries \ EntriesOf(entries, d)
    /\ loose' = loose \ {d}
    /\ UNCHANGED <<order, invoice, disturbed, peak, unchecked>>

(* button_draft of the payment's journal entry, on the form of that entry: *)
(* a move of type "entry", of which no other entry is looked for.          *)
ResetMove(d) ==
    /\ d \in Posted(deposit)
    /\ Disturb("reset")
    /\ deposit' = [deposit EXCEPT ![d].state = "draft"]
    /\ entries' = (entries \ EntriesOf(entries, d)) \cup {[e EXCEPT !.drawn = FALSE] : e \in EntriesOf(entries, d)}
    /\ loose' = loose \cup {d}
    /\ UNCHANGED <<order, invoice, peak, unchecked>>

-----------------------------------------------------------------------------
(* Invoices.                                                               *)

(* What an invoice made now would be of, _get_to_invoice_qty.              *)
ToInvoice(trigger, total) ==
    (IF trigger = "fully_shipped" THEN order.delivered ELSE total) - Invoiced

(* _create_invoices, of what is left to invoice, if anything is.           *)
NewInvoice(i, amount, state) ==
    /\ invoice[i] = None /\ amount > 0
    /\ invoice' = [invoice EXCEPT ![i] = [amount |-> amount, state |-> state]]

CreateInvoice(i) ==
    /\ order.state = "sale"
    /\ \E trigger \in {"order_confirmed", "fully_shipped"} :
         NewInvoice(i, ToInvoice(trigger, order.total), "draft")
    /\ UNCHANGED <<order, deposit, entries, disturbed, peak, unchecked, loose>>

(* action_post applies the deposits of the order.                          *)
PostInvoice(i) ==
    /\ invoice[i] # None /\ invoice[i].state = "draft"
    /\ invoice' = [invoice EXCEPT ![i].state = "posted"]
    /\ LET ds == OrderDeposits(deposit)
       IN  entries' \in Reconciled(entries, ds, Left(entries, ds), i, Due(entries, i))
    /\ UNCHANGED <<order, deposit, disturbed, peak, unchecked, loose>>

(* Mutant of DraftInvoice: the entries are left.                           *)
DraftInvoiceOnly(i) ==
    /\ invoice[i] # None /\ invoice[i].state # "draft"
    /\ invoice' = [invoice EXCEPT ![i].state = "draft"]
    /\ UNCHANGED <<order, deposit, entries, disturbed, peak, unchecked, loose>>

(* button_draft deletes the entries that pay the invoice.                  *)
DraftInvoice(i) ==
    /\ invoice[i] # None /\ invoice[i].state # "draft"
    /\ invoice' = [invoice EXCEPT ![i].state = "draft"]
    /\ entries' = entries \ EntriesFor(entries, i)
    /\ UNCHANGED <<order, deposit, disturbed, peak, unchecked, loose>>

CancelInvoice(i) ==
    /\ invoice[i] # None /\ invoice[i].state = "draft"
    /\ invoice' = [invoice EXCEPT ![i].state = "cancel"]
    /\ UNCHANGED <<order, deposit, entries, disturbed, peak, unchecked, loose>>

(* js_assign_outstanding_line, the widget of the invoice: any deposit of   *)
(* the customer.                                                           *)
Assign(d, i) ==
    /\ d \in Posted(deposit) /\ i \in PostedInvoices
    /\ Residual(entries, d) > 0 /\ Due(entries, i) > 0
    /\ entries' = entries \cup Entry(entries, d, Residual(entries, d), i, Due(entries, i))
    /\ UNCHANGED <<order, deposit, invoice, disturbed, peak, unchecked, loose>>

(* js_remove_outstanding_partial.                                          *)
RemoveEntry(e) ==
    /\ entries' = entries \ {e}
    /\ UNCHANGED <<order, deposit, invoice, disturbed, peak, unchecked, loose>>

-----------------------------------------------------------------------------
(* The order, and its processing rule.                                     *)

(* Mutant of RulePays: the deposits that the order has do not matter.      *)
RulePaysAgain(rule, total) ==
    IF rule.pays
    THEN \E d \in Deposits :
           /\ deposit[d] = None
           /\ deposit' = [deposit EXCEPT ![d] = [amount |-> total, state |-> "posted", linked |-> TRUE]]
    ELSE UNCHANGED deposit

(* _do_run_create_payment: a deposit of all the order, if it has none. One *)
(* invoice that the order has, invoice_ids[0], is paid with it.  Posting   *)
(* the entry fails, and the job with it, if that one is not posted.        *)
RulePays(rule, total) ==
    IF rule.pays /\ OrderDeposits(deposit) = {}
    THEN \E d \in Deposits :
           /\ deposit[d] = None
           /\ deposit' = [deposit EXCEPT ![d] = [amount |-> total, state |-> "posted", linked |-> TRUE]]
    ELSE UNCHANGED deposit

FirstInvoicePaid(es, payments) ==
    LET new == Posted(payments) \ Posted(deposit)
        old == {i \in Invoices : invoice[i] # None}
    IN  IF new = {} \/ old = {} THEN {es}
        ELSE UNION {IF i \in PostedInvoices THEN
                        Reconciled(es, new, [d \in new |-> payments[d].amount], i, Due(es, i))
                    ELSE IF Due(es, i) = 0 THEN {es} ELSE {} : i \in old}

(* _do_run_create_invoice.                                                 *)
RuleInvoices(rule, state, total) ==
    /\ rule.trigger # None /\ state = "sale"
    /\ rule.trigger = "fully_shipped" => order.delivered > 0 /\ order.delivered >= total
    /\ ToInvoice(rule.trigger, total) > 0

(* Mutant of TakesDeposits: the deposits are those of before the rule.     *)
TakesOldDeposits(es, payments, i, amount) ==
    LET ds == OrderDeposits(deposit)
        left == [d \in ds |-> payments[d].amount - Sum({e \in EntriesOf(es, d) : e.drawn})]
    IN  Reconciled(es, ds, left, i, amount)

(* What the new invoice i takes of the deposits, after the entries es.     *)
TakesDeposits(es, payments, i, amount) ==
    LET ds == OrderDeposits(payments)
        left == [d \in ds |-> payments[d].amount - Sum({e \in EntriesOf(es, d) : e.drawn})]
    IN  Reconciled(es, ds, left, i, amount)

(* create with for_synching, or _update_in_queue_job: the store's total is *)
(* written, then the rule is run, if there is one.  A confirmed order      *)
(* cannot go below what has been delivered.                                *)
Sync(total, rule) ==
    LET confirms == rule.confirms /\ order.state \notin {"sale", "cancel"}
        state == IF confirms THEN "sale" ELSE order.state
    IN  /\ order.state = "sale" => total >= order.delivered
        /\ order' = [order EXCEPT !.total = total, !.state = state]
        /\ peak' = Max({peak, total})
        /\ RulePays(rule, total)
        /\ \E es \in FirstInvoicePaid(entries, deposit') :
             IF RuleInvoices(rule, state, total)
             THEN \E i \in Invoices :
                    /\ NewInvoice(i, ToInvoice(rule.trigger, total), "posted")
                    /\ entries' \in TakesDeposits(es, deposit', i, ToInvoice(rule.trigger, total))
             ELSE entries' = es /\ UNCHANGED invoice
        /\ UNCHANGED <<disturbed, unchecked, loose>>

NoRule == [confirms |-> FALSE, pays |-> FALSE, trigger |-> None]

Confirm ==
    /\ order.state = "draft"
    /\ order' = [order EXCEPT !.state = "sale"]
    /\ UNCHANGED <<deposit, invoice, entries, disturbed, peak, unchecked, loose>>

(* action_cancel: the deposits are no longer the order's, its draft        *)
(* invoices are cancelled.                                                 *)
Cancel ==
    /\ order.state \in {"draft", "sale"}
    /\ order' = [order EXCEPT !.state = "cancel"]
    /\ deposit' = [d \in Deposits |->
           IF d \in OrderDeposits(deposit) THEN [deposit[d] EXCEPT !.linked = FALSE] ELSE deposit[d]]
    /\ invoice' = [i \in Invoices |->
           IF invoice[i] # None /\ invoice[i].state = "draft"
           THEN [invoice[i] EXCEPT !.state = "cancel"] ELSE invoice[i]]
    /\ UNCHANGED <<entries, disturbed, peak, unchecked, loose>>

Redraft ==
    /\ order.state = "cancel"
    /\ order' = [order EXCEPT !.state = "draft"]
    /\ UNCHANGED <<deposit, invoice, entries, disturbed, peak, unchecked, loose>>

Deliver ==
    /\ order.state = "sale" /\ order.delivered < order.total
    /\ order' = [order EXCEPT !.delivered = @ + 1]
    /\ UNCHANGED <<deposit, invoice, entries, disturbed, peak, unchecked, loose>>

Next ==
    \/ \E d \in Deposits : NewDeposit(d) \/ EditDeposit(d) \/ DraftDeposit(d) \/ ResetMove(d)
    \/ \E ds \in SUBSET Deposits : PostDeposits(ds)
    \/ \E i \in Invoices : CreateInvoice(i) \/ PostInvoice(i) \/ DraftInvoice(i) \/ CancelInvoice(i)
    \/ \E d \in Deposits, i \in Invoices : Assign(d, i)
    \/ \E e \in entries : RemoveEntry(e)
    \/ \E t \in Amounts, rule \in Rules \cup {NoRule} : Sync(t, rule)
    \/ Confirm \/ Cancel \/ Redraft \/ Deliver

Spec == Init /\ [][Next]_vars

-----------------------------------------------------------------------------
(* Properties.                                                             *)

(* No money is used twice: what pays an invoice comes out of a posted      *)
(* deposit, which gives no more than it has, and no invoice takes more     *)
(* than it asks; except from deposits whose journal entry was set back by  *)
(* itself (js_assign_outstanding_line, action_draft, button_draft).        *)
MoneyConserved ==
    /\ \A e \in entries :
         /\ deposit[e.deposit] # None /\ invoice[e.invoice] # None
         /\ invoice[e.invoice].state = "posted"
         /\ e.deposit \notin loose => e.drawn /\ deposit[e.deposit].state = "posted"
    /\ \A d \in Posted(deposit) \ loose : Sum(EntriesOf(entries, d)) <= deposit[d].amount
    /\ \A i \in PostedInvoices : Sum(EntriesFor(entries, i)) <= invoice[i].amount

(* "Total deposit amount cannot exceed sales order amount", the message of *)
(* action_post, whatever the rule, the cancellations and the changes of    *)
(* the order do; but not for deposits that are posted together.            *)
DepositsWithinOrder == unchecked \/ DepositTotal(deposit) <= peak

(* An invoice is not posted unpaid while the order's deposits have money,  *)
(* also when the rule has made the deposit and the invoice (action_post,   *)
(* "Apply deposits of SO to invoice automatically").                       *)
InvoicePosted ==
    \A i \in PostedInvoices' \ PostedInvoices :
        Due(entries, i)' = 0 \/ \A d \in OrderDeposits(deposit') : Residual(entries, d)' = 0

PaidWhenPosted == [][InvoicePosted]_vars
=============================================================================
