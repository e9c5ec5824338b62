--------------------------- MODULE ServiceTransfers ---------------------------
(***************************************************************************)
(* Transfers of deliverable services: what stock.picking and stock.move    *)
(* are to goods, stock.service.picking and stock.service.move are to the   *)
(* services of an order that are invoiced when they are delivered.         *)
(*                                                                         *)
(* One order.  Confirming it gives each line of a service a move in a      *)
(* transfer.  Users type what they have done and validate the transfer,    *)
(* which makes another one for what remains; they cancel transfers, change *)
(* the order's quantities, and ask for a transfer when one is wanting.     *)
(* Nothing is exchanged with BigCommerce: its connector neither posts nor  *)
(* imports these transfers.                                                *)
(***************************************************************************)
EXTENDS Integers, FiniteSets, FiniteSetsExt

CONSTANTS
    Lines,         \* lines of deliverable services
    MaxQty,        \* bound: quantity of a line
    MaxPickings,   \* bound: transfers
    MaxEdits       \* bound: cancellations, deletions, changes of quantities

VARIABLES
    sale,        \* state of the order
    qty,         \* [Lines -> product_uom_qty]
    delivered,   \* [Lines -> qty_delivered]
    moves,       \* set of [picking, line, demand, done, state]
    uncovered,   \* lines changed or cancelled since transfers were made; history
    dropped,     \* lines of which done moves were deleted; history
    peak,        \* [Lines -> the most that was ordered or done]; history
    edits

vars == <<sale, qty, delivered, moves, uncovered, dropped, peak, edits>>

ServiceTransfersAssumption == IsFiniteSet(Lines) /\ MaxQty \in Nat

-----------------------------------------------------------------------------
Of(l, state, mvs) == {m \in mvs : m.line = l /\ m.state = state}

Demanded(mvs) == MapThenSumSet(LAMBDA m : m.demand, mvs)
Total(mvs) == MapThenSumSet(LAMBDA m : m.done, mvs)

(* calculate_shipped_service_quantity.                                     *)
Done(l, mvs) == Total(Of(l, "done", mvs))

(* Mutant of Assigned: drafts count for what is typed in.                  *)
TypedIn(l, mvs) == Total(Of(l, "draft", mvs)) + Done(l, mvs)

(* _get_assigned_service_qty: what drafts are to do and what was done.     *)
Assigned(l, mvs) == Demanded(Of(l, "draft", mvs)) + Done(l, mvs)

Lacking(mvs) == {l \in Lines : Assigned(l, mvs) < qty[l]}

In(p) == {m \in moves : m.picking = p}

Pickings == {m.picking : m \in moves}

(* _compute_state.                                                         *)
StateOf(p) ==
    CASE \A m \in In(p) : m.state = "cancel" -> "cancel"
      [] \E m \in In(p) : m.state = "draft" -> "draft"
      [] OTHER -> "done"

Drafts == {p \in Pickings : StateOf(p) = "draft"}

(* Moves in picking p for what lines lack (_get_stock_move_values).        *)
NewMoves(S, p, mvs) ==
    {[picking |-> p, line |-> l, state |-> "draft", done |-> 0,
      demand |-> qty[l] - Assigned(l, mvs)] : l \in S}

(* Mutant of Recounted: only what is done is counted, nothing taken back.  *)
Raised(S, mvs) ==
    [l \in Lines |-> IF l \in S /\ Done(l, mvs) > delivered[l] THEN Done(l, mvs)
                                                               ELSE delivered[l]]

Recounted(S, mvs) == [l \in Lines |-> IF l \in S THEN Done(l, mvs) ELSE delivered[l]]

(* The lines of a transfer.                                                *)
LinesOf(p) == {m.line : m \in In(p)}

(* _compute_shipping_status.                                               *)
Shipped(dlv) == (\A l \in Lines : dlv[l] >= qty[l]) /\ (\E l \in Lines : dlv[l] # 0)

Init ==
    /\ sale = "draft"
    /\ qty \in [Lines -> 1..MaxQty]
    /\ delivered = [l \in Lines |-> 0]
    /\ moves = {}
    /\ uncovered = Lines
    /\ dropped = {}
    /\ peak = qty
    /\ edits = 0

-----------------------------------------------------------------------------
(* The drafts of lines S are moves of p (_assign_picking).                 *)
Placed(S, p) ==
    {IF m.state = "draft" /\ m.line \in S THEN [m EXCEPT !.picking = p] ELSE m : m \in moves}

(* The order is confirmed, or a transfer is asked for again: each line     *)
(* that lacks something and has no draft gets a move, in the draft         *)
(* transfer if there is one.                                               *)
Confirm ==
    LET p == IF Drafts # {} THEN Max(Drafts) ELSE Max(Pickings \cup {0}) + 1
        bare == {l \in Lacking(moves) : Of(l, "draft", moves) = {}}
    IN  /\ sale \in {"draft", "sale"}
        /\ p =< MaxPickings
        /\ sale' = "sale"
        /\ moves' = Placed(Lacking(moves), p) \cup NewMoves(bare, p, moves)
        /\ uncovered' = uncovered \ {l \in Lines : Of(l, "draft", moves) = {}}
        /\ UNCHANGED <<qty, delivered, dropped, peak, edits>>

(* ServicePicking.action_done: the drafts of p with a quantity are done,   *)
(* the others cancelled.                                                   *)
Ended(p, mvs) ==
    {IF m.picking = p /\ m.state = "draft"
     THEN [m EXCEPT !.state = IF m.done = 0 THEN "cancel" ELSE "done"]
     ELSE m : m \in mvs}

(* The transfer ends so, with the moves of its successor; an order that is *)
(* fully shipped is done.                                                  *)
Close(p, ended, more) ==
    LET dlv == Recounted(LinesOf(p), ended)
    IN  /\ delivered' = dlv
        /\ sale' = IF Shipped(dlv) THEN "done" ELSE sale
        /\ moves' = ended \cup more
        /\ dropped' = dropped \ LinesOf(p)
        /\ peak' = [l \in Lines |-> Max({peak[l], Done(l, ended)})]
        /\ UNCHANGED <<qty, edits>>

Typed(p, f) == {IF m.picking = p /\ m.state = "draft" THEN [m EXCEPT !.done = f[m.line]]
                                                      ELSE m : m \in moves}

(* The transfer that is made for what lines lack then.                     *)
Successor(ended) == NewMoves(Lacking(ended), Max(Pickings) + 1, ended)

(* Validate: a user types what was done and validates the transfer, which  *)
(* gets a successor for all that the order's lines still lack.             *)
Validate(p) ==
    \E f \in [LinesOf(p) -> 0..MaxQty] :
        LET ended == Ended(p, Typed(p, f))
        IN  /\ \E m \in In(p) : m.state = "draft" /\ f[m.line] > 0
            /\ Lacking(ended) # {} => Max(Pickings) < MaxPickings
            /\ Close(p, ended, Successor(ended))
            /\ uncovered' = {}

(* With nothing typed: the wizard does all of it, and makes no successor.  *)
Process(p) ==
    LET demand == [l \in LinesOf(p) |-> Max({m.demand : m \in {n \in In(p) : n.line = l}})]
    IN  /\ Close(p, Ended(p, Typed(p, demand)), {})
        /\ UNCHANGED uncovered

-----------------------------------------------------------------------------
Edit == edits < MaxEdits /\ edits' = edits + 1

Cancelled(S) == {IF m \in S THEN [m EXCEPT !.state = "cancel"] ELSE m : m \in moves}

(* A transfer is cancelled, one that is done as well.                      *)
Cancel(p) ==
    /\ Edit
    /\ StateOf(p) # "cancel"
    /\ moves' = Cancelled(In(p))
    /\ delivered' = Recounted(LinesOf(p), moves')
    /\ uncovered' = uncovered \cup LinesOf(p)
    /\ dropped' = dropped \ LinesOf(p)
    /\ UNCHANGED <<sale, qty, peak>>

(* A manager deletes a transfer, with moves that are done.                 *)
Unlink(p) ==
    /\ Edit
    /\ moves' = moves \ In(p)
    /\ uncovered' = uncovered \cup LinesOf(p)
    /\ dropped' = dropped \cup {m.line : m \in {n \in In(p) : n.state = "done"}}
    /\ UNCHANGED <<sale, qty, delivered, peak>>

(* The order is cancelled: its drafts are, not what is done.               *)
CancelOrder ==
    /\ Edit
    /\ sale \in {"draft", "sale"}
    /\ sale' = "cancel"
    /\ moves' = Cancelled({m \in moves : m.state = "draft"})
    /\ delivered' = Recounted({m.line : m \in moves}, moves')
    /\ uncovered' = Lines
    /\ dropped' = dropped \ {m.line : m \in moves}
    /\ UNCHANGED <<qty, peak>>

(* It is set to quotation again, or unlocked.                              *)
Reopen ==
    /\ \/ sale = "cancel" /\ sale' = "draft"
       \/ sale = "done" /\ sale' = "sale"
    /\ UNCHANGED <<qty, delivered, moves, uncovered, dropped, peak, edits>>

ChangeQuantity(l, q) ==
    /\ Edit
    /\ sale \in {"draft", "sale"} /\ q # qty[l]
    /\ qty' = [qty EXCEPT ![l] = q]
    /\ peak' = [peak EXCEPT ![l] = Max({@, q})]
    /\ uncovered' = IF q > qty[l] THEN uncovered \cup {l} ELSE uncovered
    /\ UNCHANGED <<sale, delivered, moves, dropped>>

Next ==
    \/ Confirm
    \/ \E p \in Drafts : Validate(p) \/ Process(p)
    \/ \E p \in Pickings : Cancel(p) \/ Unlink(p)
    \/ CancelOrder
    \/ Reopen
    \/ \E l \in Lines, q \in 1..MaxQty : ChangeQuantity(l, q)

Spec == Init /\ [][Next]_vars

-----------------------------------------------------------------------------
(* What a line is said to have delivered is what its done moves add up to, *)
(* through validations, cancellations of done transfers and of the order;  *)
(* but for a line whose done moves a manager has deleted since: unlink     *)
(* "Checks if moves are not done", and does not.                           *)
DeliveredIsDone == \A l \in Lines \ dropped : delivered[l] = Done(l, moves)

(* Drafts and done moves of a line never come to more than was ordered or  *)
(* done: no quantity is planned twice, by a transfer's successor and by a  *)
(* transfer that is asked for.                                             *)
NothingTwice == \A l \in Lines : Assigned(l, moves) =< peak[l]

(* A confirmed order has moves for all of its services, done or planned,   *)
(* but for a line whose quantity was raised or whose transfer was          *)
(* cancelled after the last transfer with a successor.                     *)
NothingLeftOut ==
    sale \in {"sale", "done"} => \A l \in Lines \ uncovered : Assigned(l, moves) >= qty[l]
=============================================================================
