----------------------------- MODULE OrderLines -----------------------------
(***************************************************************************)
(* The lines of an order: what the store's data become, and how they are   *)
(* merged into an order that is confirmed.                                 *)
(*                                                                         *)
(* A line is a record with its kind, the name or id that identifies it in  *)
(* its kind, its default product, its quantity and its price.  Discounts   *)
(* and coupons share one default product, which is what an update finds    *)
(* the discount by, and the store's data give them no quantity: a line     *)
(* that is created gets the default, 1, and one that is written keeps its  *)
(* own.                                                                    *)
(***************************************************************************)
EXTENDS Integers, Sequences, SequencesExt

NoProduct == "none"   \* sections and notes

Kinds == {"product", "discount", "coupon", "fee", "note"}
Unquantified == {"discount", "coupon"}

DefaultProduct(kind, id) ==
    CASE kind \in Unquantified -> "discount"
      [] kind = "note" -> NoProduct
      [] OTHER -> id

Line(kind, id, qty, price) ==
    [kind |-> kind, id |-> id, product |-> DefaultProduct(kind, id),
     qty |-> IF kind \in Unquantified THEN 1 ELSE qty, price |-> price]

(* The transformer: discounts and coupons, fees, taxes, each under its     *)
(* section if there is any, and then the lines of products.                *)
Section(lines, name) ==
    IF lines = <<>> THEN <<>> ELSE <<Line("note", name, 0, 0)>> \o lines

Transformed(data) ==
    Section(data.discounts \o data.coupons, "Discounts") \o Section(data.fees, "Other Fees")
        \o data.products

(* The lines of an order that a line of data is written to.                *)
Targets(lines, d) ==
    {i \in DOMAIN lines :
        CASE d.kind = "product" -> lines[i].kind = "product" /\ lines[i].id = d.id
          [] d.kind = "coupon"  -> lines[i].product = d.product /\ lines[i].id = d.id
          [] OTHER              -> lines[i].product = d.product}

ProductData(data) == SelectSeq(data, LAMBDA d : d.product # NoProduct)

(* Two targets raise "Expected singleton" and the job fails.               *)
Ambiguous(lines, data) ==
    \E d \in ToSet(ProductData(data)) : \E i, k \in Targets(lines, d) : i # k

(* A line is written with every line of data it is a target of, the last   *)
(* one wins; with none, its quantity becomes 0, and a discount or a coupon *)
(* that comes back later does not restore it.  What has no target is       *)
(* appended, a section only if the order has none of its name.             *)
Written(lines, data, i) ==
    LET for == SelectSeq(ProductData(data), LAMBDA d : i \in Targets(lines, d))
    IN  CASE lines[i].product = NoProduct -> lines[i]
          [] for = <<>>                   -> [lines[i] EXCEPT !.qty = 0]
          [] OTHER ->
               [Last(for) EXCEPT !.product = lines[i].product,
                                 !.qty = IF Last(for).kind \in Unquantified THEN lines[i].qty
                                                                            ELSE @]

(* Mutant of IsNew: lines that the order does not have are left out.       *)
IsNewNote(lines, d) ==
    /\ d.product = NoProduct
    /\ \A i \in DOMAIN lines : lines[i].product = NoProduct => lines[i].id # d.id

IsNew(lines, d) ==
    IF d.product = NoProduct
    THEN \A i \in DOMAIN lines : lines[i].product = NoProduct => lines[i].id # d.id
    ELSE Targets(lines, d) = {}

Merged(lines, data) ==
    [i \in DOMAIN lines |-> Written(lines, data, i)]
        \o SelectSeq(data, LAMBDA d : IsNew(lines, d))

(* What a customer would read off the order: the lines that count.         *)
Effective(lines) == {lines[i] : i \in {k \in DOMAIN lines : lines[k].qty # 0}}

(* A discount that an update took away and a later one brought back: the   *)
(* order has its line, with the price of the data and a quantity of 0.     *)
Stranded(lines, d) ==
    d.kind \in Unquantified /\ \E i \in DOMAIN lines : lines[i] = [d EXCEPT !.qty = 0]

=============================================================================
