--------------------------- MODULE MCProductImport ---------------------------
(* An instance of ProductImport for TLC: P1 is plain or has options, with  *)
(* SKUs in common; P2 has no SKU.                                           *)
EXTENDS ProductImport, TLC

CONSTANTS P1, P2

PlainOffer(sku) == [sku |-> sku, variants |-> [s \in {1} |-> [sku |-> sku, opts |-> Plain]]]
Optioned(red, blue) ==
    [sku |-> 0, variants |-> [s \in {2, 3} |-> IF s = 2 THEN [sku |-> red, opts |-> "red"]
                                                      ELSE [sku |-> blue, opts |-> "blue"]]]

MCOffers(product) ==
    IF product = P1
    THEN {PlainOffer(2), Optioned(1, 2)}
    ELSE {PlainOffer(0)}

Symmetry == Permutations(Workers)
=============================================================================
