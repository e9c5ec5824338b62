--------------------------- MODULE MCOrderImport ----------------------------
(* An instance of OrderImport for TLC.  Order 2 is edited once.  Order 1,  *)
(* if there is one, is not one that the settings accept: it only takes a   *)
(* place in the pages.                                                     *)
EXTENDS OrderImport

MCVersions == [o \in Orders |-> o]
MCAccepted == {<<2, 1>>, <<2, 2>>}
MCProduct(o) == "p"
MCListed == {}

(* Order 2 loses a product, a fee and a coupon, keeps a product with       *)
(* another quantity and a coupon with another amount, and gets a new       *)
(* product and a new coupon.  An update to version 1 that runs late brings *)
(* back what it lost.                                                      *)
MCData(o, v) ==
    IF v = 1
    THEN [products |-> <<Line("product", "a", 2, 1), Line("product", "b", 1, 1)>>,
          fees |-> <<Line("fee", "tax", 1, 3), Line("fee", "delivery", 1, 4)>>,
          discounts |-> <<>>,
          coupons |-> <<Line("coupon", "ten", 1, 1), Line("coupon", "old", 1, 3)>>]
    ELSE [products |-> <<Line("product", "b", 5, 1), Line("product", "c", 1, 2)>>,
          fees |-> <<Line("fee", "tax", 1, 2)>>,
          discounts |-> <<>>,
          coupons |-> <<Line("coupon", "ten", 1, 2), Line("coupon", "five", 1, 2)>>]
=============================================================================
