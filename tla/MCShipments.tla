---------------------------- MODULE MCShipments -----------------------------
(* An instance of Shipments for TLC: two lines of one product.             *)
EXTENDS Shipments

MCLines == 1..2
MCOrdered == <<1, 2>>
MCProduct(l) == "p"
=============================================================================
