-------------------------- MODULE MCInventorySync ---------------------------
(* An instance of InventorySync for TLC: one store sells both products,    *)
(* one of them with variants; the other has no listings yet.               *)
EXTENDS InventorySync

CONSTANTS Shop, Outlet

MCListings == {<<Shop, 1>>, <<Shop, 2>>} \cap (Channels \X Products)
MCByVariant == {<<Shop, 2>>} \cap MCListings
MCAll == [percentage |-> 100, maximum |-> None, minimum |-> None]
MCHalf == [percentage |-> 50, maximum |-> 3, minimum |-> 1]
MCSettings == {MCAll, MCHalf}
=============================================================================
