------------------------------ MODULE MCSuite -------------------------------
(* Instances of the components of Suite for TLC.                           *)
EXTENDS Suite, TLC

(* Rules of every kind.                                                    *)
MCRules ==
    {[confirms |-> TRUE, pays |-> TRUE, trigger |-> "order_confirmed"],
     [confirms |-> TRUE, pays |-> TRUE, trigger |-> "fully_shipped"],
     [confirms |-> TRUE, pays |-> FALSE, trigger |-> None]}

(* A root, its child and a group in it; Odoo knows the categories.          *)
TreeEntry(kind, parent) == [kind |-> kind, parent |-> parent, content |-> "a", alive |-> TRUE]
MCTree == <<TreeEntry("category", 0), TreeEntry("category", 1), TreeEntry("group", 2)>>
MCRecords ==
    [k \in 1..5 |->
        IF k \in {1, 2}
        THEN [kind |-> "category", id |-> k, parent |-> k - 1, content |-> "a", flag |-> FALSE]
        ELSE None]

(* A customer whose e-mail may change, and a guest who has it at first.    *)
At(email, company, place) == [email |-> email, company |-> company, place |-> place]
MCCustomers == <<"x">>
MCOrderData ==
    {[customer |-> 1, invoice |-> At("x", None, "here"), delivery |-> At("x", "acme", "here")],
     [customer |-> 0, invoice |-> None, delivery |-> At("x", None, "there")]}

(* Two orders, of which one is gone, and two customers.                    *)
MCData == [m \in {"orders", "customers"} |-> IF m = "orders" THEN <<"a", None>> ELSE <<"a", "a">>]

(* Channels below root and the parts of configurations.                    *)
Conf(name, capacity, sequential) ==
    [name |-> name, capacity |-> capacity, sequential |-> sequential]
MCChannels == 1..3
MCOverrides == {<<"root", "b">>, <<"a">>}
MCEntries ==
    {Conf(<<"root">>, 2, FALSE), Conf(<<"a">>, 0, FALSE),
     Conf(<<"root", "a">>, None, TRUE), Conf(<<"b", "a">>, 2, TRUE),
     Conf(<<"root", "b", "a">>, 2, FALSE)}

Interchangeable == Permutations(Peers)
=============================================================================
