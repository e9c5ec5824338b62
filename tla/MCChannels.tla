----------------------------- MODULE MCChannels -----------------------------
(* Instances of Channels for TLC: a root with a channel A and a channel B  *)
(* under A, and jobs 1, 2, 3, ... ranked by number.                        *)
EXTENDS Channels

CONSTANTS A, B, CapRoot, CapA, CapB, RestA, RestB, HomeOf1

MCNodes == {Root, A, B}
MCParent == [c \in MCNodes |-> IF c = B THEN A ELSE Root]
MCPath == [c \in MCNodes |-> CASE c = Root -> {Root}
                               [] c = A -> {A, Root}
                               [] c = B -> {B, A, Root}]
MCCapacity == [c \in MCNodes |-> CASE c = Root -> CapRoot [] c = A -> CapA [] c = B -> CapB]
MCThrottle == [c \in MCNodes |-> CASE c = Root -> 0 [] c = A -> RestA [] c = B -> RestB]
MCHome == [j \in Jobs |-> IF j = 1 THEN HomeOf1 ELSE B]
MCRank == [j \in Jobs |-> j]
=============================================================================
