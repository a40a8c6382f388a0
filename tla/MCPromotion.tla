---------------------------- MODULE MCPromotion ----------------------------
(* Instance of Promotion for TLC: two worlds that may be published, one    *)
(* longer than the other, and one in two parts.                            *)
EXTENDS Promotion, TLC

CONSTANTS d1, d2

Road == [settlements |-> {1, 2}, routes |-> {{1, 2}}, spawns |-> {1}]
Chain == [settlements |-> {1, 2, 3}, routes |-> {{1, 3}, {2, 3}}, spawns |-> {2}]
Parted == [settlements |-> {1, 2, 3, 4}, routes |-> {{1, 2}, {3, 4}}, spawns |-> {3}]
Worlds == {Road, Chain, Parted}

Symmetry == Permutations(Designers)
=============================================================================
