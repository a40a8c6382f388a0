---------------------------- MODULE MCAccounts ----------------------------
(* Instance of Accounts for TLC. *)
EXTENDS Accounts, TLC

CONSTANTS u1, s1, s2, t1, t2, w1, w2

OneLoop == [w \in Sockets |-> 1]
Symmetry == Permutations(Sids) \cup Permutations(Threads)
=============================================================================
