---------------------------- MODULE MCParties ----------------------------
(* Instance of Parties for TLC: requests, parties and invites are          *)
(* interchangeable, and so are the users.                                  *)
EXTENDS Parties, TLC

CONSTANTS u1, u2, u3, p1, p2, i1, i2, r1, r2

Symmetry == Permutations(Users) \cup Permutations(PartyIds) \cup Permutations(InviteIds)
            \cup Permutations(Requests)
=============================================================================
