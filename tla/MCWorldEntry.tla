--------------------------- MODULE MCWorldEntry ---------------------------
(* Instance of WorldEntry for TLC: two users with a session each. *)
EXTENDS WorldEntry, TLC

CONSTANTS u1, u2, s1, s2, c1, c2, hub, wild, p1, n1, n2, r1, r2

Owners == s1 :> u1 @@ s2 :> u2
Swapped == u1 :> u2 @@ u2 :> u1 @@ s1 :> s2 @@ s2 :> s1
Symmetry == {Swapped} \cup Permutations({c1, c2}) \cup Permutations({n1, n2}) \cup Permutations({r1, r2})
=============================================================================
