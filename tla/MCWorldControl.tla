-------------------------- MODULE MCWorldControl --------------------------
(* Instances of WorldControl for TLC. *)
EXTENDS WorldControl, TLC

CONSTANTS b1, b2, t1, t2, none

OneRivalry == {{b1, b2}}
Symmetry == Permutations({t1, t2}) \cup Permutations({b1, b2})
=============================================================================
