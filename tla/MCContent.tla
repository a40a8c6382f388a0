----------------------------- MODULE MCContent -----------------------------
(* Instance of Content for TLC. *)
EXTENDS Content, TLC

CONSTANTS t1, t2

(* A first build, one that keeps an older minimum, and a rollback of both. *)
Pipeline == {
  [latest |-> 1, min |-> 0, content |-> 0, minContent |-> 0, regression |-> FALSE],
  [latest |-> 2, min |-> 1, content |-> 2, minContent |-> 1, regression |-> FALSE],
  [latest |-> 1, min |-> 1, content |-> 1, minContent |-> 0, regression |-> TRUE]}
=============================================================================
