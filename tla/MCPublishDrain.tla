-------------------------- MODULE MCPublishDrain --------------------------
(* Instances of PublishDrain for TLC. *)
EXTENDS PublishDrain, TLC

CONSTANTS s1, s2, a1, p1, t1

(* The process of each request thread: the only one. *)
OneProcHome == [t \in Threads |-> p1]

=============================================================================
