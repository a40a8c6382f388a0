------------------------------- MODULE Delivery -------------------------------
(***************************************************************************)
(* What the event pipeline promises about the message of each command: it  *)
(* is sent at most once, a sent one is delivered at most once and, unless  *)
(* the worker that holds it dies first, it is delivered.                   *)
(***************************************************************************)
CONSTANT Messages
VARIABLE status   \* status[m]: where the message m is

States == {"none", "sent", "delivered", "lost"}

Init == status = [m \in Messages |-> "none"]

Send(m) == status[m] = "none" /\ status' = [status EXCEPT ![m] = "sent"]

Deliver(m) == status[m] = "sent" /\ status' = [status EXCEPT ![m] = "delivered"]

\* A worker dies, and the messages it had claimed are lost together.
Lose(L) ==
  /\ L # {} /\ \A m \in L: status[m] = "sent"
  /\ status' = [m \in Messages |-> IF m \in L THEN "lost" ELSE status[m]]

Next == \/ \E m \in Messages: Send(m) \/ Deliver(m)
        \/ \E L \in SUBSET Messages: Lose(L)

\* A message that was sent does not stay so.
Settle(m) == Deliver(m) \/ \E L \in SUBSET Messages: m \in L /\ Lose(L)

Spec == /\ Init
        /\ [][Next]_status
        /\ \A m \in Messages: WF_status(Settle(m))
===============================================================================
