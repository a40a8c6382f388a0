----------------------------- MODULE BattleLives -----------------------------
(* What callers of the world service see of its battles: commands wait in  *)
(* the queue, and a tick executes them all, after which some battles have  *)
(* been opened and some are decided.  BattleWorld, which applies a tick    *)
(* order by order and battle by battle, implements this (BattleTicks), and *)
(* WorldControl puts it behind the routes of the backend.                  *)
EXTENDS Naturals, FiniteSets

CONSTANTS
  Instances,      \* battle instance ids
  NoInstance,     \* of a command that is about no battle
  Rivals          \* {i, j}: both want a common army; {i}: i wants one for both sides

VARIABLES
  queue,     \* queue of the runner
  life       \* what became of each battle instance

CommandKinds == {"start", "resolve", "other"}
Command == [order : CommandKinds, of : Instances \cup {NoInstance}]
Lives == {"none", "active", "resolved"}

(* Commands of kind k for battle i are among q; the battles active in l.   *)
Asked(q, k, i) == \E c \in q : c.order = k /\ c.of = i
Active(l) == {i \in Instances : l[i] = "active"}

(* The battles that the queued encounters open: an encounter is refused     *)
(* when its id is taken or one of its armies is in an active battle.        *)
Compatible(S) == \A i, j \in S : i # j => {i, j} \notin Rivals
Openable(l, q) == {i \in Instances : /\ l[i] = "none" /\ {i} \notin Rivals
                                     /\ Asked(q, "start", i)
                                     /\ \A j \in Active(l) : {i, j} \notin Rivals}
Opens(l, q, S) == /\ S \subseteq Openable(l, q) /\ Compatible(S)
                  /\ \A i \in Openable(l, q) \ S : ~Compatible(S \cup {i})

(* Ticks take the battles from l to m.  The first executes the queue q,    *)
(* encounters before forced ends; in each of them any active battle may be *)
(* decided on the field.                                                   *)
Outcome(l, S, won) ==
  [i \in Instances |-> IF i \in won THEN "resolved" ELSE IF i \in S THEN "active" ELSE l[i]]
Fought(l, q, m) ==
  \E S \in SUBSET Instances, won \in SUBSET Instances :
    /\ Opens(l, q, S)
    /\ won \subseteq Active(l) \cup S
    /\ \A i \in Active(l) \cup S : Asked(q, "resolve", i) => i \in won
    /\ m = Outcome(l, S, won)

NoBattles == queue = {} /\ life = [i \in Instances |-> "none"]
QueueCommand(c) == queue' = queue \cup {c} /\ UNCHANGED life
RunQueue == Fought(life, queue, life') /\ queue' = {}

LivesSpec == NoBattles /\ [][RunQueue \/ \E c \in Command : QueueCommand(c)]_<<queue, life>>
=============================================================================
