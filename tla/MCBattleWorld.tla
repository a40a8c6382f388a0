---------------------------- MODULE MCBattleWorld ----------------------------
(* Instances of BattleWorld for TLC, with the history of BattleTicks. *)
EXTENDS BattleTicks, TLC

Army(a, d) == [s \in Sides |-> IF s = "attacker" THEN a ELSE d]
Troops(a, d) == [s \in Sides |-> IF s = "attacker" THEN a ELSE d]
Start(i, a, d, x, y) ==
  [kind |-> "start", id |-> i, army |-> Army(a, d), strength |-> Troops(x, y)]
Form(i, s, f) == [kind |-> "formation", id |-> i, side |-> s, formation |-> f]
Deploy(i, s, n) == [kind |-> "reserve", id |-> i, side |-> s, reserve |-> n]
Force(i) == [kind |-> "resolve", id |-> i]

(* A battle that can last, with a reserve, a formation and a forced end; one    *)
(* that wants an army of it and an army of the third.                           *)
SkirmishOrders ==
  {Start(1, 7, 8, 46, 50), Start(2, 9, 7, 10, 9), Start(3, 6, 9, 4, 5),
   Form(1, "attacker", "wedge"), Deploy(1, "attacker", 40), Force(1)}
=============================================================================
