----------------------------- MODULE BattleWorld -----------------------------
(***************************************************************************)
(* The battle world of the simulation (sim-core/src/battle.rs): orders are *)
(* queued between ticks, a tick applies them in a fixed order of kinds and *)
(* then advances every active battle by one step, which may resolve it.    *)
(*                                                                         *)
(* advance_tick is taken apart into one step per order and one per battle, *)
(* in the order of its two loops, so that the invariants are checked (and  *)
(* proved) between any two of them.  The loss rolls are a hash of tick, id,*)
(* step, strength and morale; here they are any values in their range.     *)
(* Strengths stay far below 2^32 / 14, so no u32 product saturates.        *)
(***************************************************************************)
EXTENDS Integers, FiniteSets, Sequences

CONSTANTS
  Ids,        \* battle instance ids
  Armies,     \* army ids
  Orders,     \* the orders that may be queued
  Pressures,  \* values of roll % 130 + 45
  MaxSteps,   \* max_steps_per_instance
  MaxRecent,  \* max_recent_results
  LastQueue,  \* bound: no order is queued after this tick
  MaxTick     \* bound: ticks

Sides == {"attacker", "defender"}
Formations == {"line", "wedge", "defensive"}
Other(s) == IF s = "attacker" THEN "defender" ELSE "attacker"

StartOrder == [kind: {"start"}, id: Ids, army: [Sides -> Armies], strength: [Sides -> Nat]]
FormationOrder == [kind: {"formation"}, id: Ids, side: Sides, formation: Formations]
ReserveOrder == [kind: {"reserve"}, id: Ids, side: Sides, reserve: Nat]
ResolveOrder == [kind: {"resolve"}, id: Ids]
Order == StartOrder \cup FormationOrder \cup ReserveOrder \cup ResolveOrder

ASSUME ConstantsAssumption ==
  /\ Ids \subseteq Nat /\ IsFiniteSet(Ids)
  /\ Armies # {}
  /\ Orders \subseteq Order
  /\ Pressures \subseteq 45..174
  /\ MaxSteps \in Nat \ {0}
  /\ MaxRecent \in Nat \ {0}
  /\ LastQueue \in Nat
  /\ MaxTick \in Nat

VARIABLES
  tick,       \* the tick last begun
  instances,  \* instances, a row per id, "none" where there is none
  pending,    \* pending_orders
  recent,     \* recent_results
  phase,      \* "idle", or the loop advance_tick is in
  todo,       \* orders this tick has yet to apply
  left        \* battles this tick has yet to advance

vars == <<tick, instances, pending, recent, phase, todo, left>>

Morales == 100..10000
MaxScore == 25000
Scores == -MaxScore..MaxScore

(* score is attacker_outcome_score_bp; the defender's is its negation. *)
Battle ==
  [status: {"none", "active", "resolved"},
   army: [Sides -> Armies], initial: [Sides -> Nat], strength: [Sides -> Nat],
   morale: [Sides -> Morales], formation: [Sides -> Formations],
   reserve: [Sides -> Nat], deployed: [Sides -> BOOLEAN],
   score: Scores, steps: Nat, started: Nat, last: Nat]

Result ==
  [id: Ids, winner: Armies, loser: Armies, strength: [Sides -> Nat],
   score: Scores, steps: Nat, started: Nat, resolved: Nat]

TypeOK ==
  /\ tick \in Nat
  /\ instances \in [Ids -> Battle]
  /\ pending \subseteq Order
  /\ recent \in Seq(Result)
  /\ phase \in {"idle", "orders", "instances"}
  /\ todo \subseteq Order
  /\ left \subseteq Ids

Active == {i \in Ids : instances[i].status = "active"}
Resolved == {i \in Ids : instances[i].status = "resolved"}

-----------------------------------------------------------------------------
(* Arithmetic of a step. *)

AtMost(x, y) == IF x <= y THEN x ELSE y
AtLeast(x, y) == IF x >= y THEN x ELSE y
Clamp(x, low, high) == AtLeast(low, AtMost(x, high))

Offense == [f \in Formations |-> CASE f = "line" -> 10000 [] f = "wedge" -> 11400
                                   [] f = "defensive" -> 9000]
Defense == [f \in Formations |-> CASE f = "line" -> 10000 [] f = "wedge" -> 9200
                                   [] f = "defensive" -> 11300]

(* compute_loss, for the pressure its roll came to. *)
ComputeLoss(pressure, strength, morale) ==
  Clamp((pressure * AtLeast(1, strength)) \div 850 + morale \div 1600, 1, 240)

(* apply_formation_modifiers *)
Modified(base, defending, attacking) ==
  Clamp((base * Offense[attacking]) \div Defense[defending], 1, 320)

(* The loss of side s: both sides' losses are worked out from the same state. *)
Loss(b, s, pressure) ==
  LET o == Other(s) IN
  AtMost(Modified(ComputeLoss(pressure, b.strength[o], b.morale[o]),
                  b.formation[s], b.formation[o]),
         b.strength[s])

Shaken(morale, loss) == AtLeast(100, morale - (9 * loss + 45))

OutcomeScore(strength, morale) ==
  Clamp((13 * strength["attacker"] + morale["attacker"] \div 2)
          - (13 * strength["defender"] + morale["defender"] \div 2), -MaxScore, MaxScore)

(* One step of an active battle at tick t. *)
Advanced(b, pressure, t) ==
  LET loss == [s \in Sides |-> Loss(b, s, pressure[s])]
      strength == [s \in Sides |-> b.strength[s] - loss[s]]
      morale == [s \in Sides |-> Shaken(b.morale[s], loss[s])]
  IN  [b EXCEPT !.steps = @ + 1, !.last = t, !.strength = strength, !.morale = morale,
                !.score = OutcomeScore(strength, morale)]

Decided(b) ==
  \/ \E s \in Sides : b.strength[s] = 0 \/ b.morale[s] <= 1000
  \/ b.steps >= MaxSteps

(* build_result; a tie goes to the attacker. *)
BuildResult(i, b, t) ==
  LET strongest == IF 14 * b.strength["attacker"] + b.morale["attacker"] \div 2
                        >= 14 * b.strength["defender"] + b.morale["defender"] \div 2
                   THEN "attacker" ELSE "defender"
  IN  [id |-> i, winner |-> b.army[strongest], loser |-> b.army[Other(strongest)],
       strength |-> b.strength, score |-> b.score, steps |-> b.steps,
       started |-> b.started, resolved |-> t]

(* Resolve battle i in state b: its row is frozen and its result logged. *)
Resolve(i, b) ==
  LET log == Append(recent, BuildResult(i, b, tick)) IN
  /\ instances' = [instances EXCEPT ![i] = [b EXCEPT !.status = "resolved"]]
  /\ recent' = IF Len(log) > MaxRecent THEN Tail(log) ELSE log

-----------------------------------------------------------------------------
NoBattle ==
  LET a == CHOOSE a \in Armies : TRUE IN
  [status |-> "none", army |-> [s \in Sides |-> a], initial |-> [s \in Sides |-> 0],
   strength |-> [s \in Sides |-> 0], morale |-> [s \in Sides |-> 10000],
   formation |-> [s \in Sides |-> "line"], reserve |-> [s \in Sides |-> 0],
   deployed |-> [s \in Sides |-> FALSE], score |-> 0, steps |-> 0, started |-> 0, last |-> 0]

Init ==
  /\ tick = 0
  /\ instances = [i \in Ids |-> NoBattle]
  /\ pending = {}
  /\ recent = <<>>
  /\ phase = "idle"
  /\ todo = {}
  /\ left = {}

(* queue_order.  The queue is a list, but the copies of an order are applied *)
(* next to each other and only the first can have an effect: a set will do.  *)
QueueOrder(o) ==
  /\ phase = "idle"
  /\ tick <= LastQueue                                \* bound
  /\ pending' = pending \cup {o}
  /\ UNCHANGED <<tick, instances, recent, phase, todo, left>>

(* The next tick of the runner: advance_tick takes the queue. *)
BeginTick ==
  /\ phase = "idle"
  /\ tick < MaxTick                                   \* bound
  /\ tick' = tick + 1
  /\ phase' = "orders"
  /\ todo' = pending
  /\ pending' = {}
  /\ UNCHANGED <<instances, recent, left>>

-----------------------------------------------------------------------------
(* apply_orders.  Kinds are applied by priority; the order inside a kind is *)
(* that of the serialized orders, here any order.                           *)

Priority == [kind \in {"start", "formation", "reserve", "resolve"} |->
               CASE kind = "start" -> 0 [] kind = "formation" -> 1
                 [] kind = "reserve" -> 2 [] kind = "resolve" -> 3]

(* The order is the next one of the sorted queue. *)
Take(o) ==
  /\ phase = "orders"
  /\ o \in todo
  /\ \A p \in todo : Priority[o.kind] <= Priority[p.kind]
  /\ todo' = todo \ {o}
  /\ UNCHANGED <<tick, pending, phase, left>>

(* Mutant: only the attacker is looked for among the active battles. *)
Engaged_AttackerOnly(o) ==
  \E i \in Active : \E s \in Sides : instances[i].army[s] = o.army["attacker"]

(* overlapping_army_active *)
Engaged(o) ==
  \E i \in Active : \E s, r \in Sides : instances[i].army[s] = o.army[r]

(* The id is new (a resolved battle keeps its id), both armies are free. *)
Startable(o) ==
  /\ instances[o.id].status = "none"
  /\ o.army["attacker"] # o.army["defender"]
  /\ \A s \in Sides : o.strength[s] # 0
  /\ ~Engaged(o)

StartEncounter(o) ==
  /\ Take(o) /\ o.kind = "start"
  /\ IF Startable(o)
     THEN instances' = [instances EXCEPT ![o.id] =
            [NoBattle EXCEPT !.status = "active", !.army = o.army,
               !.initial = o.strength, !.strength = o.strength,
               !.reserve = [s \in Sides |-> o.strength[s] \div 5],
               !.started = tick, !.last = tick]]
     ELSE UNCHANGED instances
  /\ UNCHANGED recent

SetFormation(o) ==
  /\ Take(o) /\ o.kind = "formation"
  /\ IF o.id \in Active
     THEN instances' = [instances EXCEPT ![o.id].formation[o.side] = o.formation]
     ELSE UNCHANGED instances
  /\ UNCHANGED recent

Deployable(o) ==
  LET b == instances[o.id] IN
  /\ o.id \in Active
  /\ b.steps >= 3
  /\ ~b.deployed[o.side]
  /\ b.reserve[o.side] # 0

(* Mutant: the reserve that was asked for joins, not the one there is. *)
DeployReserve_Asked(o) ==
  /\ Take(o) /\ o.kind = "reserve"
  /\ IF Deployable(o)
     THEN LET sent == AtMost(o.reserve, instances[o.id].reserve[o.side]) IN
          instances' = [instances EXCEPT ![o.id].reserve[o.side] = @ - sent,
                                         ![o.id].strength[o.side] = @ + o.reserve,
                                         ![o.id].deployed[o.side] = TRUE]
     ELSE UNCHANGED instances
  /\ UNCHANGED recent

DeployReserve(o) ==
  /\ Take(o) /\ o.kind = "reserve"
  /\ IF Deployable(o)
     THEN LET sent == AtMost(o.reserve, instances[o.id].reserve[o.side]) IN
          instances' = [instances EXCEPT ![o.id].reserve[o.side] = @ - sent,
                                         ![o.id].strength[o.side] = @ + sent,
                                         ![o.id].deployed[o.side] = TRUE]
     ELSE UNCHANGED instances
  /\ UNCHANGED recent

(* Mutant: a battle that is resolved already is resolved again. *)
ForceResolve_Again(o) ==
  /\ Take(o) /\ o.kind = "resolve"
  /\ IF instances[o.id].status # "none"
     THEN Resolve(o.id, [instances[o.id] EXCEPT !.last = tick])
     ELSE UNCHANGED <<instances, recent>>

ForceResolve(o) ==
  /\ Take(o) /\ o.kind = "resolve"
  /\ IF o.id \in Active
     THEN Resolve(o.id, [instances[o.id] EXCEPT !.last = tick])
     ELSE UNCHANGED <<instances, recent>>

(* Mutant: a battle opened this tick waits for the next one. *)
OrdersDone_Waits ==
  /\ phase = "orders"
  /\ todo = {}
  /\ phase' = "instances"
  /\ left' = {i \in Active : instances[i].started < tick}
  /\ UNCHANGED <<tick, instances, pending, recent, todo>>

OrdersDone ==
  /\ phase = "orders"
  /\ todo = {}
  /\ phase' = "instances"
  /\ left' = Active
  /\ UNCHANGED <<tick, instances, pending, recent, todo>>

-----------------------------------------------------------------------------
(* advance_instances, by ascending id.  A battle not active is passed over, *)
(* and no other becomes active or stops being so in this loop.              *)

(* Mutant: a decided battle takes its step and stays active. *)
AdvanceInstance_Undecided(i) ==
  /\ phase = "instances"
  /\ i \in left
  /\ \A j \in left : i <= j
  /\ \E b \in {Advanced(instances[i], p, tick) : p \in [Sides -> Pressures]} :
       instances' = [instances EXCEPT ![i] = b]
  /\ left' = left \ {i}
  /\ UNCHANGED <<tick, pending, recent, phase, todo>>

AdvanceInstance(i) ==
  /\ phase = "instances"
  /\ i \in left
  /\ \A j \in left : i <= j
  /\ \E b \in {Advanced(instances[i], p, tick) : p \in [Sides -> Pressures]} :
       IF Decided(b) THEN Resolve(i, b)
       ELSE instances' = [instances EXCEPT ![i] = b] /\ UNCHANGED recent
  /\ left' = left \ {i}
  /\ UNCHANGED <<tick, pending, phase, todo>>

EndTick ==
  /\ phase = "instances"
  /\ left = {}
  /\ phase' = "idle"
  /\ UNCHANGED <<tick, instances, pending, recent, todo, left>>

Apply(o) == StartEncounter(o) \/ SetFormation(o) \/ DeployReserve(o) \/ ForceResolve(o)

AdvanceTick == \/ BeginTick
               \/ \E o \in todo : Apply(o)
               \/ OrdersDone
               \/ \E i \in Ids : AdvanceInstance(i)
               \/ EndTick

Next == (\E o \in Orders : QueueOrder(o)) \/ AdvanceTick

Spec == Init /\ [][Next]_vars

-----------------------------------------------------------------------------
(* Properties.                                                             *)

(* An army fights in at most one active battle, whichever orders share a   *)
(* tick: the overlap is looked for when the order is applied, not when it  *)
(* is queued (overlapping_army_active_encounter_is_rejected).              *)
ArmiesExclusive ==
  \A i, j \in Active : i # j =>
    \A s, r \in Sides : instances[i].army[s] # instances[j].army[r]

(* The result log tells the truth about the battles: a result repeats the  *)
(* final row of a resolved battle, no battle is logged twice, and a        *)
(* resolved battle is missing only when more than max_recent_results were  *)
(* resolved.  Readers look the winner up there by instance id.             *)
Logged(r, b) ==
  /\ b.status = "resolved"
  /\ <<r.strength, r.score, r.steps, r.started, r.resolved>>
       = <<b.strength, b.score, b.steps, b.started, b.last>>
  /\ \E s \in Sides : r.winner = b.army[s] /\ r.loser = b.army[Other(s)]
ResultsTruthful ==
  /\ \A k \in DOMAIN recent : Logged(recent[k], instances[recent[k].id])
  /\ \A k, l \in DOMAIN recent : recent[k].id = recent[l].id => k = l
  /\ Len(recent) = AtMost(Cardinality(Resolved), MaxRecent)

(* Battles keep time with the world: an active battle has taken one step   *)
(* in every tick since the one that opened it, that one included, and so   *)
(* none is older than the step limit.                                      *)
StepsDue(i) ==
  tick - instances[i].started
    + (IF phase = "orders" \/ (phase = "instances" /\ i \in left) THEN 0 ELSE 1)
Punctual ==
  \A i \in Active : instances[i].steps = StepsDue(i) /\ instances[i].steps < MaxSteps

(* Troops are only ever lost: no order and no step, in any combination,    *)
(* raises what an army has in the field and in reserve together.           *)
TroopsStep ==
  \A i \in Active, s \in Sides :
    instances'[i].strength[s] + instances'[i].reserve[s]
      <= instances[i].strength[s] + instances[i].reserve[s]
TroopsNeverGrow == [][TroopsStep]_vars

(* A resolved battle stays as it was resolved: no later order for its id,  *)
(* a start that reuses the id included, touches its row.                   *)
FinalStep == \A i \in Resolved : instances'[i] = instances[i]
ResolvedIsFinal == [][FinalStep]_vars

(* The battles a tick has yet to advance are the active ones. *)
LeftCoherent ==
  /\ left \subseteq Active
  /\ phase # "instances" => left = {}
  /\ phase # "orders" => todo = {}

IndInv == /\ TypeOK /\ LeftCoherent /\ ArmiesExclusive
          /\ ResultsTruthful /\ Punctual

-----------------------------------------------------------------------------
(* Fairness: the runner executes the ticks that are due, each to its end.  *)
(* Nobody is obliged to queue an order.                                    *)
FairSpec == Spec /\ WF_vars(AdvanceTick)

(* Every battle ends: by annihilation, broken morale, order or step limit. *)
BattleEnds ==
  \A i \in Ids : instances[i].status = "active" ~> instances[i].status = "resolved"
=============================================================================
