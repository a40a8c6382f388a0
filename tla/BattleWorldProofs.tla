-------------------------- MODULE BattleWorldProofs --------------------------
(* The safety properties of BattleWorld, proved for any set of battles, of  *)
(* armies and of orders, any step limit and any size of the result log.     *)
EXTENDS BattleTicks, TLAPS, FiniteSetTheorems, SequenceTheorems

-----------------------------------------------------------------------------
(* Arithmetic of a step. *)

(* Clamp stays in its range. *)
LEMMA ClampType ==
  ASSUME NEW x \in Int, NEW low \in Int, NEW high \in Int, low <= high
  PROVE  Clamp(x, low, high) \in low..high
BY DEF Clamp, AtLeast, AtMost

(* A morale is a natural number between its floor and its start. *)
LEMMA MoraleFact ==
  ASSUME NEW m \in Morales
  PROVE  m \in Nat /\ 100 <= m /\ m <= 10000
BY DEF Morales

(* The two ends of the range of scores. *)
LEMMA ScoreClamp ==
  ASSUME NEW x \in Int
  PROVE  Clamp(x, -MaxScore, MaxScore) \in Scores
<1>1. MaxScore \in Nat
  BY DEF MaxScore
<1>2. QED
  BY <1>1 DEF Clamp, AtLeast, AtMost, Scores

(* There are two sides, each the other of the other. *)
LEMMA SidesFact ==
  ASSUME NEW s \in Sides
  PROVE  Other(s) \in Sides /\ Other(s) # s /\ Other(Other(s)) = s
BY DEF Sides, Other

(* The formation factors are positive: no division by zero. *)
LEMMA FormationFactors ==
  ASSUME NEW f \in Formations
  PROVE  Offense[f] \in Nat /\ Defense[f] \in Nat /\ Defense[f] > 0
<1>1. f = "line" \/ f = "wedge" \/ f = "defensive"
  BY DEF Formations
<1>2. Offense[f] \in {10000, 11400, 9000}
  BY <1>1 DEF Offense
<1>3. Defense[f] \in {10000, 9200, 11300}
  BY <1>1 DEF Defense
<1>4. QED
  BY <1>2, <1>3

(* A quotient of naturals is a natural. *)
LEMMA DivType ==
  ASSUME NEW x \in Nat, NEW y \in Nat, y > 0
  PROVE  x \div y \in Nat
OBVIOUS

(* A product of naturals is a natural. *)
LEMMA MulType ==
  ASSUME NEW x \in Nat, NEW y \in Nat
  PROVE  x * y \in Nat
OBVIOUS

(* compute_loss is between 1 and 240. *)
LEMMA ComputeLossType ==
  ASSUME NEW p \in 45..174, NEW strength \in Nat, NEW morale \in Morales
  PROVE  ComputeLoss(p, strength, morale) \in 1..240
<1> DEFINE product == p * AtLeast(1, strength)
<1>1. product \in Nat
  <2>1. AtLeast(1, strength) \in Nat
    BY DEF AtLeast
  <2>2. p \in Nat
    OBVIOUS
  <2>3. QED
    BY <2>1, <2>2, MulType
<1>2. product \div 850 + morale \div 1600 \in Int
  <2>1. product \div 850 \in Nat
    <3> HIDE DEF product
    <3> QED BY <1>1, DivType
  <2>2. morale \div 1600 \in Nat
    <3>1. morale \in Nat
      BY MoraleFact
    <3> QED BY <3>1, DivType
  <2>3. QED
    <3> HIDE DEF product
    <3> QED BY <2>1, <2>2
<1>3. Clamp(product \div 850 + morale \div 1600, 1, 240) \in 1..240
  <2> DEFINE x == product \div 850 + morale \div 1600
  <2> SUFFICES Clamp(x, 1, 240) \in 1..240
    OBVIOUS
  <2> x \in Int
    BY <1>2
  <2> HIDE DEF x
  <2> QED BY DEF Clamp, AtLeast, AtMost
<1>4. QED
  BY <1>3 DEF ComputeLoss

(* apply_formation_modifiers is between 1 and 320. *)
LEMMA ModifiedType ==
  ASSUME NEW base \in 1..240, NEW f \in Formations, NEW g \in Formations
  PROVE  Modified(base, f, g) \in 1..320
<1>1. base * Offense[g] \in Nat
  BY FormationFactors, MulType, base \in Nat
<1>2. (base * Offense[g]) \div Defense[f] \in Nat
  BY <1>1, FormationFactors, DivType
<1>3. Clamp((base * Offense[g]) \div Defense[f], 1, 320) \in 1..320
  <2> DEFINE x == (base * Offense[g]) \div Defense[f]
  <2> SUFFICES Clamp(x, 1, 320) \in 1..320
    OBVIOUS
  <2> x \in Int
    BY <1>2
  <2> HIDE DEF x
  <2> QED BY DEF Clamp, AtLeast, AtMost
<1>4. QED
  BY <1>3 DEF Modified

(* The fields of a battle. *)
LEMMA BattleFields ==
  ASSUME NEW b \in Battle
  PROVE  /\ b.status \in {"none", "active", "resolved"}
         /\ b.army \in [Sides -> Armies]
         /\ b.initial \in [Sides -> Nat]
         /\ b.strength \in [Sides -> Nat]
         /\ b.morale \in [Sides -> Morales]
         /\ b.formation \in [Sides -> Formations]
         /\ b.reserve \in [Sides -> Nat]
         /\ b.deployed \in [Sides -> BOOLEAN]
         /\ b.score \in Scores
         /\ b.steps \in Nat /\ b.started \in Nat /\ b.last \in Nat
BY DEF Battle

(* A side loses at most what it has. *)
LEMMA LossType ==
  ASSUME NEW b \in Battle, NEW s \in Sides, NEW p \in 45..174
  PROVE  Loss(b, s, p) \in 0..b.strength[s]
<1> DEFINE o == Other(s)
           m == Modified(ComputeLoss(p, b.strength[o], b.morale[o]),
                         b.formation[s], b.formation[o])
<1>1. o \in Sides
  BY SidesFact
<1>2. /\ b.strength[o] \in Nat /\ b.strength[s] \in Nat
      /\ b.morale[o] \in Morales
      /\ b.formation[s] \in Formations /\ b.formation[o] \in Formations
  BY <1>1, BattleFields
<1>3. m \in 1..320
  BY <1>2, ComputeLossType, ModifiedType
<1>4. Loss(b, s, p) = AtMost(m, b.strength[s])
  BY DEF Loss
<1>5. QED
  <2> HIDE DEF m
  <2> QED BY <1>2, <1>3, <1>4 DEF AtMost

(* The morale keeps its range. *)
LEMMA ShakenType ==
  ASSUME NEW m \in Morales, NEW l \in Nat
  PROVE  Shaken(m, l) \in Morales
BY MoraleFact DEF Shaken, AtLeast, Morales

(* The outcome score keeps its range. *)
LEMMA ScoreType ==
  ASSUME NEW x \in [Sides -> Nat], NEW m \in [Sides -> Morales]
  PROVE  OutcomeScore(x, m) \in Scores
<1>1. "attacker" \in Sides /\ "defender" \in Sides
  BY DEF Sides
<1>2. /\ x["attacker"] \in Nat /\ x["defender"] \in Nat
      /\ m["attacker"] \in Morales /\ m["defender"] \in Morales
  BY <1>1
<1>3. m["attacker"] \div 2 \in Nat /\ m["defender"] \div 2 \in Nat
  <2>1. m["attacker"] \in Nat /\ m["defender"] \in Nat
    BY <1>2, MoraleFact
  <2>2. QED
    BY <2>1, DivType
<1>4. (13 * x["attacker"] + m["attacker"] \div 2)
        - (13 * x["defender"] + m["defender"] \div 2) \in Int
  BY <1>2, <1>3
<1>5. QED
  <2> DEFINE d == (13 * x["attacker"] + m["attacker"] \div 2)
                    - (13 * x["defender"] + m["defender"] \div 2)
  <2>1. OutcomeScore(x, m) = Clamp(d, -MaxScore, MaxScore)
    BY DEF OutcomeScore
  <2>2. d \in Int
    BY <1>4
  <2> HIDE DEF d
  <2>3. QED
    BY <2>1, <2>2, ScoreClamp

(* What a step does to a battle, and what it leaves alone. *)
LEMMA AdvancedFacts ==
  ASSUME NEW b \in Battle, NEW p \in [Sides -> Pressures], NEW t \in Nat
  PROVE  /\ Advanced(b, p, t) \in Battle
         /\ Advanced(b, p, t).status = b.status
         /\ Advanced(b, p, t).army = b.army
         /\ Advanced(b, p, t).started = b.started
         /\ Advanced(b, p, t).steps = b.steps + 1
         /\ Advanced(b, p, t).last = t
         /\ Advanced(b, p, t).reserve = b.reserve
         /\ \A s \in Sides : Advanced(b, p, t).strength[s] <= b.strength[s]
<1> DEFINE loss == [s \in Sides |-> Loss(b, s, p[s])]
           strength == [s \in Sides |-> b.strength[s] - loss[s]]
           morale == [s \in Sides |-> Shaken(b.morale[s], loss[s])]
           n == [b EXCEPT !.steps = @ + 1, !.last = t, !.strength = strength,
                          !.morale = morale, !.score = OutcomeScore(strength, morale)]
<1>1. \A s \in Sides : loss[s] \in 0..b.strength[s]
  <2>1. \A s \in Sides : p[s] \in 45..174
    BY ConstantsAssumption
  <2>2. QED
    BY <2>1, LossType
<1>2. /\ strength \in [Sides -> Nat]
      /\ \A s \in Sides : strength[s] <= b.strength[s]
  <2> HIDE DEF loss
  <2>1. \A s \in Sides : b.strength[s] \in Nat
    BY BattleFields
  <2>2. \A s \in Sides : b.strength[s] - loss[s] \in Nat /\ b.strength[s] - loss[s] <= b.strength[s]
    BY <1>1, <2>1
  <2>3. QED
    BY <2>2
<1>3. morale \in [Sides -> Morales]
  <2> HIDE DEF loss
  <2>1. \A s \in Sides : loss[s] \in Nat /\ b.morale[s] \in Morales
    BY <1>1, BattleFields
  <2>2. QED
    BY <2>1, ShakenType
<1>4. OutcomeScore(strength, morale) \in Scores
  <2> HIDE DEF strength, morale
  <2> QED BY <1>2, <1>3, ScoreType
<1>5. Advanced(b, p, t) = n
  BY DEF Advanced
<1>6. /\ n \in Battle
      /\ n.status = b.status /\ n.army = b.army /\ n.started = b.started
      /\ n.steps = b.steps + 1 /\ n.last = t /\ n.reserve = b.reserve
      /\ n.strength = strength
  <2> DEFINE score == OutcomeScore(strength, morale)
             steps == b.steps + 1
  <2> HIDE DEF loss, strength, morale
  <2>1. score \in Scores /\ steps \in Nat
    BY <1>4, BattleFields
  <2> HIDE DEF score
  <2>2. n = [b EXCEPT !.steps = steps, !.last = t, !.strength = strength,
                      !.morale = morale, !.score = score]
    BY DEF score
  <2> HIDE DEF steps, n
  <2>3. n \in Battle
    BY <1>2, <1>3, <2>1, <2>2 DEF Battle
  <2>4. /\ n.status = b.status /\ n.army = b.army /\ n.started = b.started
        /\ n.steps = steps /\ n.last = t /\ n.reserve = b.reserve
        /\ n.strength = strength
    BY <2>2 DEF Battle
  <2>5. QED
    BY <2>3, <2>4 DEF steps
<1>7. QED
  <2> HIDE DEF strength, n
  <2> QED BY <1>2, <1>5, <1>6

-----------------------------------------------------------------------------
(* Rows and orders. *)

(* The row of an id that has no battle is a row. *)
LEMMA NoBattleType == NoBattle \in Battle /\ NoBattle.status = "none"
<1> DEFINE a == CHOOSE a \in Armies : TRUE
<1>1. a \in Armies
  BY ConstantsAssumption
<1>2. 10000 \in Morales
  BY DEF Morales
<1>3. 0 \in Scores
  BY DEF Scores, MaxScore
<1>4. "line" \in Formations
  BY DEF Formations
<1>5. [s \in Sides |-> a] \in [Sides -> Armies]
  <2> HIDE DEF a
  <2> QED BY <1>1
<1>6. QED
  BY <1>2, <1>3, <1>4, <1>5 DEF NoBattle, Battle

(* The row a start order opens. *)
LEMMA OpenedType ==
  ASSUME NEW o \in StartOrder, NEW t \in Nat
  PROVE  LET b == [NoBattle EXCEPT !.status = "active", !.army = o.army,
                     !.initial = o.strength, !.strength = o.strength,
                     !.reserve = [s \in Sides |-> o.strength[s] \div 5],
                     !.started = t, !.last = t]
         IN  /\ b \in Battle
             /\ b.status = "active" /\ b.army = o.army
             /\ b.steps = 0 /\ b.started = t /\ b.last = t
<1> DEFINE army == o.army
           strength == o.strength
           reserve == [s \in Sides |-> o.strength[s] \div 5]
           b == [NoBattle EXCEPT !.status = "active", !.army = army,
                   !.initial = strength, !.strength = strength,
                   !.reserve = reserve, !.started = t, !.last = t]
<1>1. army \in [Sides -> Armies] /\ strength \in [Sides -> Nat]
  BY DEF StartOrder
<1>2. reserve \in [Sides -> Nat]
  <2>1. \A s \in Sides : strength[s] \in Nat
    BY <1>1
  <2>2. \A s \in Sides : strength[s] \div 5 \in Nat
    BY <2>1, DivType
  <2>3. QED
    BY <2>2
<1>3. NoBattle.steps = 0
  BY DEF NoBattle
<1> SUFFICES /\ b \in Battle
             /\ b.status = "active" /\ b.army = army
             /\ b.steps = 0 /\ b.started = t /\ b.last = t
  OBVIOUS
<1> HIDE DEF army, strength, reserve
<1>4. b \in Battle
  BY <1>1, <1>2, NoBattleType DEF Battle
<1>5. /\ b.status = "active" /\ b.army = army
      /\ b.steps = 0 /\ b.started = t /\ b.last = t
  BY <1>3, NoBattleType DEF Battle
<1>6. QED
  BY <1>4, <1>5

(* An order of a kind has that kind's fields. *)
LEMMA OrderKinds ==
  ASSUME NEW o \in Order
  PROVE  /\ o.id \in Ids
         /\ o.kind = "start" => o \in StartOrder
         /\ o.kind = "formation" => o.side \in Sides /\ o.formation \in Formations
         /\ o.kind = "reserve" => o.side \in Sides /\ o.reserve \in Nat
BY DEF Order, StartOrder, FormationOrder, ReserveOrder, ResolveOrder

(* The result of a battle is a result. *)
LEMMA BuildResultFacts ==
  ASSUME NEW i \in Ids, NEW b \in Battle, NEW t \in Nat
  PROVE  /\ BuildResult(i, b, t) \in Result
         /\ BuildResult(i, b, t).id = i
         /\ b.last = t => Logged(BuildResult(i, b, t), [b EXCEPT !.status = "resolved"])
<1> DEFINE strongest == IF 14 * b.strength["attacker"] + b.morale["attacker"] \div 2
                             >= 14 * b.strength["defender"] + b.morale["defender"] \div 2
                        THEN "attacker" ELSE "defender"
           r == [id |-> i, winner |-> b.army[strongest], loser |-> b.army[Other(strongest)],
                 strength |-> b.strength, score |-> b.score, steps |-> b.steps,
                 started |-> b.started, resolved |-> t]
           c == [b EXCEPT !.status = "resolved"]
<1>1. strongest \in Sides
  BY DEF Sides
<1>2. BuildResult(i, b, t) = r
  BY DEF BuildResult
<1> HIDE DEF strongest
<1>3. b.army[strongest] \in Armies /\ b.army[Other(strongest)] \in Armies
  BY <1>1, SidesFact, BattleFields
<1>4. r \in Result
  BY <1>3, BattleFields DEF Result
<1>5. /\ c.status = "resolved" /\ c.army = b.army /\ c.strength = b.strength
      /\ c.score = b.score /\ c.steps = b.steps /\ c.started = b.started /\ c.last = b.last
  BY DEF Battle
<1>6. ASSUME b.last = t PROVE Logged(r, c)
  <2>1. <<r.strength, r.score, r.steps, r.started, r.resolved>>
          = <<c.strength, c.score, c.steps, c.started, c.last>>
    BY <1>5, <1>6
  <2>2. r.winner = c.army[strongest] /\ r.loser = c.army[Other(strongest)]
    BY <1>5
  <2>3. QED
    <3> HIDE DEF r, c
    <3> QED BY <1>1, <1>5, <2>1, <2>2 DEF Logged
<1>7. QED
  BY <1>2, <1>4, <1>6

-----------------------------------------------------------------------------
(* The result log. *)

(* What ArmiesExclusive and Punctual need to know of the rows that changed. *)
LEMMA ActiveFact ==
  ASSUME TypeOK
  PROVE  /\ Active \subseteq Ids /\ Resolved \subseteq Ids
         /\ Active \cap Resolved = {}
         /\ IsFiniteSet(Resolved)
<1>1. Resolved \subseteq Ids
  BY DEF Resolved
<1>2. IsFiniteSet(Ids)
  BY ConstantsAssumption
<1>3. IsFiniteSet(Resolved)
  BY <1>1, <1>2, FS_Subset
<1>4. QED
  BY <1>1, <1>3 DEF Active, Resolved

(* A step that leaves the log and the resolved battles alone. *)
LEMMA LogKept ==
  ASSUME TypeOK, ResultsTruthful, recent' = recent,
         \A j \in Ids : instances[j].status = "resolved" => instances'[j] = instances[j],
         \A j \in Ids : instances'[j].status = "resolved" => instances[j].status = "resolved"
  PROVE  ResultsTruthful'
<1>1. Resolved' = Resolved
  BY DEF Resolved
<1>2. \A k \in DOMAIN recent : Logged(recent[k], instances'[recent[k].id])
  <2> TAKE k \in DOMAIN recent
  <2>1. recent[k] \in Result
    BY DEF TypeOK
  <2>2. recent[k].id \in Ids
    BY <2>1 DEF Result
  <2>3. Logged(recent[k], instances[recent[k].id])
    BY DEF ResultsTruthful
  <2>4. instances[recent[k].id].status = "resolved"
    BY <2>3 DEF Logged
  <2>5. QED
    BY <2>2, <2>3, <2>4
<1>3. QED
  BY <1>1, <1>2 DEF ResultsTruthful, Logged, Other

(* Resolving an active battle: its row and the log agree, and nothing else *)
(* changes.                                                                *)
LEMMA ResolveFacts ==
  ASSUME TypeOK, ResultsTruthful, NEW i \in Active, NEW b \in Battle,
         b.last = tick, Resolve(i, b)
  PROVE  /\ instances' \in [Ids -> Battle]
         /\ recent' \in Seq(Result)
         /\ instances' = [instances EXCEPT ![i] = [b EXCEPT !.status = "resolved"]]
         /\ instances'[i].status = "resolved"
         /\ \A j \in Ids : j # i => instances'[j] = instances[j]
         /\ ResultsTruthful'
<1> DEFINE c == [b EXCEPT !.status = "resolved"]
           r == BuildResult(i, b, tick)
           log == Append(recent, r)
           n == Len(recent)
<1>1. i \in Ids /\ instances[i].status = "active"
  BY DEF Active
<1>2. c \in Battle /\ c.status = "resolved"
  BY DEF Battle
<1>3. tick \in Nat /\ recent \in Seq(Result) /\ instances \in [Ids -> Battle]
  BY DEF TypeOK
<1>4. r \in Result /\ r.id = i /\ Logged(r, c)
  BY <1>1, <1>3, BuildResultFacts
<1>5. /\ instances' = [instances EXCEPT ![i] = c]
      /\ recent' = IF Len(log) > MaxRecent THEN Tail(log) ELSE log
  BY DEF Resolve
<1> HIDE DEF c, r
<1>6. /\ instances' \in [Ids -> Battle]
      /\ instances'[i] = c
      /\ \A j \in Ids : j # i => instances'[j] = instances[j]
  BY <1>1, <1>2, <1>3, <1>5
<1>7. /\ log \in Seq(Result) /\ Len(log) = n + 1 /\ n \in Nat
      /\ \A k \in 1..n : log[k] = recent[k]
      /\ log[n + 1] = r
  BY <1>3, <1>4
(* An entry of the new log is the new result or an entry of the old one. *)
<1>8. \A k \in 1..(n + 1) : Logged(log[k], instances'[log[k].id])
  <2> TAKE k \in 1..(n + 1)
  <2>1. CASE k = n + 1
    BY <2>1, <1>4, <1>6, <1>7
  <2>2. CASE k # n + 1
    <3>1. k \in 1..n /\ log[k] = recent[k]
      BY <2>2, <1>7
    <3>2. k \in DOMAIN recent /\ recent[k] \in Result
      BY <3>1, <1>3
    <3>3. Logged(recent[k], instances[recent[k].id])
      BY <3>2 DEF ResultsTruthful
    <3>4. instances[recent[k].id].status = "resolved" /\ recent[k].id \in Ids
      BY <3>2, <3>3 DEF Logged, Result
    <3>5. instances'[recent[k].id] = instances[recent[k].id]
      BY <3>4, <1>1, <1>6
    <3>6. QED
      BY <3>1, <3>3, <3>5
  <2>3. QED
    BY <2>1, <2>2
<1>9. \A k, l \in 1..(n + 1) : log[k].id = log[l].id => k = l
  <2>1. \A k \in 1..n : log[k].id # i
    <3> TAKE k \in 1..n
    <3>1. k \in DOMAIN recent /\ log[k] = recent[k]
      BY <1>3, <1>7
    <3>2. instances[recent[k].id].status = "resolved"
      BY <3>1 DEF ResultsTruthful, Logged
    <3>3. QED
      BY <3>1, <3>2, <1>1
  <2>2. \A k, l \in 1..n : log[k].id = log[l].id => k = l
    BY <1>3, <1>7 DEF ResultsTruthful
  <2>3. log[n + 1].id = i
    BY <1>4, <1>7
  <2>4. QED
    <3> TAKE k, l \in 1..(n + 1)
    <3>1. (k \in 1..n \/ k = n + 1) /\ (l \in 1..n \/ l = n + 1)
      BY <1>7
    <3> HIDE DEF log, n
    <3>2. QED
      BY <3>1, <2>1, <2>2, <2>3
<1>10. /\ Cardinality(Resolved) \in Nat
       /\ Cardinality(Resolved') = Cardinality(Resolved) + 1
  <2>1. Resolved' = Resolved \cup {i}
    BY <1>1, <1>2, <1>6 DEF Resolved
  <2>2. i \notin Resolved
    BY <1>1 DEF Resolved
  <2>3. IsFiniteSet(Resolved)
    BY ActiveFact
  <2>4. QED
    BY <2>1, <2>2, <2>3, FS_AddElement, FS_CardinalityType
<1>11. n = AtMost(Cardinality(Resolved), MaxRecent)
  BY DEF ResultsTruthful
<1>12. MaxRecent \in Nat /\ MaxRecent > 0
  BY ConstantsAssumption
<1>13. CASE Len(log) > MaxRecent
  <2>1. recent' = Tail(log)
    BY <1>5, <1>13
  <2>2. log # << >>
    BY <1>7
  <2>3. recent' \in Seq(Result) /\ Len(recent') = n
    BY <2>1, <2>2, <1>7
  <2>4. \A k \in DOMAIN recent' : k + 1 \in 1..(n + 1) /\ recent'[k] = log[k + 1]
    BY <2>1, <2>2, <1>7
  <2>5. Len(recent') = AtMost(Cardinality(Resolved'), MaxRecent)
    <3> HIDE DEF log, n
    <3> QED BY <2>3, <1>7, <1>10, <1>11, <1>12, <1>13 DEF AtMost
  <2>6. \A k \in DOMAIN recent' : Logged(recent'[k], instances'[recent'[k].id])
    BY <2>4, <1>8
  <2>7. \A k, l \in DOMAIN recent' : recent'[k].id = recent'[l].id => k = l
    <3> TAKE k, l \in DOMAIN recent'
    <3>1. k \in Nat /\ l \in Nat
      BY <2>3
    <3>2. log[k + 1].id = log[l + 1].id => k + 1 = l + 1
      BY <2>4, <1>9
    <3>3. QED
      BY <3>1, <3>2, <2>4
  <2>8. ResultsTruthful'
    BY <2>5, <2>6, <2>7 DEF ResultsTruthful, Logged, Other, AtMost
  <2>9. QED
    BY <2>3, <2>8, <1>2, <1>5, <1>6 DEF c
<1>14. CASE ~(Len(log) > MaxRecent)
  <2>1. recent' = log
    BY <1>5, <1>14
  <2>2. DOMAIN recent' = 1..(n + 1)
    BY <2>1, <1>7
  <2>3. Len(recent') = AtMost(Cardinality(Resolved'), MaxRecent)
    <3>1. Len(recent') = n + 1
      BY <2>1, <1>7
    <3> HIDE DEF log, n
    <3> QED BY <3>1, <1>7, <1>10, <1>11, <1>12, <1>14 DEF AtMost
  <2>4. ResultsTruthful'
    BY <2>1, <2>2, <2>3, <1>8, <1>9 DEF ResultsTruthful, Logged, Other, AtMost
  <2>5. QED
    BY <2>1, <2>4, <1>2, <1>5, <1>6, <1>7 DEF c
<1>15. QED
  BY <1>13, <1>14

-----------------------------------------------------------------------------
(* The inductive invariant, one lemma per action. *)

(* Armies stay exclusive when one row changes without engaging new armies. *)
LEMMA ExclusiveKept ==
  ASSUME ArmiesExclusive, NEW i \in Ids,
         \A j \in Ids : j # i => instances'[j] = instances[j],
         instances'[i].status = "active" =>
           instances[i].status = "active" /\ instances'[i].army = instances[i].army
  PROVE  ArmiesExclusive'
<1> SUFFICES ASSUME NEW j \in Active', NEW k \in Active', j # k, NEW s \in Sides, NEW r \in Sides
             PROVE  instances'[j].army[s] # instances'[k].army[r]
  BY DEF ArmiesExclusive
<1>1. \A m \in Active' : m \in Active /\ instances'[m].army = instances[m].army
  BY DEF Active
<1>2. QED
  BY <1>1 DEF ArmiesExclusive

LEMMA InitInv == Init => IndInv
<1> SUFFICES ASSUME Init PROVE IndInv
  OBVIOUS
<1>1. \A i \in Ids : instances[i].status = "none"
  BY NoBattleType DEF Init
<1>2. Active = {} /\ Resolved = {}
  BY <1>1 DEF Active, Resolved
<1>3. TypeOK
  BY NoBattleType DEF Init, TypeOK
<1>4. ResultsTruthful
  <2>1. Cardinality(Resolved) = 0
    BY <1>2, FS_EmptySet
  <2>2. Len(recent) = 0 /\ DOMAIN recent = {}
    BY DEF Init
  <2>3. QED
    BY <2>1, <2>2, ConstantsAssumption DEF ResultsTruthful, AtMost
<1>5. QED
  BY <1>2, <1>3, <1>4 DEF IndInv, LeftCoherent, ArmiesExclusive, Punctual, Init

LEMMA QueueOrderStep ==
  ASSUME IndInv, NEW o \in Orders, QueueOrder(o)
  PROVE  IndInv'
<1>1. o \in Order
  BY ConstantsAssumption
<1>2. TypeOK'
  BY <1>1 DEF IndInv, TypeOK, QueueOrder
<1>3. UNCHANGED <<tick, instances, recent, phase, todo, left>>
  BY DEF QueueOrder
<1>4. (LeftCoherent /\ ArmiesExclusive /\ Punctual)'
  BY <1>3 DEF IndInv, LeftCoherent, ArmiesExclusive, Punctual, StepsDue, Active
<1>5. ResultsTruthful'
  BY <1>3, LogKept DEF IndInv
<1>6. QED
  BY <1>2, <1>4, <1>5 DEF IndInv

LEMMA BeginTickStep ==
  ASSUME IndInv, BeginTick
  PROVE  IndInv'
<1>1. TypeOK'
  BY DEF IndInv, TypeOK, BeginTick
<1>2. UNCHANGED <<instances, recent, left>>
  BY DEF BeginTick
<1>3. (LeftCoherent /\ ArmiesExclusive)'
  BY <1>2 DEF IndInv, LeftCoherent, ArmiesExclusive, Active, BeginTick
<1>4. ResultsTruthful'
  BY <1>2, LogKept DEF IndInv
<1>5. Punctual'
  <2> SUFFICES ASSUME NEW i \in Active
               PROVE  instances[i].steps = StepsDue(i)' /\ instances[i].steps < MaxSteps
    BY <1>2 DEF Punctual, Active
  <2>1. i \in Ids /\ instances[i] \in Battle /\ tick \in Nat
    BY DEF Active, IndInv, TypeOK
  <2>2. instances[i].started \in Nat
    BY <2>1, BattleFields
  <2>3. instances[i].steps = tick - instances[i].started + 1 /\ instances[i].steps < MaxSteps
    BY DEF IndInv, Punctual, StepsDue, BeginTick
  <2>4. phase' = "orders" /\ tick' = tick + 1
    BY DEF BeginTick
  <2>5. StepsDue(i)' = tick' - instances'[i].started + 0
    BY <2>4 DEF StepsDue
  <2>6. QED
    BY <1>2, <2>1, <2>2, <2>3, <2>4, <2>5
<1>6. QED
  BY <1>1, <1>3, <1>4, <1>5 DEF IndInv

(* What an order in progress leaves alone. *)
LEMMA TakeFacts ==
  ASSUME IndInv, NEW o \in todo, Take(o)
  PROVE  /\ o \in Order /\ o.id \in Ids
         /\ phase = "orders" /\ phase' = "orders" /\ left = {} /\ left' = {}
         /\ tick' = tick /\ tick \in Nat /\ pending' \subseteq Order /\ todo' \subseteq Order
         /\ \A i \in Ids : StepsDue(i) = tick - instances[i].started + 0
         /\ \A i \in Ids : StepsDue(i)' = tick - instances'[i].started + 0
<1>1. /\ o \in Order /\ phase = "orders" /\ phase' = "orders" /\ left = {} /\ left' = {}
      /\ tick' = tick /\ tick \in Nat /\ pending' \subseteq Order /\ todo' \subseteq Order
  BY DEF IndInv, TypeOK, LeftCoherent, Take
<1>2. o.id \in Ids
  BY <1>1, OrderKinds
<1>4. \A i \in Ids : StepsDue(i) = tick - instances[i].started + 0
  BY <1>1 DEF StepsDue
<1>5. \A i \in Ids : StepsDue(i)' = tick - instances'[i].started + 0
  BY <1>1 DEF StepsDue
<1>6. QED
  BY <1>1, <1>2, <1>4, <1>5

(* An order that rewrites one active row without opening, resolving or      *)
(* moving it in time.                                                       *)
LEMMA RowKept ==
  ASSUME IndInv, NEW o \in todo, Take(o), recent' = recent,
         NEW i \in Active, NEW b \in Battle,
         b.status = "active", b.army = instances[i].army, b.steps = instances[i].steps,
         b.started = instances[i].started,
         instances' = [instances EXCEPT ![i] = b]
  PROVE  IndInv'
<1>1. i \in Ids /\ instances[i].status = "active" /\ instances \in [Ids -> Battle]
  BY DEF Active, IndInv, TypeOK
<1>2. /\ instances' \in [Ids -> Battle]
      /\ instances'[i] = b
      /\ \A j \in Ids : j # i => instances'[j] = instances[j]
  BY <1>1
<1>3. TypeOK'
  BY <1>2, TakeFacts DEF IndInv, TypeOK, Take
<1>4. LeftCoherent'
  BY TakeFacts DEF LeftCoherent
<1>5. ArmiesExclusive'
  BY <1>1, <1>2, ExclusiveKept DEF IndInv
<1>6. ResultsTruthful'
  BY <1>1, <1>2, LogKept DEF IndInv
<1>7. Punctual'
  <2> SUFFICES ASSUME NEW j \in Active'
               PROVE  instances'[j].steps = StepsDue(j)' /\ instances'[j].steps < MaxSteps
    BY DEF Punctual
  <2>1. j \in Ids /\ j \in Active
    BY <1>1, <1>2 DEF Active
  <2>2. instances'[j].steps = instances[j].steps /\ instances'[j].started = instances[j].started
    BY <1>2, <2>1
  <2>3. instances[j].steps = StepsDue(j) /\ instances[j].steps < MaxSteps
    BY <2>1 DEF IndInv, Punctual
  <2>4. QED
    BY <2>1, <2>2, <2>3, TakeFacts
<1>8. QED
  BY <1>3, <1>4, <1>5, <1>6, <1>7 DEF IndInv

(* An order that changes no battle. *)
LEMMA OrderDropped ==
  ASSUME IndInv, NEW o \in todo, Take(o), UNCHANGED <<instances, recent>>
  PROVE  IndInv'
<1>1. TypeOK'
  BY TakeFacts DEF IndInv, TypeOK, Take
<1>2. LeftCoherent'
  BY TakeFacts DEF LeftCoherent
<1>3. ArmiesExclusive'
  BY DEF IndInv, ArmiesExclusive, Active
<1>4. ResultsTruthful'
  BY LogKept DEF IndInv
<1>5. Punctual'
  BY TakeFacts DEF IndInv, Punctual, Active
<1>6. QED
  BY <1>1, <1>2, <1>3, <1>4, <1>5 DEF IndInv

LEMMA StartEncounterStep ==
  ASSUME IndInv, NEW o \in todo, StartEncounter(o)
  PROVE  IndInv'
<1> DEFINE b == [NoBattle EXCEPT !.status = "active", !.army = o.army,
                   !.initial = o.strength, !.strength = o.strength,
                   !.reserve = [s \in Sides |-> o.strength[s] \div 5],
                   !.started = tick, !.last = tick]
           i == o.id
<1>1. Take(o) /\ o.kind = "start" /\ recent' = recent
  BY DEF StartEncounter
<1>2. CASE ~Startable(o)
  <2>1. instances' = instances
    BY <1>2 DEF StartEncounter
  <2>2. QED
    BY <1>1, <2>1, OrderDropped
<1>3. CASE Startable(o)
  <2>1. instances' = [instances EXCEPT ![i] = b]
    BY <1>3 DEF StartEncounter
  <2>2. /\ o \in StartOrder /\ i \in Ids /\ tick \in Nat
    BY <1>1, TakeFacts, OrderKinds
  <2>3. /\ b \in Battle /\ b.status = "active" /\ b.army = o.army
        /\ b.steps = 0 /\ b.started = tick
    BY <2>2, OpenedType
  <2>4. instances[i].status = "none" /\ o.army["attacker"] # o.army["defender"] /\ ~Engaged(o)
    BY <1>3 DEF Startable
  <2> HIDE DEF b, i
  <2>5. instances \in [Ids -> Battle]
    BY DEF IndInv, TypeOK
  <2>6. /\ instances' \in [Ids -> Battle]
        /\ instances'[i] = b
        /\ \A j \in Ids : j # i => instances'[j] = instances[j]
    BY <2>1, <2>2, <2>3, <2>5
  <2>7. TypeOK'
    BY <2>6, <1>1, TakeFacts DEF IndInv, TypeOK, Take
  <2>8. LeftCoherent'
    BY <1>1, TakeFacts DEF LeftCoherent
  <2>9. ArmiesExclusive'
    <3> SUFFICES ASSUME NEW j \in Active', NEW k \in Active', j # k,
                        NEW s \in Sides, NEW r \in Sides
                 PROVE  instances'[j].army[s] # instances'[k].army[r]
      BY DEF ArmiesExclusive
    <3>1. j \in Ids /\ k \in Ids
      BY DEF Active
    <3>2. \A m \in Ids, x \in Sides, y \in Sides :
            instances[m].status = "active" => instances[m].army[x] # o.army[y]
      BY <2>4 DEF Engaged, Active
    <3>3. \A m \in Ids : m # i /\ m \in Active' => instances[m].status = "active"
      BY <2>6 DEF Active
    <3>4. CASE j = i
      BY <3>1, <3>2, <3>3, <3>4, <2>3, <2>6
    <3>5. CASE k = i
      BY <3>1, <3>2, <3>3, <3>5, <2>3, <2>6
    <3>6. CASE j # i /\ k # i
      BY <3>1, <3>3, <3>6, <2>6 DEF IndInv, ArmiesExclusive, Active
    <3>7. QED
      BY <3>4, <3>5, <3>6
  <2>10. ResultsTruthful'
    <3>1. \A j \in Ids : instances[j].status = "resolved" => instances'[j] = instances[j]
      BY <2>4, <2>6
    <3>2. \A j \in Ids : instances'[j].status = "resolved" => instances[j].status = "resolved"
      BY <2>3, <2>6
    <3>3. QED
      BY <3>1, <3>2, <1>1, LogKept DEF IndInv
  <2>11. Punctual'
    <3> SUFFICES ASSUME NEW j \in Active'
                 PROVE  instances'[j].steps = StepsDue(j)' /\ instances'[j].steps < MaxSteps
      BY DEF Punctual
    <3>1. j \in Ids /\ StepsDue(j)' = tick - instances'[j].started + 0
      BY <1>1, TakeFacts DEF Active
    <3>2. CASE j = i
      <4>1. instances'[j].steps = 0 /\ instances'[j].started = tick
        BY <3>2, <2>3, <2>6
      <4>2. QED
        BY <3>1, <4>1, <2>2, ConstantsAssumption
    <3>3. CASE j # i
      <4>1. j \in Active /\ instances'[j] = instances[j]
        BY <3>1, <3>3, <2>6 DEF Active
      <4>2. StepsDue(j) = tick - instances[j].started + 0
        BY <3>1, <1>1, TakeFacts
      <4>3. QED
        BY <3>1, <4>1, <4>2 DEF IndInv, Punctual
    <3>4. QED
      BY <3>2, <3>3
  <2>12. QED
    BY <2>7, <2>8, <2>9, <2>10, <2>11 DEF IndInv
<1>4. QED
  BY <1>2, <1>3

LEMMA SetFormationStep ==
  ASSUME IndInv, NEW o \in todo, SetFormation(o)
  PROVE  IndInv'
<1> DEFINE i == o.id
           b == [instances[i] EXCEPT !.formation[o.side] = o.formation]
<1>1. Take(o) /\ o.kind = "formation" /\ recent' = recent
  BY DEF SetFormation
<1>2. CASE i \notin Active
  BY <1>1, <1>2, OrderDropped DEF SetFormation
<1>3. CASE i \in Active
  <2>1. o.side \in Sides /\ o.formation \in Formations /\ i \in Ids
    BY <1>1, TakeFacts, OrderKinds
  <2>2. instances[i] \in Battle /\ instances[i].status = "active"
    BY <1>3, <2>1 DEF IndInv, TypeOK, Active
  <2>3. /\ b \in Battle /\ b.status = "active" /\ b.army = instances[i].army
        /\ b.steps = instances[i].steps /\ b.started = instances[i].started
    <3> DEFINE f == [instances[i].formation EXCEPT ![o.side] = o.formation]
    <3>1. f \in [Sides -> Formations]
      BY <2>1, <2>2, BattleFields
    <3>2. b = [instances[i] EXCEPT !.formation = f]
      BY <2>2 DEF Battle
    <3> HIDE DEF f, b
    <3>3. QED
      BY <2>2, <3>1, <3>2 DEF Battle
  <2>4. instances' = [instances EXCEPT ![i] = b]
    BY <1>3 DEF SetFormation
  <2> HIDE DEF b, i
  <2>5. QED
    BY <1>1, <1>3, <2>3, <2>4, RowKept
<1>4. QED
  BY <1>2, <1>3

(* The row a deployed reserve leaves, and the troops it leaves unchanged. *)
LEMMA DeployedFacts ==
  ASSUME NEW b \in Battle, NEW s \in Sides, NEW asked \in Nat
  PROVE  LET sent == AtMost(asked, b.reserve[s])
             c == [b EXCEPT !.reserve[s] = @ - sent, !.strength[s] = @ + sent,
                            !.deployed[s] = TRUE]
         IN  /\ c \in Battle /\ c.status = b.status /\ c.army = b.army
             /\ c.steps = b.steps /\ c.started = b.started
             /\ \A r \in Sides : c.strength[r] + c.reserve[r] = b.strength[r] + b.reserve[r]
<1> DEFINE sent == AtMost(asked, b.reserve[s])
           reserve == [b.reserve EXCEPT ![s] = @ - sent]
           strength == [b.strength EXCEPT ![s] = @ + sent]
           deployed == [b.deployed EXCEPT ![s] = TRUE]
           c == [b EXCEPT !.reserve = reserve, !.strength = strength, !.deployed = deployed]
<1>1. /\ b.reserve \in [Sides -> Nat] /\ b.strength \in [Sides -> Nat]
      /\ b.deployed \in [Sides -> BOOLEAN]
  BY BattleFields
<1>2. b.reserve[s] \in Nat /\ b.strength[s] \in Nat
  BY <1>1
<1>3. sent \in Nat /\ sent <= b.reserve[s]
  BY <1>2 DEF AtMost
<1> HIDE DEF sent
<1>4. b.reserve[s] - sent \in Nat /\ b.strength[s] + sent \in Nat
  BY <1>2, <1>3
<1>5. /\ reserve \in [Sides -> Nat] /\ strength \in [Sides -> Nat]
      /\ deployed \in [Sides -> BOOLEAN]
  BY <1>1, <1>4
<1>6. \A r \in Sides : strength[r] + reserve[r] = b.strength[r] + b.reserve[r]
  <2> TAKE r \in Sides
  <2>1. b.reserve[r] \in Nat /\ b.strength[r] \in Nat
    BY <1>1
  <2>2. CASE r = s
    <3>1. strength[r] = b.strength[r] + sent /\ reserve[r] = b.reserve[r] - sent
      BY <1>1, <2>2
    <3> HIDE DEF strength, reserve
    <3>2. QED
      BY <3>1, <2>1, <1>3
  <2>3. CASE r # s
    BY <1>1, <2>3
  <2>4. QED
    BY <2>2, <2>3
<1> HIDE DEF reserve, strength, deployed
<1>7. /\ c \in Battle /\ c.status = b.status /\ c.army = b.army
      /\ c.steps = b.steps /\ c.started = b.started
      /\ c.strength = strength /\ c.reserve = reserve
  BY <1>5 DEF Battle
<1>8. c = [b EXCEPT !.reserve[s] = @ - sent, !.strength[s] = @ + sent, !.deployed[s] = TRUE]
  BY <1>1 DEF Battle, reserve, strength, deployed
<1> HIDE DEF c
<1>9. QED
  BY <1>6, <1>7, <1>8 DEF sent

LEMMA DeployReserveStep ==
  ASSUME IndInv, NEW o \in todo, DeployReserve(o)
  PROVE  IndInv'
<1> DEFINE i == o.id
           sent == AtMost(o.reserve, instances[i].reserve[o.side])
           b == [instances[i] EXCEPT !.reserve[o.side] = @ - sent,
                   !.strength[o.side] = @ + sent, !.deployed[o.side] = TRUE]
<1>1. Take(o) /\ o.kind = "reserve" /\ recent' = recent
  BY DEF DeployReserve
<1>2. CASE ~Deployable(o)
  BY <1>1, <1>2, OrderDropped DEF DeployReserve
<1>3. CASE Deployable(o)
  <2>1. o.side \in Sides /\ o.reserve \in Nat /\ i \in Ids
    BY <1>1, TakeFacts, OrderKinds
  <2>2. i \in Active /\ instances[i] \in Battle /\ instances[i].status = "active"
    BY <1>3, <2>1 DEF IndInv, TypeOK, Active, Deployable
  <2>3. /\ b \in Battle /\ b.status = "active" /\ b.army = instances[i].army
        /\ b.steps = instances[i].steps /\ b.started = instances[i].started
    <3> DEFINE row == instances[i]
               given == AtMost(o.reserve, row.reserve[o.side])
               c == [row EXCEPT !.reserve[o.side] = @ - given,
                       !.strength[o.side] = @ + given, !.deployed[o.side] = TRUE]
    <3>1. row \in Battle
      BY <2>2
    <3> HIDE DEF row
    <3>2. /\ c \in Battle /\ c.status = row.status /\ c.army = row.army
          /\ c.steps = row.steps /\ c.started = row.started
      BY <2>1, <3>1, DeployedFacts
    <3> HIDE DEF c
    <3>3. b = c
      BY DEF row, c
    <3> HIDE DEF b
    <3>4. QED
      BY <2>2, <3>2, <3>3 DEF row
  <2>4. instances' = [instances EXCEPT ![i] = b]
    BY <1>3, <2>1, <2>2 DEF DeployReserve, IndInv, TypeOK
  <2> HIDE DEF b, i, sent
  <2>5. QED
    BY <1>1, <2>2, <2>3, <2>4, RowKept
<1>4. QED
  BY <1>2, <1>3

LEMMA ForceResolveStep ==
  ASSUME IndInv, NEW o \in todo, ForceResolve(o)
  PROVE  IndInv'
<1> DEFINE i == o.id
           b == [instances[i] EXCEPT !.last = tick]
<1>1. Take(o)
  BY DEF ForceResolve
<1>2. CASE i \notin Active
  BY <1>1, <1>2, OrderDropped DEF ForceResolve
<1>3. CASE i \in Active
  <2>1. i \in Ids /\ tick \in Nat /\ instances[i] \in Battle
    BY <1>1, TakeFacts DEF IndInv, TypeOK
  <2>2. b \in Battle /\ b.last = tick
    BY <2>1 DEF Battle
  <2>3. Resolve(i, b)
    BY <1>3 DEF ForceResolve
  <2> HIDE DEF b, i
  <2>4. /\ instances' \in [Ids -> Battle] /\ recent' \in Seq(Result)
        /\ instances'[i].status = "resolved"
        /\ \A j \in Ids : j # i => instances'[j] = instances[j]
        /\ ResultsTruthful'
    BY <1>3, <2>2, <2>3, ResolveFacts DEF IndInv
  <2>5. TypeOK'
    BY <2>4, <1>1, TakeFacts DEF IndInv, TypeOK, Take
  <2>6. LeftCoherent'
    BY <1>1, TakeFacts DEF LeftCoherent
  <2>7. ArmiesExclusive'
    BY <2>1, <2>4, ExclusiveKept DEF IndInv
  <2>8. Punctual'
    <3> SUFFICES ASSUME NEW j \in Active'
                 PROVE  instances'[j].steps = StepsDue(j)' /\ instances'[j].steps < MaxSteps
      BY DEF Punctual
    <3>1. j \in Active /\ j \in Ids /\ instances'[j] = instances[j]
      BY <2>4 DEF Active
    <3>2. StepsDue(j)' = StepsDue(j)
      BY <3>1, <1>1, TakeFacts
    <3>3. QED
      BY <3>1, <3>2 DEF IndInv, Punctual
  <2>9. QED
    BY <2>4, <2>5, <2>6, <2>7, <2>8 DEF IndInv
<1>4. QED
  BY <1>2, <1>3

LEMMA OrdersDoneStep ==
  ASSUME IndInv, OrdersDone
  PROVE  IndInv'
<1>1. /\ UNCHANGED <<tick, instances, pending, recent, todo>>
      /\ phase = "orders" /\ phase' = "instances" /\ left' = Active /\ todo = {}
  BY DEF OrdersDone
<1>2. Active' = Active
  BY <1>1 DEF Active
<1>3. TypeOK'
  BY <1>1 DEF IndInv, TypeOK, Active
<1>4. LeftCoherent' /\ ArmiesExclusive'
  BY <1>1, <1>2 DEF IndInv, LeftCoherent, ArmiesExclusive
<1>5. ResultsTruthful'
  BY <1>1, LogKept DEF IndInv
<1>6. Punctual'
  <2> SUFFICES ASSUME NEW i \in Active
               PROVE  instances[i].steps = StepsDue(i)' /\ instances[i].steps < MaxSteps
    BY <1>1, <1>2 DEF Punctual
  <2>1. StepsDue(i)' = StepsDue(i)
    BY <1>1 DEF StepsDue
  <2>2. QED
    BY <2>1 DEF IndInv, Punctual
<1>7. QED
  BY <1>3, <1>4, <1>5, <1>6 DEF IndInv

(* The row a battle has after its step, whatever the rolls. *)
LEMMA AdvanceFacts ==
  ASSUME IndInv, NEW i \in Ids, AdvanceInstance(i)
  PROVE  /\ i \in left /\ phase = "instances" /\ phase' = "instances" /\ tick' = tick
         /\ left' = left \ {i} /\ todo' = todo /\ pending' = pending
         /\ i \in Active /\ instances[i] \in Battle /\ tick \in Nat
         /\ \E b \in Battle :
              /\ b.status = "active" /\ b.army = instances[i].army
              /\ b.started = instances[i].started
              /\ b.steps = instances[i].steps + 1 /\ b.last = tick
              /\ b.reserve = instances[i].reserve
              /\ \A s \in Sides : b.strength[s] <= instances[i].strength[s]
              /\ \/ Resolve(i, b)
                 \/ /\ b.steps < MaxSteps
                    /\ instances' = [instances EXCEPT ![i] = b]
                    /\ recent' = recent
<1>1. /\ i \in left /\ phase = "instances" /\ phase' = "instances" /\ tick' = tick
      /\ left' = left \ {i} /\ todo' = todo /\ pending' = pending
  BY DEF AdvanceInstance
<1>2. i \in Active /\ instances[i] \in Battle /\ tick \in Nat
  BY <1>1 DEF IndInv, LeftCoherent, TypeOK
<1> DEFINE After == {Advanced(instances[i], p, tick) : p \in [Sides -> Pressures]}
<1>3. PICK c \in After :
        IF Decided(c) THEN Resolve(i, c)
        ELSE instances' = [instances EXCEPT ![i] = c] /\ recent' = recent
  BY DEF AdvanceInstance
<1>p. PICK p \in [Sides -> Pressures] : c = Advanced(instances[i], p, tick)
  OBVIOUS
<1> DEFINE b == Advanced(instances[i], p, tick)
<1>4. instances[i].status = "active"
  BY <1>2 DEF Active
<1>5. /\ b \in Battle /\ b.status = "active" /\ b.army = instances[i].army
      /\ b.started = instances[i].started
      /\ b.steps = instances[i].steps + 1 /\ b.last = tick
      /\ b.reserve = instances[i].reserve
      /\ \A s \in Sides : b.strength[s] <= instances[i].strength[s]
  BY <1>2, <1>4, AdvancedFacts
<1>6. IF Decided(b) THEN Resolve(i, b)
      ELSE instances' = [instances EXCEPT ![i] = b] /\ recent' = recent
  BY <1>3, <1>p
<1> HIDE DEF b
<1>7. ~Decided(b) => b.steps < MaxSteps
  <2>1. b.steps \in Nat /\ MaxSteps \in Nat
    BY <1>5, BattleFields, ConstantsAssumption
  <2>2. QED
    BY <2>1 DEF Decided
<1>8. \/ Resolve(i, b)
      \/ /\ b.steps < MaxSteps
         /\ instances' = [instances EXCEPT ![i] = b]
         /\ recent' = recent
  BY <1>6, <1>7
<1>9. QED
  BY <1>1, <1>2, <1>5, <1>8

LEMMA AdvanceInstanceStep ==
  ASSUME IndInv, NEW i \in Ids, AdvanceInstance(i)
  PROVE  IndInv'
<1>1. /\ i \in left /\ phase = "instances" /\ phase' = "instances" /\ tick' = tick
      /\ left' = left \ {i} /\ todo' = todo /\ pending' = pending
      /\ i \in Active /\ instances[i] \in Battle /\ tick \in Nat
  BY AdvanceFacts
<1>2. PICK b \in Battle :
        /\ b.status = "active" /\ b.army = instances[i].army
        /\ b.started = instances[i].started
        /\ b.steps = instances[i].steps + 1 /\ b.last = tick
        /\ \/ Resolve(i, b)
           \/ /\ b.steps < MaxSteps
              /\ instances' = [instances EXCEPT ![i] = b]
              /\ recent' = recent
  BY AdvanceFacts
<1>3. instances \in [Ids -> Battle] /\ instances[i].status = "active"
  BY <1>1 DEF IndInv, TypeOK, Active
<1>4. /\ instances' \in [Ids -> Battle] /\ recent' \in Seq(Result)
      /\ \A j \in Ids : j # i => instances'[j] = instances[j]
      /\ \/ instances'[i].status = "resolved"
         \/ instances'[i] = b /\ b.steps < MaxSteps
      /\ ResultsTruthful'
  <2>1. CASE Resolve(i, b)
    BY <2>1, <1>1, <1>2, ResolveFacts DEF IndInv
  <2>2. CASE /\ b.steps < MaxSteps
             /\ instances' = [instances EXCEPT ![i] = b]
             /\ recent' = recent
    <3>1. /\ instances' \in [Ids -> Battle] /\ instances'[i] = b
          /\ \A j \in Ids : j # i => instances'[j] = instances[j]
      BY <2>2, <1>3
    <3>2. ResultsTruthful'
      BY <2>2, <3>1, <1>2, <1>3, LogKept DEF IndInv
    <3>3. QED
      BY <2>2, <3>1, <3>2 DEF IndInv, TypeOK
  <2>3. QED
    BY <2>1, <2>2, <1>2
<1>5. TypeOK'
  BY <1>1, <1>4 DEF IndInv, TypeOK
<1>6. LeftCoherent'
  BY <1>1, <1>4 DEF IndInv, LeftCoherent, Active
<1>7. ArmiesExclusive'
  BY <1>2, <1>3, <1>4, ExclusiveKept DEF IndInv
<1>8. Punctual'
  <2> SUFFICES ASSUME NEW j \in Active'
               PROVE  instances'[j].steps = StepsDue(j)' /\ instances'[j].steps < MaxSteps
    BY DEF Punctual
  <2>1. j \in Ids
    BY DEF Active
  <2>2. CASE j = i
    <3>1. instances'[j] = b /\ b.steps < MaxSteps
      BY <2>2, <1>4 DEF Active
    <3>2. StepsDue(i) = tick - instances[i].started + 0
      BY <1>1 DEF StepsDue
    <3>3. StepsDue(j)' = tick - instances'[j].started + 1
      BY <1>1, <2>2 DEF StepsDue
    <3>4. instances[i].steps = StepsDue(i)
      BY <1>1 DEF IndInv, Punctual
    <3>5. instances[i].started \in Nat /\ instances[i].steps \in Nat
      BY <1>1, BattleFields
    <3>6. instances'[j].started = instances[i].started /\ instances'[j].steps = instances[i].steps + 1
      BY <3>1, <1>2
    <3>7. QED
      BY <3>1, <3>2, <3>3, <3>4, <3>5, <3>6, <1>1
  <2>3. CASE j # i
    <3>1. j \in Active /\ instances'[j] = instances[j]
      BY <2>1, <2>3, <1>4 DEF Active
    <3>2. StepsDue(j)' = StepsDue(j)
      BY <2>3, <3>1, <1>1 DEF StepsDue
    <3>3. QED
      BY <3>1, <3>2 DEF IndInv, Punctual
  <2>4. QED
    BY <2>2, <2>3
<1>9. QED
  BY <1>4, <1>5, <1>6, <1>7, <1>8 DEF IndInv

LEMMA EndTickStep ==
  ASSUME IndInv, EndTick
  PROVE  IndInv'
<1>1. /\ UNCHANGED <<tick, instances, pending, recent, todo, left>>
      /\ phase = "instances" /\ phase' = "idle" /\ left = {}
  BY DEF EndTick
<1>2. TypeOK' /\ LeftCoherent' /\ ArmiesExclusive'
  BY <1>1 DEF IndInv, TypeOK, LeftCoherent, ArmiesExclusive, Active
<1>3. ResultsTruthful'
  BY <1>1, LogKept DEF IndInv
<1>4. Punctual'
  <2> SUFFICES ASSUME NEW i \in Active
               PROVE  instances[i].steps = StepsDue(i)' /\ instances[i].steps < MaxSteps
    BY <1>1 DEF Punctual, Active
  <2>1. StepsDue(i)' = StepsDue(i)
    BY <1>1 DEF StepsDue
  <2>2. QED
    BY <2>1 DEF IndInv, Punctual
<1>5. QED
  BY <1>2, <1>3, <1>4 DEF IndInv

LEMMA NextInv == IndInv /\ [Next]_vars => IndInv'
<1> SUFFICES ASSUME IndInv, [Next]_vars PROVE IndInv'
  OBVIOUS
<1>1. ASSUME NEW o \in Orders, QueueOrder(o) PROVE IndInv'
  BY <1>1, QueueOrderStep
<1>2. CASE BeginTick
  BY <1>2, BeginTickStep
<1>3. ASSUME NEW o \in todo, Apply(o) PROVE IndInv'
  BY <1>3, StartEncounterStep, SetFormationStep, DeployReserveStep, ForceResolveStep DEF Apply
<1>4. CASE OrdersDone
  BY <1>4, OrdersDoneStep
<1>5. ASSUME NEW i \in Ids, AdvanceInstance(i) PROVE IndInv'
  BY <1>5, AdvanceInstanceStep
<1>6. CASE EndTick
  BY <1>6, EndTickStep
<1>7. CASE UNCHANGED vars
  <2>1. UNCHANGED <<tick, instances, pending, recent, phase, todo, left>>
    BY <1>7 DEF vars
  <2>2. (TypeOK /\ LeftCoherent /\ ArmiesExclusive /\ Punctual)'
    BY <2>1 DEF IndInv, TypeOK, LeftCoherent, ArmiesExclusive, Punctual, StepsDue, Active
  <2>3. ResultsTruthful'
    BY <2>1, LogKept DEF IndInv
  <2>4. QED
    BY <2>2, <2>3 DEF IndInv
<1>8. QED
  BY <1>1, <1>2, <1>3, <1>4, <1>5, <1>6, <1>7 DEF Next, AdvanceTick

-----------------------------------------------------------------------------
(* Theorems. *)

(* The inductive invariant: rows, queue, log and clock fit together between *)
(* any two orders and any two battles of a tick.                            *)
THEOREM Coherence == Spec => []IndInv
BY InitInv, NextInv, PTL DEF Spec

(* No army fights in two active battles. *)
THEOREM Exclusive == Spec => []ArmiesExclusive
<1>1. IndInv => ArmiesExclusive
  BY DEF IndInv
<1>2. QED
  BY <1>1, Coherence, PTL

(* The result log repeats the final rows of the resolved battles, once each. *)
THEOREM Truthful == Spec => []ResultsTruthful
<1>1. IndInv => ResultsTruthful
  BY DEF IndInv
<1>2. QED
  BY <1>1, Coherence, PTL

(* No step adds troops to a battle or changes a resolved one. *)
LEMMA RowsStep == IndInv /\ [Next]_vars => TroopsStep /\ FinalStep
<1> SUFFICES ASSUME IndInv, [Next]_vars, NEW i \in Ids
             PROVE  /\ instances[i].status = "active" => \A s \in Sides :
                         instances'[i].strength[s] + instances'[i].reserve[s]
                           <= instances[i].strength[s] + instances[i].reserve[s]
                    /\ instances[i].status = "resolved" => instances'[i] = instances[i]
  BY DEF TroopsStep, FinalStep, Active, Resolved
<1>1. instances \in [Ids -> Battle] /\ instances[i] \in Battle
  BY DEF IndInv, TypeOK
<1>2. \A s \in Sides : instances[i].strength[s] \in Nat /\ instances[i].reserve[s] \in Nat
  BY <1>1, BattleFields
<1>3. CASE instances'[i] = instances[i]
  BY <1>2, <1>3
<1>4. ASSUME NEW o \in todo, StartEncounter(o), instances'[i] # instances[i] 
      PROVE  instances[i].status = "none"
  <2>1. Startable(o) /\ i = o.id
    BY <1>1, <1>4 DEF StartEncounter
  <2>2. QED
    BY <2>1 DEF Startable
<1>5. ASSUME NEW o \in todo, SetFormation(o), instances'[i] # instances[i]
      PROVE  /\ instances[i].status = "active"
             /\ instances'[i].strength = instances[i].strength
             /\ instances'[i].reserve = instances[i].reserve
  <2>1. o.id = i /\ o.id \in Active
    BY <1>1, <1>5 DEF SetFormation
  <2>2. instances'[i] = [instances[i] EXCEPT !.formation[o.side] = o.formation]
    BY <1>1, <1>5, <2>1 DEF SetFormation
  <2>3. QED
    BY <1>1, <2>1, <2>2 DEF Active, Battle
<1>6. ASSUME NEW o \in todo, DeployReserve(o), instances'[i] # instances[i]
      PROVE  /\ instances[i].status = "active"
             /\ \A s \in Sides : instances'[i].strength[s] + instances'[i].reserve[s]
                                   = instances[i].strength[s] + instances[i].reserve[s]
  <2> DEFINE row == instances[i]
             sent == AtMost(o.reserve, row.reserve[o.side])
             c == [row EXCEPT !.reserve[o.side] = @ - sent,
                     !.strength[o.side] = @ + sent, !.deployed[o.side] = TRUE]
  <2>1. o.id = i /\ o.id \in Active
    BY <1>1, <1>6 DEF DeployReserve, Deployable
  <2>2. o.side \in Sides /\ o.reserve \in Nat
    BY <1>6, TakeFacts, OrderKinds DEF DeployReserve
  <2>3. instances'[i] = c
    BY <1>1, <1>6, <2>1 DEF DeployReserve
  <2>4. row \in Battle
    BY <1>1
  <2> HIDE DEF row
  <2>5. \A s \in Sides : c.strength[s] + c.reserve[s] = row.strength[s] + row.reserve[s]
    BY <2>2, <2>4, DeployedFacts
  <2> HIDE DEF c
  <2>6. QED
    BY <2>1, <2>3, <2>5 DEF Active, row
(* Resolving keeps the troops of the row it is given. *)
<1>7. ASSUME NEW b \in Battle, instances' = [instances EXCEPT ![i] = [b EXCEPT !.status = "resolved"]]
      PROVE  instances'[i].strength = b.strength /\ instances'[i].reserve = b.reserve
  <2>1. instances'[i] = [b EXCEPT !.status = "resolved"]
    BY <1>1, <1>7
  <2>2. QED
    BY <2>1 DEF Battle
<1>8. ASSUME NEW o \in todo, ForceResolve(o), instances'[i] # instances[i]
      PROVE  /\ instances[i].status = "active"
             /\ instances'[i].strength = instances[i].strength
             /\ instances'[i].reserve = instances[i].reserve
  <2> DEFINE b == [instances[i] EXCEPT !.last = tick]
  <2>1. o.id = i /\ o.id \in Active
    BY <1>1, <1>8 DEF ForceResolve, Resolve
  <2>2. b \in Battle /\ b.strength = instances[i].strength /\ b.reserve = instances[i].reserve
    BY <1>1 DEF Battle, IndInv, TypeOK
  <2>3. instances' = [instances EXCEPT ![i] = [b EXCEPT !.status = "resolved"]]
    BY <1>8, <2>1 DEF ForceResolve, Resolve
  <2> HIDE DEF b
  <2>4. instances'[i].strength = b.strength /\ instances'[i].reserve = b.reserve
    BY <1>7, <2>2, <2>3
  <2>5. QED
    BY <2>1, <2>2, <2>4 DEF Active
<1>9. ASSUME NEW j \in Ids, AdvanceInstance(j), instances'[i] # instances[i]
      PROVE  /\ instances[i].status = "active"
             /\ instances'[i].reserve = instances[i].reserve
             /\ \A s \in Sides : instances'[i].strength[s] <= instances[i].strength[s]
  <2>1. j \in Active
    BY <1>9, AdvanceFacts
  <2>2. PICK b \in Battle :
          /\ b.reserve = instances[j].reserve
          /\ \A s \in Sides : b.strength[s] <= instances[j].strength[s]
          /\ \/ Resolve(j, b)
             \/ instances' = [instances EXCEPT ![j] = b]
    BY <1>9, AdvanceFacts
  <2>3. i = j
    BY <1>1, <1>9, <2>2 DEF Resolve
  <2>4. instances'[i].strength = b.strength /\ instances'[i].reserve = b.reserve
    <3>1. CASE Resolve(j, b)
      BY <3>1, <2>3, <1>7 DEF Resolve
    <3>2. CASE instances' = [instances EXCEPT ![j] = b]
      BY <3>2, <2>3, <1>1
    <3>3. QED
      BY <3>1, <3>2, <2>2
  <2>5. QED
    BY <2>1, <2>2, <2>3, <2>4 DEF Active
<1>10. CASE instances'[i] # instances[i]
  <2>1. ~(UNCHANGED instances)
    BY <1>10
  <2>2. \/ \E o \in todo : Apply(o)
        \/ \E j \in Ids : AdvanceInstance(j)
    BY <2>1 DEF Next, AdvanceTick, QueueOrder, BeginTick, OrdersDone, EndTick, vars
  <2>3. CASE \E o \in todo : Apply(o)
    <3>1. PICK o \in todo : Apply(o)
      BY <2>3
    <3>2. CASE StartEncounter(o)
      BY <1>4, <1>10, <3>2
    <3>3. CASE SetFormation(o)
      BY <1>2, <1>5, <1>10, <3>3
    <3>4. CASE DeployReserve(o)
      BY <1>2, <1>6, <1>10, <3>4
    <3>5. CASE ForceResolve(o)
      BY <1>2, <1>8, <1>10, <3>5
    <3>6. QED
      BY <3>1, <3>2, <3>3, <3>4, <3>5 DEF Apply
  <2>4. CASE \E j \in Ids : AdvanceInstance(j)
    <3>1. /\ instances[i].status = "active"
          /\ instances'[i].reserve = instances[i].reserve
          /\ \A s \in Sides : instances'[i].strength[s] <= instances[i].strength[s]
      BY <1>9, <1>10, <2>4
    <3>2. instances' \in [Ids -> Battle]
      BY NextInv DEF IndInv, TypeOK
    <3>3. \A s \in Sides : instances'[i].strength[s] \in Nat
      BY <3>2, BattleFields
    <3>4. QED
      BY <1>2, <3>1, <3>3
  <2>5. QED
    BY <2>2, <2>3, <2>4
<1>11. QED
  BY <1>3, <1>10

(* No order and no step reinforces a battle. *)
THEOREM TroopsHold == Spec => TroopsNeverGrow
BY Coherence, RowsStep, PTL DEF Spec, TroopsNeverGrow

(* A resolved battle is never touched again. *)
THEOREM FinalHolds == Spec => ResolvedIsFinal
BY Coherence, RowsStep, PTL DEF Spec, ResolvedIsFinal

-----------------------------------------------------------------------------
(* Ticks as callers see them: the inductive invariant.                     *)

Status(i) == instances[i].status
(* The battles the tick has opened so far, and those that fight in it or   *)
(* have fought in it.                                                      *)
Opened == {i \in Ids : before[i] = "none" /\ Status(i) # "none"}
Busy(i) == before[i] = "active" \/ i \in Opened
Applied == taken \ todo

Memory ==
  /\ before \in [Ids -> {"none", "active", "resolved"}]
  /\ pending \subseteq Orders /\ taken \subseteq Orders /\ todo \subseteq taken
  /\ phase = "idle" => before = Statuses /\ taken = pending
  /\ phase # "idle" => pending = {}

(* A row is of an encounter that was ordered, and a tick only opens and    *)
(* resolves.                                                               *)
RowsOrdered ==
  \A i \in Ids : Status(i) # "none" =>
    \E o \in Encounters : /\ o.id = i /\ o.army = instances[i].army
                          /\ o.army["attacker"] # o.army["defender"]
OnlyForward ==
  \A i \in Ids : /\ before[i] = "active" => Status(i) \in {"active", "resolved"}
                 /\ before[i] = "resolved" => Status(i) = "resolved"

(* What was opened was asked for and has no rival, and an encounter that   *)
(* was applied and not opened had one.                                     *)
OpenedRight ==
  /\ \A i \in Opened : \E o \in Encounters \cap taken : o.id = i
  /\ \A i \in Opened, j \in Ids : i # j /\ Busy(j) => {i, j} \notin Quarrels
  /\ \A o \in Applied \cap Encounters : before[o.id] = "none" =>
       \/ o.id \in Opened \/ {o.id} \in Quarrels
       \/ \E j \in Ids : j # o.id /\ Busy(j) /\ {o.id, j} \in Quarrels

(* While there are encounters to apply, nothing else was applied and       *)
(* nothing has ended; a battle whose end was applied has ended.            *)
EndsRight ==
  /\ (\E o \in todo : o.kind = "start") =>
       /\ \A o \in Applied : o.kind = "start"
       /\ \A i \in Ids : Status(i) = "resolved" => before[i] = "resolved"
  /\ \A o \in Applied : o.kind = "resolve" => Status(o.id) # "active"

TicksInv ==
  /\ Memory /\ RowsOrdered /\ OnlyForward
  /\ phase # "idle" => OpenedRight /\ EndsRight

-----------------------------------------------------------------------------
(* Orders and rivals.                                                      *)

LEMMA OrderFacts ==
  ASSUME NEW o \in Orders
  PROVE  /\ o \in Order /\ o.id \in Ids
         /\ o.kind = "start" <=> o \in StartOrder
         /\ o.kind \in {"start", "formation", "reserve", "resolve"}
<1>1. o \in Order
  BY ConstantsAssumption
<1>2. QED
  BY <1>1 DEF Order, StartOrder, FormationOrder, ReserveOrder, ResolveOrder

LEMMA EncounterFacts ==
  ASSUME NEW o \in Encounters
  PROVE  o \in Orders /\ o.id \in Ids /\ o.army \in [Sides -> Armies] /\ o.kind = "start"
<1>1. o \in Orders /\ o.kind = "start"
  BY DEF Encounters
<1>2. o \in StartOrder
  BY <1>1, OrderFacts
<1>3. QED
  BY <1>1, <1>2, OrderFacts DEF StartOrder

(* Two battles are rivals when encounters of theirs share an army.         *)
LEMMA QuarrelFacts ==
  ASSUME NEW i, NEW j, i # j
  PROVE  {i, j} \in Quarrels
           <=> \E o, p \in Encounters : o.id = i /\ p.id = j /\ Share(o, p)
<1>1. ASSUME NEW o \in Encounters, NEW p \in Encounters, o.id = i, p.id = j, Share(o, p)
      PROVE  {i, j} \in Quarrels
  <2>1. i \in Ids /\ j \in Ids
    BY <1>1, EncounterFacts
  <2>2. {i, j} \in {{x, y} : x, y \in Ids}
    BY <2>1
  <2>3. QED
    BY <1>1, <2>2 DEF Quarrels
<1>2. ASSUME {i, j} \in Quarrels
      PROVE  \E o, p \in Encounters : o.id = i /\ p.id = j /\ Share(o, p)
  <2>1. PICK o \in Encounters, p \in Encounters :
          /\ {i, j} = {o.id, p.id}
          /\ IF o.id = p.id THEN Selfish(o) ELSE Share(o, p)
    BY <1>2 DEF Quarrels
  <2>2. o.id # p.id
    BY <2>1
  <2>3. Share(o, p) /\ Share(p, o)
    BY <2>1, <2>2 DEF Share
  <2>4. (o.id = i /\ p.id = j) \/ (o.id = j /\ p.id = i)
    BY <2>1
  <2>5. QED
    BY <2>3, <2>4
<1>3. QED
  BY <1>1, <1>2

(* A battle is its own rival when it wants an army for both sides.         *)
LEMMA SelfQuarrel ==
  ASSUME NEW i
  PROVE  {i} \in Quarrels <=> \E o \in Encounters : o.id = i /\ Selfish(o)
<1>1. ASSUME {i} \in Quarrels PROVE \E o \in Encounters : o.id = i /\ Selfish(o)
  <2>1. PICK o \in Encounters, p \in Encounters :
          /\ {i} = {o.id, p.id}
          /\ IF o.id = p.id THEN Selfish(o) ELSE Share(o, p)
    BY <1>1 DEF Quarrels
  <2>2. QED
    BY <2>1
<1>2. ASSUME NEW o \in Encounters, o.id = i, Selfish(o) PROVE {i} \in Quarrels
  <2>1. {i, i} \in {{x, y} : x, y \in Ids}
    BY <1>2, EncounterFacts
  <2>2. {i, i} = {o.id, o.id} /\ {i, i} = {i}
    BY <1>2
  <2>3. QED
    BY <1>2, <2>1, <2>2 DEF Quarrels
<1>3. QED
  BY <1>1, <1>2

-----------------------------------------------------------------------------
(* The steps of a tick.                                                    *)

LEMMA TicksStart == TicksInit => TicksInv
<1> SUFFICES ASSUME TicksInit PROVE TicksInv
  OBVIOUS
<1>1. \A i \in Ids : instances[i].status = "none"
  BY NoBattleType DEF TicksInit, Init
<1>2. before \in [Ids -> {"none", "active", "resolved"}]
  BY <1>1 DEF TicksInit, Statuses
<1>3. QED
  BY <1>1, <1>2 DEF TicksInit, Init, TicksInv, Memory, RowsOrdered, OnlyForward, Status, Statuses

(* Once the encounters are applied, what else is applied opens nothing.    *)
LEMMA TickGoesOn ==
  ASSUME TicksInv, phase # "idle", phase' # "idle", UNCHANGED <<before, taken, pending>>,
         todo' \subseteq todo,
         \A i \in Ids : /\ instances'[i].army = instances[i].army
                        /\ \/ instances'[i].status = instances[i].status
                           \/ instances[i].status = "active" /\ instances'[i].status = "resolved",
         \A o \in todo \ todo' : /\ o.kind # "start"
                                 /\ o.kind = "resolve" => instances'[o.id].status # "active",
         \/ todo' = todo /\ \A i \in Ids : instances'[i].status = instances[i].status
         \/ \A o \in todo : o.kind # "start"
  PROVE  TicksInv'
<1>1. Opened' = Opened /\ \A i \in Ids : Busy(i)' = Busy(i)
  BY DEF Opened, Busy, Status
<1>2. Memory'
  BY DEF TicksInv, Memory
<1>3. RowsOrdered' /\ OnlyForward'
  <2>1. RowsOrdered'
    BY DEF TicksInv, RowsOrdered, Status
  <2>2. OnlyForward'
    BY DEF TicksInv, OnlyForward, Status
  <2>3. QED
    BY <2>1, <2>2
<1>4. Applied' \cap Encounters = Applied \cap Encounters /\ Applied \subseteq Applied'
  BY DEF Applied, Encounters
<1>5. OpenedRight'
  <2>1. \A o \in Encounters : o.id \in Ids
    BY EncounterFacts
  <2>2. /\ \A i \in Opened' : \E o \in Encounters \cap taken' : o.id = i
        /\ \A i \in Opened', j \in Ids : i # j /\ Busy(j)' => {i, j} \notin Quarrels
    BY <1>1 DEF TicksInv, OpenedRight
  <2>3. \A o \in Applied' \cap Encounters : before'[o.id] = "none" =>
          \/ o.id \in Opened' \/ {o.id} \in Quarrels
          \/ \E j \in Ids : j # o.id /\ Busy(j)' /\ {o.id, j} \in Quarrels
    BY <1>1, <1>4, <2>1 DEF TicksInv, OpenedRight
  <2>4. QED
    BY <2>2, <2>3 DEF OpenedRight
<1>6. EndsRight'
  <2>1. ASSUME \E o \in todo' : o.kind = "start"
        PROVE  /\ \A o \in Applied' : o.kind = "start"
               /\ \A i \in Ids : instances'[i].status = "resolved" => before'[i] = "resolved"
    <3>1. todo' = todo /\ \A i \in Ids : instances'[i].status = instances[i].status
      BY <2>1
    <3>2. QED
      BY <2>1, <3>1 DEF TicksInv, EndsRight, Applied, Status
  <2>2. ASSUME NEW o \in Applied', o.kind = "resolve" PROVE instances'[o.id].status # "active"
    <3>1. CASE o \in todo
      BY <2>2, <3>1 DEF Applied
    <3>2. CASE o \notin todo
      <4>1. o \in Applied /\ o \in Orders
        BY <3>2, <2>2 DEF Applied, TicksInv, Memory
      <4>2. o.id \in Ids /\ instances[o.id].status # "active"
        BY <2>2, <4>1, OrderFacts DEF TicksInv, EndsRight, Status
      <4>3. QED
        BY <4>2
    <3>3. QED
      BY <3>1, <3>2
  <2>3. QED
    BY <2>1, <2>2 DEF EndsRight, Status
<1>7. QED
  BY <1>2, <1>3, <1>5, <1>6 DEF TicksInv

(* An encounter is opened unless its battle is known or has a rival.       *)
LEMMA StartTicks ==
  ASSUME OneEncounterEach, IndInv, TicksInv, NEW o \in todo, StartEncounter(o), Remember
  PROVE  TicksInv'
<1>1. /\ phase = "orders" /\ phase' = "orders" /\ o.kind = "start" /\ o \in Orders /\ o \in taken
      /\ todo' = todo \ {o} /\ UNCHANGED <<before, taken, pending>>
  BY DEF StartEncounter, Take, Remember, TicksInv, Memory
<1>2. o.id \in Ids /\ o \in StartOrder
  BY <1>1, OrderFacts
<1>3. /\ \A p \in Applied : p.kind = "start"
      /\ \A i \in Ids : Status(i) = "resolved" => before[i] = "resolved"
  BY <1>1 DEF TicksInv, EndsRight
<1>4. \A i \in Ids : Busy(i) => i \in Active
  BY <1>3 DEF TicksInv, OnlyForward, Busy, Opened, Active, Status, IndInv, TypeOK, Battle
<1>5. \A i \in Active : Busy(i)
  BY <1>1 DEF TicksInv, Memory, OnlyForward, Busy, Opened, Active, Status
<1>6. Applied' = Applied \cup {o}
  BY <1>1 DEF Applied
<1>7. Memory'
  BY <1>1 DEF TicksInv, Memory
<1>8. \A p \in Applied' : p.kind = "start"
  BY <1>1, <1>3, <1>6
<1>9. \A i, j \in Ids : i # j /\ {i, j} \in Quarrels =>
        \E x, y \in Encounters : x.id = i /\ y.id = j /\ Share(x, y)
  BY QuarrelFacts
<1>10. \A i \in Active : \E p \in Encounters : p.id = i /\ p.army = instances[i].army
  BY DEF TicksInv, RowsOrdered, Active, Status
<1>11. CASE Startable(o)
  <2> DEFINE b == [NoBattle EXCEPT !.status = "active", !.army = o.army,
                     !.initial = o.strength, !.strength = o.strength,
                     !.reserve = [s \in Sides |-> o.strength[s] \div 5],
                     !.started = tick, !.last = tick]
  <2>1. instances' = [instances EXCEPT ![o.id] = b]
    BY <1>11 DEF StartEncounter
  <2>2. b.status = "active" /\ b.army = o.army
    <3>1. tick \in Nat
      BY DEF IndInv, TypeOK
    <3>2. QED
      BY <1>2, <3>1, OpenedType
  <2> HIDE DEF b
  <2>3. /\ instances'[o.id] = b
        /\ \A i \in Ids : i # o.id => instances'[i] = instances[i]
    BY <1>2, <2>1 DEF IndInv, TypeOK
  <2>4. /\ instances[o.id].status = "none" /\ ~Engaged(o) /\ o \in Encounters
        /\ o.army["attacker"] # o.army["defender"]
    BY <1>1, <1>11 DEF Startable, Encounters
  <2>5. before[o.id] = "none"
    BY <1>2, <2>4 DEF TicksInv, Memory, OnlyForward, Status
  <2>6. /\ Opened' = Opened \cup {o.id} /\ o.id \notin Opened
        /\ \A i \in Ids : Busy(i)' <=> Busy(i) \/ i = o.id
    BY <1>1, <1>2, <2>2, <2>3, <2>4, <2>5 DEF Opened, Busy, Status
  <2>7. RowsOrdered'
    BY <2>2, <2>3, <2>4 DEF TicksInv, RowsOrdered, Status
  <2>8. OnlyForward'
    BY <1>1, <2>3, <2>5 DEF TicksInv, OnlyForward, Status
  <2>9. ASSUME NEW j \in Ids, j # o.id, Busy(j) PROVE {o.id, j} \notin Quarrels
    <3> SUFFICES ASSUME {o.id, j} \in Quarrels PROVE FALSE
      OBVIOUS
    <3>1. PICK x \in Encounters, y \in Encounters : x.id = o.id /\ y.id = j /\ Share(x, y)
      BY <1>2, <1>9, <2>9
    <3>2. j \in Active
      BY <1>4, <2>9
    <3>3. x.army = o.army /\ y.army = instances[j].army
      BY <1>10, <2>4, <3>1, <3>2 DEF OneEncounterEach
    <3>4. QED
      BY <2>4, <3>1, <3>2, <3>3 DEF Share, Engaged
  <2>10. OpenedRight'
    <3>1. ASSUME NEW i \in Opened' PROVE \E p \in Encounters \cap taken' : p.id = i
      BY <1>1, <2>4, <2>6, <3>1 DEF TicksInv, OpenedRight
    <3>2. ASSUME NEW i \in Opened', NEW j \in Ids, i # j, Busy(j)' PROVE {i, j} \notin Quarrels
      <4>1. {i, j} = {j, i}
        OBVIOUS
      <4>2. CASE i = o.id
        BY <2>6, <2>9, <3>2, <4>2
      <4>3. CASE j = o.id
        <5>1. i \in Opened /\ i \in Ids
          BY <2>6, <3>2, <4>3 DEF Opened
        <5>2. QED
          BY <2>9, <3>2, <4>1, <4>3, <5>1 DEF Busy
      <4>4. CASE i # o.id /\ j # o.id
        BY <1>1, <2>6, <3>2, <4>4 DEF TicksInv, OpenedRight
      <4>5. QED
        BY <4>2, <4>3, <4>4
    <3>3. ASSUME NEW p \in Applied' \cap Encounters, before'[p.id] = "none"
          PROVE  \/ p.id \in Opened' \/ {p.id} \in Quarrels
                 \/ \E j \in Ids : j # p.id /\ Busy(j)' /\ {p.id, j} \in Quarrels
      <4>1. CASE p = o
        BY <2>6, <4>1
      <4>2. CASE p \in Applied
        BY <1>1, <2>6, <3>3, <4>2 DEF TicksInv, OpenedRight
      <4>3. QED
        BY <1>6, <4>1, <4>2
    <3>4. QED
      BY <3>1, <3>2, <3>3 DEF OpenedRight
  <2>11. EndsRight'
    <3>1. \A i \in Ids : instances'[i].status = "resolved" => before'[i] = "resolved"
      BY <1>1, <1>3, <2>2, <2>3 DEF Status
    <3>2. QED
      BY <1>8, <3>1 DEF EndsRight, Status
  <2>12. QED
    BY <1>7, <2>7, <2>8, <2>10, <2>11 DEF TicksInv
<1>12. CASE ~Startable(o)
  <2>1. instances' = instances
    BY <1>12 DEF StartEncounter
  <2>2. Opened' = Opened /\ \A i \in Ids : Busy(i)' = Busy(i)
    BY <1>1, <2>1 DEF Opened, Busy, Status
  <2>3. RowsOrdered' /\ OnlyForward'
    BY <1>1, <2>1 DEF TicksInv, RowsOrdered, OnlyForward, Status
  <2>4. ASSUME o \in Encounters, before[o.id] = "none", o.id \notin Opened
        PROVE  \/ {o.id} \in Quarrels
               \/ \E j \in Ids : j # o.id /\ Busy(j) /\ {o.id, j} \in Quarrels
    <3>1. instances[o.id].status = "none"
      BY <1>2, <2>4 DEF Opened, Status
    <3>2. CASE o.army["attacker"] = o.army["defender"]
      BY <2>4, <3>2, SelfQuarrel DEF Selfish
    <3>3. CASE Engaged(o)
      <4>1. PICK i \in Active : \E s, r \in Sides : instances[i].army[s] = o.army[r]
        BY <3>3 DEF Engaged
      <4>2. PICK p \in Encounters : p.id = i /\ p.army = instances[i].army
        BY <1>10
      <4>3. Share(o, p)
        BY <4>1, <4>2 DEF Share
      <4>4. i \in Ids /\ i # o.id
        BY <3>1 DEF Active
      <4>5. {o.id, i} \in Quarrels
        BY <2>4, <4>2, <4>3, <4>4, QuarrelFacts
      <4>6. QED
        BY <1>5, <4>4, <4>5
    <3>4. QED
      BY <1>12, <2>4, <3>1, <3>2, <3>3 DEF Startable, Encounters
  <2>5. OpenedRight'
    <3>1. /\ \A i \in Opened' : \E p \in Encounters \cap taken' : p.id = i
          /\ \A i \in Opened', j \in Ids : i # j /\ Busy(j)' => {i, j} \notin Quarrels
      BY <1>1, <2>2 DEF TicksInv, OpenedRight
    <3>2. ASSUME NEW p \in Applied' \cap Encounters, before'[p.id] = "none"
          PROVE  \/ p.id \in Opened' \/ {p.id} \in Quarrels
                 \/ \E j \in Ids : j # p.id /\ Busy(j)' /\ {p.id, j} \in Quarrels
      <4>1. CASE p = o
        BY <1>1, <2>2, <2>4, <3>2, <4>1
      <4>2. CASE p \in Applied
        BY <1>1, <2>2, <3>2, <4>2 DEF TicksInv, OpenedRight
      <4>3. QED
        BY <1>6, <4>1, <4>2
    <3>3. QED
      BY <3>1, <3>2 DEF OpenedRight
  <2>6. EndsRight'
    BY <1>1, <1>3, <1>8, <2>1 DEF EndsRight, Status
  <2>7. QED
    BY <1>7, <2>3, <2>5, <2>6 DEF TicksInv
<1>13. QED
  BY <1>11, <1>12

(* A row of a battle is replaced by one that keeps its armies.             *)
LEMMA RowTicks ==
  ASSUME instances \in [Ids -> Battle], NEW i \in Ids, NEW b,
         instances' = [instances EXCEPT ![i] = b], b.army = instances[i].army,
         b.status = instances[i].status
           \/ (instances[i].status = "active" /\ b.status = "resolved")
  PROVE  \A j \in Ids : /\ instances'[j].army = instances[j].army
                        /\ \/ instances'[j].status = instances[j].status
                           \/ instances[j].status = "active" /\ instances'[j].status = "resolved"
<1> TAKE j \in Ids
<1>1. CASE j = i
  <2>1. instances'[j] = b
    BY <1>1
  <2>2. QED
    BY <1>1, <2>1
<1>2. CASE j # i
  <2>1. instances'[j] = instances[j]
    BY <1>2
  <2>2. QED
    BY <2>1
<1>3. QED
  BY <1>1, <1>2

(* The other orders, the advance of a battle, and the steps between them.  *)
LEMMA OrderTicks ==
  ASSUME IndInv, TicksInv, NEW o \in todo, SetFormation(o) \/ DeployReserve(o) \/ ForceResolve(o),
         Remember
  PROVE  TicksInv'
<1>1. /\ phase = "orders" /\ phase' = "orders" /\ o \in Orders
      /\ todo' = todo \ {o} /\ UNCHANGED <<before, taken, pending>>
      /\ o.kind # "start" /\ \A p \in todo : Priority[o.kind] <= Priority[p.kind]
  BY DEF SetFormation, DeployReserve, ForceResolve, Take, Remember, TicksInv, Memory
<1>2. \A p \in todo : p.kind # "start"
  <2>1. o.kind \in {"formation", "reserve", "resolve"}
    BY <1>1, OrderFacts
  <2>2. Priority["start"] = 0 /\ Priority[o.kind] \in {1, 2, 3}
    BY <2>1 DEF Priority
  <2>3. QED
    BY <1>1, <2>2
<1>3. o.id \in Ids /\ instances \in [Ids -> Battle]
  BY <1>1, OrderFacts DEF IndInv, TypeOK
<1>4. /\ \A i \in Ids : /\ instances'[i].army = instances[i].army
                        /\ \/ instances'[i].status = instances[i].status
                           \/ instances[i].status = "active" /\ instances'[i].status = "resolved"
      /\ o.kind = "resolve" => instances'[o.id].status # "active"
  <2> DEFINE row == instances[o.id]
  <2>r. row \in Battle
    BY <1>3
  <2>1. CASE SetFormation(o)
    <3>1. CASE o.id \notin Active
      BY <2>1, <3>1 DEF SetFormation
    <3>2. CASE o.id \in Active
      <4> DEFINE b == [row EXCEPT !.formation[o.side] = o.formation]
      <4>1. b.status = row.status /\ b.army = row.army
        BY <2>r DEF Battle
      <4>2. instances' = [instances EXCEPT ![o.id] = b] /\ o.kind = "formation"
        BY <2>1, <3>2 DEF SetFormation
      <4> HIDE DEF b
      <4>3. QED
        BY <1>3, <4>1, <4>2, RowTicks
    <3>3. QED
      BY <3>1, <3>2
  <2>2. CASE DeployReserve(o)
    <3>1. CASE ~Deployable(o)
      BY <2>2, <3>1 DEF DeployReserve
    <3>2. CASE Deployable(o)
      <4> DEFINE sent == AtMost(o.reserve, row.reserve[o.side])
                 b == [row EXCEPT !.reserve[o.side] = @ - sent,
                         !.strength[o.side] = @ + sent, !.deployed[o.side] = TRUE]
      <4>1. b.status = row.status /\ b.army = row.army
        BY <2>r DEF Battle
      <4>2. instances' = [instances EXCEPT ![o.id] = b] /\ o.kind = "reserve"
        BY <1>3, <2>2, <3>2 DEF DeployReserve
      <4> HIDE DEF b, sent
      <4>3. QED
        BY <1>3, <4>1, <4>2, RowTicks
    <3>3. QED
      BY <3>1, <3>2
  <2>3. CASE ForceResolve(o) /\ o.id \notin Active
    BY <1>3, <2>3 DEF ForceResolve, Active
  <2>4. CASE ForceResolve(o) /\ o.id \in Active
    <3> DEFINE b == [[row EXCEPT !.last = tick] EXCEPT !.status = "resolved"]
    <3>1. instances' = [instances EXCEPT ![o.id] = b]
      BY <2>4 DEF ForceResolve, Resolve
    <3>2. row.status = "active"
      BY <2>4 DEF Active
    <3>3. b.status = "resolved" /\ b.army = row.army
      BY <2>r DEF Battle
    <3> HIDE DEF b
    <3>4. instances'[o.id] = b
      BY <1>3, <3>1
    <3>5. QED
      BY <1>3, <3>1, <3>2, <3>3, <3>4, RowTicks
  <2>5. QED
    BY <2>1, <2>2, <2>3, <2>4
<1>5. QED
  BY <1>1, <1>2, <1>4, TickGoesOn

LEMMA AdvanceTicks ==
  ASSUME IndInv, TicksInv, NEW i \in Ids, AdvanceInstance(i), Remember
  PROVE  TicksInv'
<1>1. /\ phase = "instances" /\ phase' = "instances" /\ todo' = todo /\ todo = {}
      /\ UNCHANGED <<before, taken, pending>>
  BY DEF AdvanceInstance, Remember, IndInv, LeftCoherent
<1>2. PICK b \in Battle : /\ b.status = "active" /\ b.army = instances[i].army
                          /\ \/ Resolve(i, b)
                             \/ instances' = [instances EXCEPT ![i] = b]
  BY AdvanceFacts
<1>3. instances[i].status = "active" /\ instances \in [Ids -> Battle]
  BY AdvanceFacts DEF Active, IndInv, TypeOK
<1>4. \A j \in Ids : /\ instances'[j].army = instances[j].army
                     /\ \/ instances'[j].status = instances[j].status
                        \/ instances[j].status = "active" /\ instances'[j].status = "resolved"
  <2>1. CASE Resolve(i, b)
    <3> DEFINE c == [b EXCEPT !.status = "resolved"]
    <3>1. instances' = [instances EXCEPT ![i] = c]
      BY <2>1 DEF Resolve
    <3>2. c.status = "resolved" /\ c.army = b.army
      BY DEF Battle
    <3> HIDE DEF c
    <3>3. QED
      BY <1>2, <1>3, <3>1, <3>2, RowTicks
  <2>2. CASE instances' = [instances EXCEPT ![i] = b]
    BY <1>2, <1>3, <2>2, RowTicks
  <2>3. QED
    BY <1>2, <2>1, <2>2
<1>5. QED
  BY <1>1, <1>4, TickGoesOn

LEMMA OtherTicks ==
  ASSUME IndInv, TicksInv, Remember,
         (\E o \in Orders : QueueOrder(o)) \/ BeginTick \/ OrdersDone \/ EndTick
  PROVE  TicksInv'
<1>1. instances' = instances /\ Statuses' = Statuses
  BY DEF QueueOrder, BeginTick, OrdersDone, EndTick, Statuses
<1>2. RowsOrdered'
  BY <1>1 DEF TicksInv, RowsOrdered, Status
<1>3. Statuses \in [Ids -> {"none", "active", "resolved"}]
  BY DEF Statuses, IndInv, TypeOK, Battle
<1>4. CASE \E o \in Orders : QueueOrder(o)
  <2>1. phase' = "idle" /\ before' = Statuses' /\ taken' = pending' /\ pending' \subseteq Orders /\ todo' = {}
    BY <1>4 DEF QueueOrder, Remember, TicksInv, Memory, IndInv, LeftCoherent
  <2>2. Memory' /\ OnlyForward'
    BY <1>1, <1>3, <2>1 DEF Memory, OnlyForward, Statuses, Status
  <2>3. QED
    BY <1>2, <2>1, <2>2 DEF TicksInv
<1>5. CASE BeginTick
  <2>1. /\ phase = "idle" /\ phase' = "orders" /\ before' = before /\ taken' = taken /\ before = Statuses
        /\ todo' = taken' /\ pending' = {} /\ taken \subseteq Orders
    BY <1>5 DEF BeginTick, Remember, TicksInv, Memory
  <2>2. Memory'
    BY <2>1 DEF TicksInv, Memory
  <2>3. OnlyForward' /\ Opened' = {} /\ Applied' = {}
    BY <1>1, <2>1 DEF OnlyForward, Opened, Applied, Statuses, Status
  <2>4. OpenedRight'
    BY <2>3 DEF OpenedRight
  <2>5. EndsRight'
    BY <1>1, <2>1, <2>3 DEF EndsRight, Statuses, Status
  <2>6. QED
    BY <1>2, <2>2, <2>3, <2>4, <2>5 DEF TicksInv
<1>6. CASE OrdersDone
  <2>1. /\ phase = "orders" /\ phase' = "instances" /\ todo' = todo
        /\ UNCHANGED <<before, taken, pending>>
    BY <1>6 DEF OrdersDone, Remember
  <2>2. QED
    BY <1>1, <2>1, TickGoesOn
<1>7. CASE EndTick
  <2>1. phase' = "idle" /\ before' = Statuses' /\ taken' = pending' /\ pending' = {} /\ todo' = {}
    BY <1>7 DEF EndTick, Remember, TicksInv, Memory, IndInv, LeftCoherent
  <2>2. Memory' /\ OnlyForward'
    BY <1>1, <1>3, <2>1 DEF Memory, OnlyForward, Statuses, Status
  <2>3. QED
    BY <1>2, <2>1, <2>2 DEF TicksInv
<1>8. QED
  BY <1>4, <1>5, <1>6, <1>7

LEMMA TicksStep ==
  ASSUME OneEncounterEach, IndInv, TicksInv, [TicksNext]_tickVars
  PROVE  TicksInv'
<1>1. CASE UNCHANGED tickVars
  BY <1>1 DEF tickVars, vars, TicksInv, Memory, RowsOrdered, OnlyForward, OpenedRight, EndsRight,
     Opened, Busy, Applied, Status, Statuses
<1>2. CASE TicksNext
  BY <1>2, StartTicks, OrderTicks, AdvanceTicks, OtherTicks DEF TicksNext, Next, AdvanceTick, Apply
<1>3. QED
  BY <1>1, <1>2

-----------------------------------------------------------------------------
(* The steps of a tick, seen by callers.                                   *)

(* The encounters that a tick opens are as many as their armies allow.     *)
LEMMA OpensAll ==
  ASSUME OneEncounterEach, TicksInv, phase # "idle", todo = {}
  PROVE  Seen!Opens(before, CommandsOf(taken), Opened)
<1> DEFINE q == CommandsOf(taken)
<1>1. Applied = taken /\ taken \subseteq Orders
  BY DEF Applied, TicksInv, Memory
<1>2. \A i \in Ids : Seen!Asked(q, "start", i) <=> \E o \in Encounters \cap taken : o.id = i
  <2> TAKE i \in Ids
  <2>1. ASSUME NEW o \in Encounters \cap taken, o.id = i PROVE Seen!Asked(q, "start", i)
    <3>1. CommandOf(o) \in q /\ CommandOf(o).order = "start" /\ CommandOf(o).of = i
      BY <2>1 DEF CommandsOf, CommandOf
    <3>2. QED
      BY <3>1 DEF Seen!Asked
  <2>2. ASSUME Seen!Asked(q, "start", i) PROVE \E o \in Encounters \cap taken : o.id = i
    <3>1. PICK o \in taken : CommandOf(o).order = "start" /\ CommandOf(o).of = i
      BY <2>2 DEF Seen!Asked, CommandsOf
    <3>2. QED
      BY <3>1 DEF CommandOf
  <2>3. QED
    BY <2>1, <2>2
<1> HIDE DEF q
<1>3. /\ Opened \subseteq Ids
      /\ \A i \in Opened : before[i] = "none" /\ Busy(i)
      /\ \A j \in Ids : Busy(j) <=> j \in Seen!Active(before) \/ j \in Opened
  BY DEF Opened, Busy, Seen!Active
<1>4. \A i \in Opened : {i} \notin Quarrels
  <2> SUFFICES ASSUME NEW i \in Opened, {i} \in Quarrels PROVE FALSE
    OBVIOUS
  <2>1. PICK o \in Encounters : /\ o.id = i /\ o.army = instances[i].army
                                /\ o.army["attacker"] # o.army["defender"]
    BY DEF Opened, TicksInv, RowsOrdered
  <2>2. PICK p \in Encounters : p.id = i /\ Selfish(p)
    BY SelfQuarrel
  <2>3. p.army = o.army
    BY <2>1, <2>2 DEF OneEncounterEach
  <2>4. QED
    BY <2>1, <2>2, <2>3 DEF Selfish
<1>5. OpenedRight
  BY DEF TicksInv
<1>6. Opened \subseteq Seen!Openable(before, q)
  <2> SUFFICES ASSUME NEW i \in Opened PROVE i \in Seen!Openable(before, q)
    OBVIOUS
  <2>1. Seen!Asked(q, "start", i)
    BY <1>2, <1>3, <1>5 DEF OpenedRight
  <2>2. ASSUME NEW j \in Seen!Active(before) PROVE {i, j} \notin Quarrels
    <3>1. j \in Ids /\ before[j] = "active" /\ Busy(j) /\ i # j
      BY <1>3 DEF Seen!Active
    <3>2. QED
      BY <1>3, <1>5, <3>1 DEF OpenedRight
  <2>3. QED
    BY <1>3, <1>4, <2>1, <2>2 DEF Seen!Openable
<1>7. Seen!Compatible(Opened)
  BY <1>3, <1>5 DEF Seen!Compatible, OpenedRight
<1>8. ASSUME NEW i \in Seen!Openable(before, q) \ Opened
      PROVE  ~Seen!Compatible(Opened \cup {i})
  <2>1. /\ i \in Ids /\ before[i] = "none" /\ {i} \notin Quarrels /\ i \notin Opened
        /\ Seen!Asked(q, "start", i) /\ \A j \in Seen!Active(before) : {i, j} \notin Quarrels
    BY <1>8 DEF Seen!Openable
  <2>2. PICK o \in Encounters \cap taken : o.id = i
    BY <1>2, <2>1
  <2>3. PICK j \in Ids : j # i /\ Busy(j) /\ {i, j} \in Quarrels
    BY <1>1, <1>5, <2>1, <2>2 DEF OpenedRight
  <2>4. j \in Opened
    BY <1>3, <2>1, <2>3
  <2>5. QED
    BY <2>3, <2>4 DEF Seen!Compatible
<1>9. QED
  BY <1>6, <1>7, <1>8 DEF Seen!Opens, q

(* The end of a tick: the battles it decided are those that are resolved   *)
(* now and were not before.                                                *)
LEMMA EndSeen ==
  ASSUME OneEncounterEach, IndInv, TicksInv, EndTick, Remember
  PROVE  Seen!RunQueue
<1> DEFINE q == CommandsOf(taken)
           Won == {i \in Ids : Status(i) = "resolved" /\ before[i] # "resolved"}
<1>1. /\ phase = "instances" /\ todo = {} /\ pending = {} /\ instances' = instances
      /\ before' = Statuses /\ taken' = {}
  BY DEF EndTick, Remember, IndInv, LeftCoherent, TicksInv, Memory, Statuses
<1>2. Seen!Opens(before, q, Opened)
  BY <1>1, OpensAll
<1>3. /\ \A i \in Ids : Status(i) \in {"none", "active", "resolved"}
      /\ \A i \in Ids : before[i] \in {"none", "active", "resolved"}
      /\ \A i \in Ids : /\ before[i] = "active" => Status(i) \in {"active", "resolved"}
                        /\ before[i] = "resolved" => Status(i) = "resolved"
  BY DEF IndInv, TypeOK, Battle, Status, TicksInv, Memory, OnlyForward
<1>4. Won \subseteq Seen!Active(before) \cup Opened
  BY <1>3 DEF Seen!Active, Opened
<1>5. ASSUME NEW i \in Seen!Active(before) \cup Opened, Seen!Asked(q, "resolve", i)
      PROVE  i \in Won
  <2>1. PICK o \in taken : CommandOf(o).order = "resolve" /\ CommandOf(o).of = i
    BY <1>5 DEF Seen!Asked, CommandsOf
  <2>2. o.kind = "resolve" /\ o.id = i /\ o \in Applied
    BY <1>1, <2>1 DEF CommandOf, Applied
  <2>3. i \in Ids /\ Status(i) # "active"
    BY <1>1, <1>5, <2>2 DEF TicksInv, EndsRight, Seen!Active, Opened
  <2>4. Status(i) = "resolved" /\ before[i] # "resolved"
    BY <1>3, <1>5, <2>3 DEF Seen!Active, Opened
  <2>5. QED
    BY <2>3, <2>4
<1>6. Statuses = Seen!Outcome(before, Opened, Won)
  <2>1. ASSUME NEW i \in Ids
        PROVE  Status(i) = IF i \in Won THEN "resolved"
                           ELSE IF i \in Opened THEN "active" ELSE before[i]
    BY <1>3 DEF Opened
  <2>2. QED
    BY <2>1 DEF Statuses, Status, Seen!Outcome
<1>7. CommandsOf(taken') = {}
  BY <1>1 DEF CommandsOf
<1>8. Won \in SUBSET Ids /\ Opened \in SUBSET Ids
  BY DEF Opened
<1> HIDE DEF q, Won
<1>9. Seen!Fought(before, q, before')
  BY <1>1, <1>2, <1>4, <1>5, <1>6, <1>8 DEF Seen!Fought
<1>10. QED
  BY <1>7, <1>9 DEF Seen!RunQueue, q

LEMMA QueueSeen ==
  ASSUME IndInv, TicksInv, NEW o \in Orders, QueueOrder(o), Remember
  PROVE  \E c \in Seen!Command : Seen!QueueCommand(c)
<1>1. phase' = "idle" /\ phase = "idle" /\ instances' = instances /\ pending' = pending \cup {o}
  BY DEF QueueOrder
<1>2. before' = before /\ taken' = taken \cup {o}
  BY <1>1 DEF Remember, Statuses, TicksInv, Memory
<1>3. CommandsOf(taken') = CommandsOf(taken) \cup {CommandOf(o)}
  BY <1>2 DEF CommandsOf
<1>4. CommandOf(o) \in Seen!Command
  BY OrderFacts DEF CommandOf, Seen!Command, Seen!CommandKinds
<1>5. QED
  BY <1>2, <1>3, <1>4 DEF Seen!QueueCommand

(* Every step is a step of BattleLives or one that callers do not see.     *)
LEMMA StepSeen ==
  ASSUME OneEncounterEach, IndInv, TicksInv, [TicksNext]_tickVars
  PROVE  [Seen!RunQueue \/ \E c \in Seen!Command : Seen!QueueCommand(c)]_<<CommandsOf(taken), before>>
<1>1. CASE UNCHANGED tickVars
  BY <1>1 DEF tickVars, CommandsOf, CommandOf
<1>2. CASE TicksNext
  <2>1. CASE \E o \in Orders : QueueOrder(o)
    BY <1>2, <2>1, QueueSeen DEF TicksNext
  <2>2. CASE EndTick
    BY <1>2, <2>2, EndSeen DEF TicksNext
  <2>3. CASE BeginTick \/ (\E o \in todo : Apply(o)) \/ OrdersDone \/ \E i \in Ids : AdvanceInstance(i)
    <3>1. phase' # "idle"
      BY <2>3 DEF BeginTick, Apply, StartEncounter, SetFormation, DeployReserve, ForceResolve, Take,
         OrdersDone, AdvanceInstance
    <3>2. before' = before /\ taken' = taken
      BY <1>2, <3>1 DEF TicksNext, Remember
    <3>3. QED
      BY <3>2 DEF CommandsOf
  <2>4. QED
    BY <1>2, <2>1, <2>2, <2>3 DEF TicksNext, Next, AdvanceTick
<1>3. QED
  BY <1>1, <1>2

(* A tick that applies its orders and advances its battles one by one is,  *)
(* for callers, a tick of the queue all at once.                           *)
THEOREM TicksSeenAsLives ==
  ASSUME OneEncounterEach
  PROVE  TicksSpec => SeenAsLives
<1>1. TicksInit => IndInv /\ TicksInv /\ Seen!NoBattles
  <2> SUFFICES ASSUME TicksInit PROVE IndInv /\ TicksInv /\ Seen!NoBattles
    OBVIOUS
  <2>1. IndInv /\ TicksInv
    BY InitInv, TicksStart DEF TicksInit
  <2>2. CommandsOf(taken) = {}
    BY DEF TicksInit, Init, CommandsOf
  <2>3. before = [i \in Ids |-> "none"]
    BY NoBattleType DEF TicksInit, Init, Statuses
  <2>4. QED
    BY <2>1, <2>2, <2>3 DEF Seen!NoBattles
<1>2. IndInv /\ TicksInv /\ [TicksNext]_tickVars => IndInv' /\ TicksInv'
  <2>1. [TicksNext]_tickVars => [Next]_vars
    BY DEF TicksNext, tickVars
  <2>2. QED
    BY <2>1, NextInv, TicksStep
<1>3. IndInv /\ TicksInv /\ [TicksNext]_tickVars =>
        [Seen!RunQueue \/ \E c \in Seen!Command : Seen!QueueCommand(c)]_<<CommandsOf(taken), before>>
  BY StepSeen
<1>4. QED
  BY <1>1, <1>2, <1>3, PTL DEF TicksSpec, SeenAsLives, Seen!LivesSpec
=============================================================================
