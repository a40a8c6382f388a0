----------------------------- MODULE BattleTicks -----------------------------
(* BattleWorld seen from outside the tick runner, which holds its mutex for *)
(* a whole tick: what a caller can read is the state between ticks, and in  *)
(* a tick that of its beginning.  Two history variables keep that one.      *)
EXTENDS BattleWorld

VARIABLES
  before,     \* history: what had become of each battle between the ticks
  taken       \* history: the orders that were queued there

tickVars == <<vars, before, taken>>

Statuses == [i \in Ids |-> instances[i].status]

TicksInit == Init /\ before = Statuses /\ taken = pending
Remember ==
  /\ before' = IF phase' = "idle" THEN Statuses' ELSE before
  /\ taken' = IF phase' = "idle" THEN pending' ELSE taken
TicksNext == Next /\ Remember
TicksSpec == TicksInit /\ [][TicksNext]_tickVars

(* The fairness of FairSpec, with the history. *)
FairTicksSpec == TicksSpec /\ WF_vars(AdvanceTick)

(* The encounters that could be fought, and who wants the armies of whom.  *)
Encounters == {o \in Orders : o.kind = "start" /\ \A s \in Sides : o.strength[s] # 0}
Share(o, p) == \E s, r \in Sides : o.army[s] = p.army[r]
Selfish(o) == o.army["attacker"] = o.army["defender"]
Quarrels == {q \in {{i, j} : i, j \in Ids} :
               \E o, p \in Encounters : /\ q = {o.id, p.id}
                                        /\ IF o.id = p.id THEN Selfish(o) ELSE Share(o, p)}

CommandOf(o) == [order |-> IF o \in Encounters THEN "start"
                           ELSE IF o.kind = "resolve" THEN "resolve" ELSE "other",
                 of |-> o.id]
CommandsOf(S) == {CommandOf(o) : o \in S}

Seen == INSTANCE BattleLives
  WITH Instances <- Ids, NoInstance <- -1, Rivals <- Quarrels,
       life <- before, queue <- CommandsOf(taken)

(* Routes make the id of an encounter from the character and the time, so  *)
(* that no two of them share it; where two do, an id does not tell which   *)
(* armies it wants, and the theorem says nothing.                          *)
OneEncounterEach == \A o, p \in Encounters : o.id = p.id => o.army = p.army

(* Whatever the order in which a tick applies its orders and advances its  *)
(* battles, callers see a tick of BattleLives: it opens as many encounters *)
(* as their armies allow, ends what it was told to end, and decides none   *)
(* twice.                                                                  *)
SeenAsLives == Seen!LivesSpec
=============================================================================
