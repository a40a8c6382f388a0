------------------------- MODULE WorldControlProofs -------------------------
(* The safety properties of WorldControl, proved for any threads, battles, *)
(* rivalries, tick interval, snapshot size and client-supplied times.      *)
EXTENDS WorldControl, TLAPS

-----------------------------------------------------------------------------
(* Moments, scripts and ticks.                                             *)

(* Moments are ordered. *)
LEMMA MomentOrder ==
  ASSUME NEW l \in Moment, NEW m \in Moment, NEW n \in Moment
  PROVE  /\ NotBefore(m, m)
         /\ NotBefore(l, m) /\ NotBefore(m, n) => NotBefore(l, n)
BY DEF Moment, NotBefore

(* The present is a moment. *)
LEMMA PresentType == ASSUME TypeOK PROVE Present \in Moment
BY DEF TypeOK, Present, Moment

(* What the scripts of the routes are made of. *)
LEMMA ScriptFacts ==
  ASSUME NEW kind \in RequestKinds
  PROVE  /\ Len(Script(kind)) \in Nat
         /\ \A k \in 1..Len(Script(kind)) : Script(kind)[k] \in CommandKinds
         /\ \A k \in 1..Len(Script(kind)) : Script(kind)[k] = "start" => kind \in {"start", "slice"}
         /\ kind = "slice" => Len(Script(kind)) = 5 /\ Script(kind)[5] = "resolve"
         /\ Script(kind) # <<>> => 0 < Len(Script(kind))
<1>1. CASE kind = "sync"
  BY <1>1 DEF Script, CommandKinds
<1>2. CASE kind = "start"
  BY <1>2 DEF Script, CommandKinds
<1>3. CASE kind = "resolve"
  BY <1>3 DEF Script, CommandKinds
<1>4. CASE kind = "formation"
  BY <1>4 DEF Script, CommandKinds
<1>5. CASE kind = "action"
  BY <1>5 DEF Script, CommandKinds
<1>6. CASE kind = "slice"
  BY <1>6 DEF Script, CommandKinds
<1>7. QED
  BY <1>1, <1>2, <1>3, <1>4, <1>5, <1>6 DEF RequestKinds

(* An advance moves the world forward and keeps its schedule. *)
LEMMA TicksForward ==
  ASSUME TypeOK, Clockwork, NEW n \in Nat, NEW now \in Nat, Due(n, now), RunTicks(n)
  PROVE  /\ tick' = tick + n /\ tick' \in Nat /\ due' \in Nat /\ epoch' = epoch
         /\ queue' \subseteq queue
         /\ life' \in [Instances -> Lives]
         /\ due' = tick' * Interval
         /\ due' > now
         /\ NotBefore([epoch |-> epoch, tick |-> tick + n], Present)
<1>1. tick \in Nat /\ due \in Nat /\ epoch \in Nat /\ Interval \in Nat /\ due = tick * Interval
  BY ControlAssumption DEF TypeOK, Clockwork
<1>2. tick' = tick + n /\ due' = due + n * Interval /\ epoch' = epoch
  BY DEF RunTicks, NextDue
<1>3. n * Interval \in Nat
  BY <1>1
<1>4. (tick + n) * Interval = tick * Interval + n * Interval
  BY <1>1
<1>5. queue' \subseteq queue /\ life' \in [Instances -> Lives]
  <2>1. CASE n = 0
    BY <2>1 DEF RunTicks, TypeOK
  <2>2. CASE n # 0
    BY <2>2 DEF RunTicks, RunQueue, Fought, Outcome, TypeOK, Lives
  <2>3. QED
    BY <2>1, <2>2
<1>6. NotBefore([epoch |-> epoch, tick |-> tick + n], Present)
  BY <1>1 DEF NotBefore, Present
<1>7. QED
  BY <1>1, <1>2, <1>3, <1>4, <1>5, <1>6 DEF Due

-----------------------------------------------------------------------------
(* What each action does to the request of its thread.                     *)

(* An idle thread's record is a request record. *)
LEMMA IdleType == Idle \in Request
BY DEF Idle, Request, RequestKinds, Moment, Lives

(* Replacing one thread's record keeps the type of the table. *)
LEMMA ReplaceRequest ==
  ASSUME TypeOK, NEW t \in Threads, NEW r \in Request, req' = [req EXCEPT ![t] = r]
  PROVE  /\ req' \in [Threads -> Request]
         /\ req'[t] = r
         /\ \A u \in Threads \ {t} : req'[u] = req[u]
BY DEF TypeOK

(* The records that the actions leave in the table. *)
Received(kind, i, now) ==
  [Idle EXCEPT !.pc = IF Script(kind) = <<>> THEN "advance" ELSE "dispatch",
               !.kind = kind, !.of = i, !.now = now]
Dispatched(r) ==
  [r EXCEPT !.sent = r.sent + 1,
            !.pc = IF r.sent + 1 = Len(Script(r.kind)) THEN "advance" ELSE "dispatch"]
Advanced(r, n) ==
  [r EXCEPT !.at = [epoch |-> epoch, tick |-> tick + n],
            !.pc = IF r.kind = "action" THEN "answer" ELSE "fetch"]
PartRead(r) ==
  [r EXCEPT !.parts = Append(r.parts, Present),
            !.pc = IF Len(r.parts) + 1 = Parts THEN "answer" ELSE "fetch"]
BattleRead(r) == [r EXCEPT !.status = Status(r.of), !.pc = "answer"]

(* A new request has sent and read nothing. *)
LEMMA ReceivedFields ==
  ASSUME NEW kind \in RequestKinds, NEW i \in Instances \cup {NoInstance}, NEW now \in Nat
  PROVE  LET r == Received(kind, i, now) IN
         /\ r \in Request /\ r.kind = kind /\ r.of = i /\ r.now = now /\ r.sent = 0
         /\ r.parts = <<>>
         /\ r.pc \in {"dispatch", "advance"}
         /\ r.pc = "dispatch" <=> Script(kind) # <<>>
<1>1. (IF Script(kind) = <<>> THEN "advance" ELSE "dispatch")
        \in {"idle", "dispatch", "advance", "fetch", "answer"}
  OBVIOUS
<1>2. QED
  BY <1>1, IdleType DEF Received, Idle, Request

(* The request keeps its identity and has one command less to send. *)
LEMMA DispatchedFields ==
  ASSUME NEW q \in Request
  PROVE  LET r == Dispatched(q) IN
         /\ r \in Request /\ r.kind = q.kind /\ r.of = q.of /\ r.now = q.now
         /\ r.sent = q.sent + 1 /\ r.at = q.at /\ r.parts = q.parts
         /\ r.pc \in {"dispatch", "advance"}
         /\ r.pc = "advance" <=> q.sent + 1 = Len(Script(q.kind))
<1>1. (IF q.sent + 1 = Len(Script(q.kind)) THEN "advance" ELSE "dispatch")
        \in {"idle", "dispatch", "advance", "fetch", "answer"}
  OBVIOUS
<1>2. q.sent + 1 \in Nat
  BY DEF Request
<1>3. QED
  BY <1>1, <1>2 DEF Dispatched, Request

(* The request remembers the tick it advanced the world to. *)
LEMMA AdvancedFields ==
  ASSUME TypeOK, NEW q \in Request, NEW n \in Nat
  PROVE  LET r == Advanced(q, n) IN
         /\ r \in Request /\ r.kind = q.kind /\ r.of = q.of /\ r.now = q.now
         /\ r.sent = q.sent /\ r.parts = q.parts
         /\ r.at = [epoch |-> epoch, tick |-> tick + n]
         /\ r.pc \in {"fetch", "answer"} /\ (r.pc = "fetch" => r.kind # "action")
<1>1. [epoch |-> epoch, tick |-> tick + n] \in Moment
  BY DEF TypeOK, Moment
<1>2. (IF q.kind = "action" THEN "answer" ELSE "fetch")
        \in {"idle", "dispatch", "advance", "fetch", "answer"}
  OBVIOUS
<1>3. QED
  BY <1>1, <1>2 DEF Advanced, Request

(* A sync's request has one part more. *)
LEMMA PartReadFields ==
  ASSUME TypeOK, NEW q \in Request
  PROVE  LET r == PartRead(q) IN
         /\ r \in Request /\ r.kind = q.kind /\ r.of = q.of /\ r.now = q.now
         /\ r.sent = q.sent /\ r.at = q.at
         /\ r.parts = Append(q.parts, Present)
         /\ r.pc \in {"fetch", "answer"}
<1>1. Append(q.parts, Present) \in Seq(Moment)
  BY PresentType DEF Request
<1>2. (IF Len(q.parts) + 1 = Parts THEN "answer" ELSE "fetch")
        \in {"idle", "dispatch", "advance", "fetch", "answer"}
  OBVIOUS
<1>3. QED
  BY <1>1, <1>2 DEF PartRead, Request

(* A battle request knows its battle's status. *)
LEMMA BattleReadFields ==
  ASSUME TypeOK, NEW q \in Request, q.of \in Instances
  PROVE  LET r == BattleRead(q) IN
         /\ r \in Request /\ r.kind = q.kind /\ r.of = q.of /\ r.now = q.now
         /\ r.sent = q.sent /\ r.at = q.at /\ r.parts = q.parts
         /\ r.pc = "answer"
<1>1. Status(q.of) \in Lives
  BY DEF Status, TypeOK, Lives
<1>2. QED
  BY <1>1 DEF BattleRead, Request

(* A received request is in the table. *)
LEMMA ReceiveFacts ==
  ASSUME NEW t \in Threads, NEW kind, NEW i, NEW now, Receive(t, kind, i, now)
  PROVE  req' = [req EXCEPT ![t] = Received(kind, i, now)]
BY DEF Receive, Received

(* A dispatch queues the next command of the script. *)
LEMMA DispatchFacts ==
  ASSUME TypeOK, Underway, NEW t \in Threads, Dispatch(t)
  PROVE  LET c == [order |-> Script(req[t].kind)[req[t].sent + 1], of |-> req[t].of] IN
         /\ req' = [req EXCEPT ![t] = Dispatched(req[t])]
         /\ c \in Command /\ queue' = queue \cup {c}
         /\ req[t].pc = "dispatch" /\ (c.order = "start" => Opening(t))
         /\ req[t].kind = "slice" /\ req[t].sent + 1 = Len(Script(req[t].kind))
              => c.order = "resolve"
<1>1. req[t] \in Request
  BY DEF TypeOK
<1>2. req' = [req EXCEPT ![t] = Dispatched(req[t])]
  BY <1>1 DEF Dispatch, Dispatched, TypeOK, Request
<1>3. /\ req[t].sent + 1 \in 1..Len(Script(req[t].kind))
      /\ req[t].of \in Instances \cup {NoInstance} /\ req[t].kind \in RequestKinds
  BY <1>1, ScriptFacts DEF Dispatch, Underway, Request
<1>4. /\ Script(req[t].kind)[req[t].sent + 1] \in CommandKinds
      /\ Script(req[t].kind)[req[t].sent + 1] = "start" => req[t].kind \in {"start", "slice"}
  BY <1>3, ScriptFacts
<1>5. req[t].kind = "slice" /\ req[t].sent + 1 = Len(Script(req[t].kind))
        => Script(req[t].kind)[req[t].sent + 1] = "resolve"
  BY <1>3, ScriptFacts
<1>6. QED
  BY <1>2, <1>3, <1>4, <1>5 DEF Dispatch, Enqueue, QueueCommand, Command, Opening

(* An advance runs the ticks that are due. *)
LEMMA AdvanceFacts ==
  ASSUME TypeOK, NEW t \in Threads, Advance(t)
  PROVE  \E n \in Nat : /\ Due(n, req[t].now) /\ RunTicks(n)
                        /\ req' = [req EXCEPT ![t] = Advanced(req[t], n)]
<1>1. req[t] \in Request
  BY DEF TypeOK
<1>2. PICK n \in 0..(req[t].now + 1) :
        /\ Due(n, req[t].now) /\ RunTicks(n)
        /\ req' = [req EXCEPT ![t].at = [epoch |-> epoch, tick |-> tick + n],
                              ![t].pc = IF req[t].kind = "action" THEN "answer" ELSE "fetch"]
  BY DEF Advance
<1>3. req' = [req EXCEPT ![t] = Advanced(req[t], n)]
  BY <1>1, <1>2 DEF Advanced, TypeOK, Request
<1>4. n \in Nat
  BY <1>1, <1>2 DEF Request
<1>5. QED
  BY <1>2, <1>3, <1>4

(* A read leaves the request with one part more, or with the battle's status. *)
LEMMA FetchFacts ==
  ASSUME TypeOK, NEW t \in Threads
  PROVE  /\ FetchPart(t) => req' = [req EXCEPT ![t] = PartRead(req[t])]
         /\ FetchBattle(t) => req' = [req EXCEPT ![t] = BattleRead(req[t])]
<1>1. req[t] \in Request
  BY DEF TypeOK
<1>2. FetchPart(t) => req' = [req EXCEPT ![t] = PartRead(req[t])]
  BY <1>1 DEF FetchPart, PartRead, TypeOK, Request
<1>3. FetchBattle(t) => req' = [req EXCEPT ![t] = BattleRead(req[t])]
  BY <1>1 DEF FetchBattle, BattleRead, TypeOK, Request
<1>4. QED
  BY <1>2, <1>3

(* The requests of a finished, failed or killed route are forgotten. *)
Forgets(t) == req' = [req EXCEPT ![t] = Idle]

(* A failed call leaves the world as it was, or with the command queued, or *)
(* with the ticks executed.                                                 *)
LEMMA CallFailsFacts ==
  ASSUME TypeOK, Underway, NEW t \in Threads, CallFails(t)
  PROVE  /\ Forgets(t)
         /\ \/ UNCHANGED world
            \/ /\ req[t].pc = "dispatch"
               /\ \E c \in Command : /\ c.of = req[t].of
                                     /\ c.order = "start" => Opening(t)
                                     /\ queue' = queue \cup {c}
               /\ UNCHANGED <<epoch, tick, due, life>>
            \/ \E n \in Nat : n > 0 /\ Due(n, req[t].now) /\ RunTicks(n)
<1>1. req[t] \in Request
  BY DEF TypeOK
<1>2. CASE req[t].pc = "dispatch" /\ Enqueue(t) /\ UNCHANGED <<epoch, tick, due>>
  <2> DEFINE c == [order |-> Script(req[t].kind)[req[t].sent + 1], of |-> req[t].of]
  <2>1. /\ req[t].sent + 1 \in 1..Len(Script(req[t].kind))
        /\ req[t].of \in Instances \cup {NoInstance} /\ req[t].kind \in RequestKinds
    BY <1>1, <1>2, ScriptFacts DEF Underway, Request
  <2>2. c.order \in CommandKinds /\ (c.order = "start" => req[t].kind \in {"start", "slice"})
    BY <2>1, ScriptFacts
  <2>3. c \in Command
    BY <2>1, <2>2 DEF Command
  <2>4. queue' = queue \cup {c} /\ life' = life
    BY <1>2 DEF Enqueue, QueueCommand
  <2>5. c.order = "start" => Opening(t)
    BY <1>2, <2>2 DEF Opening
  <2>6. QED
    BY <1>2, <2>3, <2>4, <2>5 DEF CallFails, Forgets
<1>3. CASE \E n \in 1..(req[t].now + 1) : Due(n, req[t].now) /\ RunTicks(n)
  BY <1>3 DEF CallFails, Forgets
<1>4. QED
  BY <1>2, <1>3 DEF CallFails, Forgets

-----------------------------------------------------------------------------
(* One lemma per part of the inductive invariant.                          *)

(* The time of a request is a natural number. *)
LEMMA TimeType ==
  ASSUME TypeOK, NEW now \in ClientTimes \cup {Uptime}
  PROVE  now \in Nat /\ Uptime \in Nat
BY ControlAssumption DEF TypeOK, Uptime

(* How a step changes the requests: not, or all die, or one moves on. *)
Moves(t, r) ==
  \/ r = Idle /\ (Answer(t) \/ CallFails(t))
  \/ \E kind \in Kinds, i \in Instances \cup {NoInstance}, now \in Nat :
       Receive(t, kind, i, now) /\ r = Received(kind, i, now)
  \/ Dispatch(t) /\ r = Dispatched(req[t])
  \/ \E n \in Nat :
       /\ Advance(t) /\ Due(n, req[t].now) /\ RunTicks(n)
       /\ r = Advanced(req[t], n)
  \/ FetchPart(t) /\ r = PartRead(req[t])
  \/ FetchBattle(t) /\ r = BattleRead(req[t])

(* No step changes the requests in another way. *)
LEMMA RequestMoves ==
  ASSUME TypeOK, Underway, Next
  PROVE  \/ UNCHANGED req /\ (TimePasses \/ WorldRestart)
         \/ req' = [t \in Threads |-> Idle] /\ BackendRestart
         \/ \E t \in Threads : \E r \in Request :
              Moves(t, r) /\ req' = [req EXCEPT ![t] = r]
<1>1. CASE TimePasses \/ WorldRestart
  BY <1>1 DEF TimePasses, WorldRestart
<1>2. CASE BackendRestart
  BY <1>2 DEF BackendRestart
<1>3. ASSUME NEW t \in Threads, Answer(t) \/ CallFails(t)
      PROVE  Idle \in Request /\ Moves(t, Idle) /\ req' = [req EXCEPT ![t] = Idle]
  BY <1>3, IdleType DEF Answer, CallFails, Moves
<1>4. ASSUME NEW t \in Threads, NEW kind \in Kinds, NEW i \in Instances \cup {NoInstance},
             NEW now \in ClientTimes \cup {Uptime}, Receive(t, kind, i, now)
      PROVE  \E r \in Request : Moves(t, r) /\ req' = [req EXCEPT ![t] = r]
  <2>1. kind \in RequestKinds /\ now \in Nat
    BY TimeType, ControlAssumption
  <2>2. Received(kind, i, now) \in Request
    BY <2>1, ReceivedFields
  <2>3. Moves(t, Received(kind, i, now))
    BY <1>4, <2>1 DEF Moves
  <2>4. QED
    BY <1>4, <2>2, <2>3, ReceiveFacts
<1>5. ASSUME NEW t \in Threads, Dispatch(t)
      PROVE  \E r \in Request : Moves(t, r) /\ req' = [req EXCEPT ![t] = r]
  <2>1. Dispatched(req[t]) \in Request
    BY DispatchedFields DEF TypeOK
  <2>2. QED
    BY <1>5, <2>1, DispatchFacts DEF Moves
<1>6. ASSUME NEW t \in Threads, Advance(t)
      PROVE  \E r \in Request : Moves(t, r) /\ req' = [req EXCEPT ![t] = r]
  <2>1. PICK n \in Nat : /\ Due(n, req[t].now) /\ RunTicks(n)
                         /\ req' = [req EXCEPT ![t] = Advanced(req[t], n)]
    BY <1>6, AdvanceFacts
  <2>2. Advanced(req[t], n) \in Request
    BY AdvancedFields DEF TypeOK
  <2>3. Moves(t, Advanced(req[t], n))
    BY <1>6, <2>1 DEF Moves
  <2>4. QED
    BY <2>1, <2>2, <2>3
<1>7. ASSUME NEW t \in Threads, FetchPart(t)
      PROVE  \E r \in Request : Moves(t, r) /\ req' = [req EXCEPT ![t] = r]
  <2>1. PartRead(req[t]) \in Request
    BY PartReadFields DEF TypeOK
  <2>2. QED
    BY <1>7, <2>1, FetchFacts DEF Moves
<1>8. ASSUME NEW t \in Threads, FetchBattle(t)
      PROVE  \E r \in Request : Moves(t, r) /\ req' = [req EXCEPT ![t] = r]
  <2>1. req[t] \in Request /\ req[t].of \in Instances
    BY <1>8 DEF FetchBattle, Underway, TypeOK
  <2>2. BattleRead(req[t]) \in Request
    BY <2>1, BattleReadFields
  <2>3. QED
    BY <1>8, <2>2, FetchFacts DEF Moves
<1>9. CASE \E t \in Threads, kind \in Kinds, i \in Instances \cup {NoInstance},
             now \in ClientTimes \cup {Uptime} : Receive(t, kind, i, now)
  BY <1>4, <1>9
<1>10. QED
  BY <1>1, <1>2, <1>3, <1>5, <1>6, <1>7, <1>8, <1>9 DEF Next, Serve

(* A command joins the queue: the start of a battle from its opener only. *)
Queues(c) ==
  /\ queue' = queue \cup {c} /\ UNCHANGED <<epoch, tick, due, life>>
  /\ c.order = "start" => \E t \in Threads : Opening(t) /\ req[t].pc = "dispatch" /\ req[t].of = c.of

(* The world moves in one of four ways. *)
LEMMA WorldMoves ==
  ASSUME TypeOK, Underway, Next
  PROVE  \/ UNCHANGED world
         \/ \E c \in Command : Queues(c)
         \/ \E t \in Threads, n \in Nat : Due(n, req[t].now) /\ RunTicks(n)
         \/ WorldRestart
<1>1. CASE TimePasses \/ BackendRestart \/ WorldRestart
  BY <1>1 DEF TimePasses, BackendRestart
<1>2. ASSUME NEW t \in Threads, Dispatch(t)
      PROVE  \E c \in Command : Queues(c)
  <2> DEFINE c == [order |-> Script(req[t].kind)[req[t].sent + 1], of |-> req[t].of]
  <2>1. c \in Command /\ queue' = queue \cup {c} /\ req[t].pc = "dispatch"
        /\ (c.order = "start" => Opening(t)) /\ c.of = req[t].of
    BY <1>2, DispatchFacts
  <2>2. UNCHANGED <<epoch, tick, due, life>>
    BY <1>2 DEF Dispatch, Enqueue, QueueCommand
  <2> HIDE DEF c
  <2>3. QED
    BY <2>1, <2>2 DEF Queues
<1>3. ASSUME NEW t \in Threads, Advance(t)
      PROVE  \E n \in Nat : Due(n, req[t].now) /\ RunTicks(n)
  BY <1>3, AdvanceFacts
<1>4. ASSUME NEW t \in Threads, CallFails(t)
      PROVE  \/ UNCHANGED world
             \/ \E c \in Command : Queues(c)
             \/ \E n \in Nat : Due(n, req[t].now) /\ RunTicks(n)
  BY <1>4, CallFailsFacts DEF Queues
<1>5. ASSUME NEW t \in Threads, FetchPart(t) \/ FetchBattle(t) \/ Answer(t)
      PROVE  UNCHANGED world
  BY <1>5 DEF FetchPart, FetchBattle, Answer
<1>6. ASSUME NEW t \in Threads, NEW kind \in Kinds, NEW i \in Instances \cup {NoInstance},
             NEW now \in ClientTimes \cup {Uptime}, Receive(t, kind, i, now)
      PROVE  UNCHANGED world
  BY <1>6 DEF Receive
<1>7. QED
  BY <1>1, <1>2, <1>3, <1>4, <1>5, <1>6 DEF Next, Serve

(* The clock and the bounds' counters stand still or grow by one, or the    *)
(* start of the backend catches up with the clock.                          *)
LEMMA CountersMove ==
  ASSUME TypeOK, Next
  PROVE  /\ clock' \in {clock, clock + 1}
         /\ started' \in {started, clock} /\ (started' # started => clock' = clock)
         /\ requests' \in {requests, requests + 1}
         /\ failures' \in {failures, failures + 1}
         /\ named' \subseteq ClientTimes /\ named \subseteq named'
<1>0. named \subseteq ClientTimes
  BY DEF TypeOK
<1>1. CASE TimePasses
  BY <1>0, <1>1 DEF TimePasses, bounds
<1>2. CASE BackendRestart
  BY <1>0, <1>2 DEF BackendRestart
<1>3. CASE WorldRestart
  BY <1>0, <1>3 DEF WorldRestart
<1>4. CASE \E t \in Threads : Serve(t)
  BY <1>0, <1>4 DEF Serve, Dispatch, Advance, FetchPart, FetchBattle, Answer, bounds
<1>5. CASE \E t \in Threads : CallFails(t)
  BY <1>0, <1>5 DEF CallFails
<1>6. ASSUME NEW t \in Threads, NEW kind \in Kinds, NEW i \in Instances \cup {NoInstance},
             NEW now \in ClientTimes \cup {Uptime}, Receive(t, kind, i, now)
      PROVE  UNCHANGED <<clock, started, failures>> /\ requests' = requests + 1
             /\ named' \subseteq ClientTimes /\ named \subseteq named'
  BY <1>0, <1>6 DEF Receive
<1>7. QED
  BY <1>1, <1>2, <1>3, <1>4, <1>5, <1>6 DEF Next

(* What clients were told and the rewards change with an answer only. *)
LEMMA AnswersMove ==
  ASSUME Next
  PROVE  UNCHANGED answers \/ \E t \in Threads : Answer(t)
<1>1. CASE TimePasses \/ BackendRestart \/ WorldRestart
  BY <1>1 DEF TimePasses, BackendRestart, WorldRestart
<1>2. CASE \E t \in Threads : Serve(t)
  BY <1>2 DEF Serve, Dispatch, Advance, FetchPart, FetchBattle
<1>3. CASE \E t \in Threads : CallFails(t)
  BY <1>3 DEF CallFails
<1>4. ASSUME NEW t \in Threads, NEW kind \in Kinds, NEW i \in Instances \cup {NoInstance},
             NEW now \in ClientTimes \cup {Uptime}, Receive(t, kind, i, now)
      PROVE  UNCHANGED answers
  BY <1>4 DEF Receive
<1>5. QED
  BY <1>1, <1>2, <1>3, <1>4 DEF Next

(* Every step keeps the types. *)
LEMMA TypeStep == ASSUME TypeOK, Clockwork, Underway, Next PROVE TypeOK'
<1>1. req' \in [Threads -> Request]
  <2>1. CASE UNCHANGED req
    BY <2>1 DEF TypeOK
  <2>2. CASE req' = [t \in Threads |-> Idle]
    BY <2>2, IdleType
  <2>3. ASSUME NEW t \in Threads, NEW r \in Request, req' = [req EXCEPT ![t] = r]
        PROVE  req' \in [Threads -> Request]
    BY <2>3, ReplaceRequest
  <2>4. QED
    BY <2>1, <2>2, <2>3, RequestMoves
<1>2. /\ epoch' \in Nat /\ tick' \in Nat /\ due' \in Nat
      /\ queue' \subseteq Command /\ life' \in [Instances -> Lives]
  <2>1. CASE UNCHANGED world
    BY <2>1 DEF TypeOK, world
  <2>2. CASE \E c \in Command : Queues(c)
    BY <2>2 DEF TypeOK, Queues
  <2>3. CASE \E t \in Threads, n \in Nat : Due(n, req[t].now) /\ RunTicks(n)
    <3>1. \A t \in Threads : req[t].now \in Nat
      BY DEF TypeOK, Request
    <3>2. QED
      BY <2>3, <3>1, TicksForward DEF TypeOK
  <2>4. CASE WorldRestart
    BY <2>4 DEF WorldRestart, TypeOK, Lives
  <2>5. QED
    BY <2>1, <2>2, <2>3, <2>4, WorldMoves
<1>3. /\ clock' \in Nat /\ started' \in Nat /\ started' <= clock'
      /\ requests' \in Nat /\ failures' \in Nat /\ named' \subseteq ClientTimes
  BY CountersMove DEF TypeOK
<1>4. told' \in [Instances -> SUBSET Lives] /\ rewarded' \subseteq Instances
  <2>1. CASE UNCHANGED answers
    BY <2>1 DEF TypeOK, answers
  <2>2. ASSUME NEW t \in Threads, Answer(t)
        PROVE  told' \in [Instances -> SUBSET Lives] /\ rewarded' \subseteq Instances
    <3>1. req[t] \in Request
      BY DEF TypeOK
    <3>2. told' \in [Instances -> SUBSET Lives]
      BY <2>2, <3>1 DEF Answer, TypeOK, Request
    <3>3. rewarded' \subseteq Instances
      BY <2>2, <3>1 DEF Answer, TypeOK, Underway
    <3>4. QED
      BY <3>2, <3>3
  <2>3. QED
    BY <2>1, <2>2, AnswersMove
<1>5. QED
  BY <1>1, <1>2, <1>3, <1>4 DEF TypeOK

(* The schedule stays the tick count times the interval, and the present    *)
(* never moves back.                                                       *)
LEMMA ClockworkStep == ASSUME TypeOK, Clockwork, Underway, Next PROVE Clockwork' /\ NotBefore(Present', Present)
<1>0. TypeOK /\ Clockwork /\ tick \in Nat /\ epoch \in Nat
  BY DEF TypeOK
<1>1. CASE UNCHANGED <<epoch, tick, due>>
  BY <1>0, <1>1 DEF Clockwork, NotBefore, Present
<1>2. ASSUME NEW t \in Threads, NEW n \in Nat, Due(n, req[t].now), RunTicks(n)
      PROVE  Clockwork' /\ NotBefore(Present', Present)
  <2>1. req[t].now \in Nat
    BY <1>0 DEF TypeOK, Request
  <2>2. tick' = tick + n /\ epoch' = epoch /\ due' = tick' * Interval
    BY <1>0, <1>2, <2>1, TicksForward
  <2>3. QED
    BY <1>0, <2>2 DEF Clockwork, NotBefore, Present
<1>3. CASE WorldRestart
  BY <1>0, <1>3, ControlAssumption DEF WorldRestart, Clockwork, NotBefore, Present
<1>4. QED
  BY <1>1, <1>2, <1>3, WorldMoves DEF world, Queues

(* A request under way has a command left to send, or a battle to read. *)
LEMMA UnderwayStep == ASSUME TypeOK, Underway, Next PROVE Underway'
<1> DEFINE Ok(r) ==
      /\ r.pc = "dispatch" => r.sent < Len(Script(r.kind))
      /\ r.pc = "fetch" => r.kind # "action"
      /\ r.pc \notin {"fetch", "answer"} => r.parts = <<>>
      /\ r.pc # "idle" /\ r.kind \notin {"sync", "action"} => r.of \in Instances
<1>1. ASSUME NEW t \in Threads PROVE Ok(req[t]) /\ req[t] \in Request
  BY DEF Underway, TypeOK
<1>2. Ok(Idle)
  BY DEF Idle
<1>3. ASSUME NEW t \in Threads, NEW r \in Request, Moves(t, r)
      PROVE  Ok(r)
  <2>1. ASSUME NEW kind \in Kinds, NEW i \in Instances \cup {NoInstance}, NEW now \in Nat,
               Receive(t, kind, i, now), r = Received(kind, i, now)
        PROVE  Ok(r)
    <3>1. kind \in RequestKinds
      BY ControlAssumption
    <3>2. kind \notin {"sync", "action"} => i \in Instances
      BY <2>1, <3>1 DEF Receive, RequestKinds
    <3>3. /\ r.kind = kind /\ r.of = i /\ r.sent = 0 /\ r.parts = <<>> /\ r.pc \in {"dispatch", "advance"}
          /\ r.pc = "dispatch" => Script(kind) # <<>>
      <4> HIDE DEF Ok
      <4>1. PICK q : q = Received(kind, i, now)
        OBVIOUS
      <4>2. /\ q.kind = kind /\ q.of = i /\ q.sent = 0 /\ q.parts = <<>>
            /\ q.pc \in {"dispatch", "advance"}
            /\ q.pc = "dispatch" <=> Script(kind) # <<>>
        BY <3>1, <4>1, ReceivedFields
      <4>3. r = q
        BY <2>1, <4>1
      <4>4. QED
        BY <4>2, <4>3
    <3>4. Script(kind) # <<>> => 0 < Len(Script(kind))
      BY <3>1, ScriptFacts
    <3>5. QED
      BY <3>2, <3>3, <3>4
  <2>2. CASE Dispatch(t) /\ r = Dispatched(req[t])
    <3>1. req[t].kind \in RequestKinds /\ req[t].sent \in Nat
      BY <1>1 DEF Request
    <3>2. QED
      BY <1>1, <2>2, <3>1, DispatchedFields, ScriptFacts DEF Dispatch
  <2>3. ASSUME NEW n \in Nat, Advance(t), r = Advanced(req[t], n)
        PROVE  Ok(r)
    BY <1>1, <2>3, AdvancedFields DEF Advance
  <2>4. CASE FetchPart(t) /\ r = PartRead(req[t])
    BY <1>1, <2>4, PartReadFields DEF FetchPart
  <2>5. CASE FetchBattle(t) /\ r = BattleRead(req[t])
    <3>1. req[t].of \in Instances
      BY <1>1, <2>5 DEF FetchBattle
    <3>2. QED
      BY <1>1, <2>5, <3>1, BattleReadFields
  <2>6. QED
    BY <1>2, <1>3, <2>1, <2>2, <2>3, <2>4, <2>5 DEF Moves
<1>4. ASSUME NEW u \in Threads PROVE Ok(req'[u])
  BY <1>1, <1>2, <1>3, RequestMoves, ReplaceRequest
<1>5. QED
  BY <1>4 DEF Underway

(* Every route's world has executed what was due when it advanced it: the  *)
(* loop of the advance stops at the first tick that is not due.            *)
LEMMA UpToDateStep == ASSUME TypeOK, Clockwork, Underway, UpToDate, Next PROVE UpToDate'
<1> DEFINE Ok(r) == r.pc \in {"fetch", "answer"} => r.at.tick * Interval > r.now
<1>1. ASSUME NEW t \in Threads PROVE Ok(req[t]) /\ req[t] \in Request
  BY DEF UpToDate, TypeOK
<1>2. Ok(Idle)
  BY DEF Idle
<1>3. ASSUME NEW t \in Threads, NEW r \in Request, Moves(t, r)
      PROVE  Ok(r)
  <2>1. ASSUME NEW kind \in Kinds, NEW i \in Instances \cup {NoInstance}, NEW now \in Nat,
               r = Received(kind, i, now)
        PROVE  Ok(r)
    <3>1. kind \in RequestKinds
      BY ControlAssumption
    <3>2. r.pc \in {"dispatch", "advance"}
      BY <2>1, <3>1, ReceivedFields
    <3>3. QED
      BY <3>2
  <2>2. CASE Dispatch(t) /\ r = Dispatched(req[t])
    <3>1. r.pc \in {"dispatch", "advance"}
      BY <1>1, <2>2, DispatchedFields
    <3>2. QED
      BY <3>1
  <2>3. ASSUME NEW n \in Nat, Due(n, req[t].now), RunTicks(n), r = Advanced(req[t], n)
        PROVE  Ok(r)
    <3>1. req[t].now \in Nat
      BY <1>1 DEF Request
    <3>2. tick' = tick + n /\ due' = tick' * Interval /\ due' > req[t].now
      BY <2>3, <3>1, TicksForward
    <3>3. r.at = [epoch |-> epoch, tick |-> tick + n] /\ r.now = req[t].now
      BY <1>1, <2>3, AdvancedFields
    <3>4. r.at.tick = tick + n
      BY <3>3
    <3>5. QED
      BY <3>2, <3>3, <3>4
  <2>4. CASE FetchPart(t) /\ r = PartRead(req[t])
    BY <1>1, <2>4, PartReadFields DEF FetchPart
  <2>5. CASE FetchBattle(t) /\ r = BattleRead(req[t])
    <3>1. req[t].of \in Instances
      BY <2>5 DEF FetchBattle, Underway
    <3>2. QED
      BY <1>1, <2>5, <3>1, BattleReadFields DEF FetchBattle
  <2>6. QED
    BY <1>2, <1>3, <2>1, <2>2, <2>3, <2>4, <2>5 DEF Moves
<1>4. ASSUME NEW u \in Threads PROVE Ok(req'[u])
  BY <1>1, <1>2, <1>3, RequestMoves, ReplaceRequest
<1>5. QED
  BY <1>4 DEF UpToDate

(* A snapshot's parts follow the advance and each other, because the world *)
(* only moves forward and every part is read from the present.             *)
LEMMA SnapshotStep ==
  ASSUME TypeOK, Clockwork, Underway, SnapshotOrdered, Next
  PROVE  SnapshotOrdered'
<1> DEFINE Ok(r, p) ==
      /\ \A k \in DOMAIN r.parts : /\ NotBefore(r.parts[k], r.at)
                                   /\ NotBefore(p, r.parts[k])
                                   /\ \A l \in 1..k : NotBefore(r.parts[k], r.parts[l])
      /\ r.pc \in {"fetch", "answer"} => NotBefore(p, r.at)
<1>1. ASSUME NEW t \in Threads PROVE Ok(req[t], Present) /\ req[t] \in Request
  BY DEF SnapshotOrdered, TypeOK
<1>2. /\ TypeOK' /\ NotBefore(Present', Present)
      /\ Present \in Moment /\ Present' \in Moment
  <2>1. TypeOK'
    BY TypeStep
  <2>2. Present' \in Moment
    BY <2>1 DEF TypeOK, Present, Moment
  <2>3. QED
    BY <2>1, <2>2, PresentType, ClockworkStep
<1>3. ASSUME NEW r \in Request, Ok(r, Present) PROVE Ok(r, Present')
  <2>1. r.at \in Moment /\ \A k \in DOMAIN r.parts : r.parts[k] \in Moment
    BY DEF Request
  <2>2. ASSUME NEW m \in Moment, NotBefore(Present, m) PROVE NotBefore(Present', m)
    BY <1>2, <2>2, MomentOrder
  <2>3. QED
    BY <1>3, <2>1, <2>2
<1>4. ASSUME NEW r \in Request, r.parts = <<>>, r.pc \notin {"fetch", "answer"}
      PROVE  Ok(r, Present')
  BY <1>4
<1>5. Ok(Idle, Present')
  BY <1>4, IdleType DEF Idle
<1>6. ASSUME NEW t \in Threads, NEW r \in Request, Moves(t, r)
      PROVE  Ok(r, Present')
  <2>1. ASSUME NEW kind \in Kinds, NEW i \in Instances \cup {NoInstance}, NEW now \in Nat,
               r = Received(kind, i, now)
        PROVE  Ok(r, Present')
    <3>1. kind \in RequestKinds
      BY ControlAssumption
    <3>2. r.pc \in {"dispatch", "advance"} /\ r.parts = <<>>
      BY <2>1, <3>1, ReceivedFields
    <3>3. QED
      BY <1>4, <3>2
  <2>2. CASE Dispatch(t) /\ r = Dispatched(req[t])
    <3>1. r.pc \in {"dispatch", "advance"} /\ r.parts = req[t].parts
      BY <1>1, <2>2, DispatchedFields
    <3>2. req[t].parts = <<>>
      BY <2>2 DEF Dispatch, Underway
    <3>3. QED
      BY <1>4, <3>1, <3>2
  <2>3. ASSUME NEW n \in Nat, Advance(t), RunTicks(n), r = Advanced(req[t], n)
        PROVE  Ok(r, Present')
    <3>1. r.at = [epoch |-> epoch, tick |-> tick + n] /\ r.parts = req[t].parts
      BY <1>1, <2>3, AdvancedFields
    <3>2. r.parts = <<>>
      BY <2>3, <3>1 DEF Advance, Underway
    <3>3. Present' = r.at
      BY <2>3, <3>1 DEF RunTicks, Present
    <3>4. NotBefore(Present', r.at)
      BY <1>2, <3>3, MomentOrder
    <3>5. QED
      BY <3>2, <3>4
  <2>4. CASE FetchPart(t) /\ r = PartRead(req[t])
    <3>1. /\ r.at = req[t].at /\ r.parts = Append(req[t].parts, Present)
          /\ req[t].parts \in Seq(Moment) /\ req[t].at \in Moment
      BY <1>1, <2>4, PartReadFields DEF Request
    <3>2. NotBefore(Present, req[t].at) /\ NotBefore(Present, Present)
      BY <1>1, <1>2, <2>4, MomentOrder DEF FetchPart
    <3> DEFINE N == Len(req[t].parts)
    <3>3. /\ N \in Nat /\ DOMAIN r.parts = 1..(N + 1) /\ r.parts[N + 1] = Present
          /\ \A k \in 1..N : r.parts[k] = req[t].parts[k]
          /\ DOMAIN req[t].parts = 1..N
      BY <3>1, <1>2
    <3> HIDE DEF N
    <3>4. ASSUME NEW k \in 1..(N + 1)
          PROVE  /\ NotBefore(r.parts[k], r.at)
                 /\ NotBefore(Present, r.parts[k])
                 /\ \A l \in 1..k : NotBefore(r.parts[k], r.parts[l])
      <4>1. CASE k = N + 1
        <5>1. \A l \in 1..N : NotBefore(Present, r.parts[l])
          BY <1>1, <3>3
        <5>2. QED
          BY <3>1, <3>2, <3>3, <4>1, <5>1
      <4>2. CASE k \in 1..N
        BY <1>1, <3>1, <3>3, <4>2
      <4>3. QED
        BY <3>3, <4>1, <4>2
    <3>5. Ok(r, Present)
      BY <3>1, <3>2, <3>3, <3>4
    <3>6. QED
      BY <1>3, <3>5
  <2>5. CASE FetchBattle(t) /\ r = BattleRead(req[t])
    <3>1. req[t].of \in Instances
      BY <2>5 DEF FetchBattle, Underway
    <3>2. r.at = req[t].at /\ r.parts = req[t].parts /\ req[t].pc = "fetch"
      BY <1>1, <2>5, <3>1, BattleReadFields DEF FetchBattle
    <3>3. Ok(r, Present)
      BY <1>1, <3>2
    <3>4. QED
      BY <1>3, <3>3
  <2>6. QED
    BY <1>5, <1>6, <2>1, <2>2, <2>3, <2>4, <2>5 DEF Moves
<1>7. ASSUME NEW u \in Threads PROVE Ok(req'[u], Present')
  <2>1. CASE UNCHANGED req
    BY <1>1, <1>3, <2>1
  <2>2. CASE req' = [t \in Threads |-> Idle]
    BY <1>5, <2>2
  <2>3. ASSUME NEW t \in Threads, NEW r \in Request, Moves(t, r), req' = [req EXCEPT ![t] = r]
        PROVE  Ok(req'[u], Present')
    <3>1. Ok(r, Present')
      BY <1>6, <2>3
    <3>2. req'[u] = IF u = t THEN r ELSE req[u]
      BY <2>3, ReplaceRequest
    <3>3. QED
      BY <1>1, <1>3, <3>1, <3>2
  <2>4. QED
    BY <2>1, <2>2, <2>3, RequestMoves
<1>8. QED
  BY <1>7 DEF SnapshotOrdered

(* A request that only makes progress keeps its battle, and nobody is told *)
(* or rewarded meanwhile.                                                  *)
LEMMA Progress ==
  ASSUME TypeOK, Underway, NEW t \in Threads, NEW r \in Request, Moves(t, r)
  PROVE  \/ r = Idle /\ (Answer(t) \/ CallFails(t))
         \/ \E kind \in Kinds, i \in Instances \cup {NoInstance}, now \in Nat :
              Receive(t, kind, i, now) /\ r = Received(kind, i, now)
         \/ /\ r.kind = req[t].kind /\ r.of = req[t].of
            /\ req[t].pc \in {"dispatch", "advance", "fetch"}
            /\ r.pc \in {"advance", "fetch", "answer"} /\ req[t].pc = "dispatch"
                 => Dispatch(t) /\ req[t].sent + 1 = Len(Script(req[t].kind))
            /\ UNCHANGED answers
<1> DEFINE Kept == /\ r.kind = req[t].kind /\ r.of = req[t].of
                   /\ req[t].pc \in {"dispatch", "advance", "fetch"}
                   /\ r.pc \in {"advance", "fetch", "answer"} /\ req[t].pc = "dispatch"
                        => Dispatch(t) /\ req[t].sent + 1 = Len(Script(req[t].kind))
                   /\ UNCHANGED answers
<1>0. req[t] \in Request
  BY DEF TypeOK
<1>1. CASE Dispatch(t) /\ r = Dispatched(req[t])
  <2>1. /\ r.kind = req[t].kind /\ r.of = req[t].of /\ r.pc \in {"dispatch", "advance"}
        /\ r.pc = "advance" <=> req[t].sent + 1 = Len(Script(req[t].kind))
    BY <1>0, <1>1, DispatchedFields
  <2>2. req[t].pc = "dispatch" /\ UNCHANGED answers
    BY <1>1 DEF Dispatch
  <2>3. Kept
    BY <1>1, <2>1, <2>2
  <2>4. QED
    BY <2>3
<1>2. ASSUME NEW n \in Nat, Advance(t), r = Advanced(req[t], n)
      PROVE  Kept
  <2>1. r.kind = req[t].kind /\ r.of = req[t].of
    BY <1>0, <1>2, AdvancedFields
  <2>2. req[t].pc = "advance" /\ UNCHANGED answers
    BY <1>2 DEF Advance
  <2>3. QED
    BY <2>1, <2>2
<1>3. CASE FetchPart(t) /\ r = PartRead(req[t])
  <2>1. r.kind = req[t].kind /\ r.of = req[t].of
    BY <1>0, <1>3, PartReadFields
  <2>2. req[t].pc = "fetch" /\ UNCHANGED answers
    BY <1>3 DEF FetchPart
  <2>3. Kept
    BY <2>1, <2>2
  <2>4. QED
    BY <2>3
<1>4. CASE FetchBattle(t) /\ r = BattleRead(req[t])
  <2>1. req[t].pc = "fetch" /\ UNCHANGED answers /\ req[t].of \in Instances
    BY <1>4 DEF FetchBattle, Underway
  <2>2. r.kind = req[t].kind /\ r.of = req[t].of
    BY <1>0, <1>4, <2>1, BattleReadFields
  <2>3. Kept
    BY <2>1, <2>2
  <2>4. QED
    BY <2>3
<1>5. QED
  BY <1>1, <1>2, <1>3, <1>4 DEF Moves

(* No two requests ever open the same battle.                              *)
LEMMA OwnedStep ==
  ASSUME TypeOK, Underway, Owned, Next
  PROVE  Owned'
<1>0. /\ \A t \in Threads : req[t] \in Request
      /\ Idle.pc = "idle" /\ DOMAIN req = Threads
  BY DEF TypeOK, Idle
<1>1. CASE UNCHANGED req /\ (TimePasses \/ WorldRestart)
  BY <1>1 DEF Owned, Opening, TimePasses, WorldRestart, answers
<1>2. CASE req' = [t \in Threads |-> Idle]
  BY <1>0, <1>2 DEF Owned, Opening
<1>3. ASSUME NEW t \in Threads, NEW r \in Request, Moves(t, r), req' = [req EXCEPT ![t] = r]
      PROVE  Owned'
  <2>0. \A u \in Threads : req'[u] = IF u = t THEN r ELSE req[u]
    BY <1>0, <1>3
  <2>1. CASE r = Idle /\ (Answer(t) \/ CallFails(t))
    <3>1. ASSUME NEW u \in Threads, Opening(u)' PROVE u # t /\ req'[u] = req[u] /\ Opening(u)
      BY <1>0, <2>0, <2>1, <3>1 DEF Opening
    <3>2. ASSUME NEW u \in Threads, Opening(u)' PROVE req[u].of \in Instances \ rewarded'
      <4>1. req[u].of \in Instances \ rewarded
        BY <3>1, <3>2 DEF Owned
      <4>2. CASE UNCHANGED rewarded
        BY <4>1, <4>2
      <4>3. CASE Answer(t) /\ req[t].kind = "slice"
        <5>1. Opening(t)
          BY <4>3 DEF Answer, Opening
        <5>2. req[t].of # req[u].of
          BY <3>1, <3>2, <5>1 DEF Owned
        <5>3. QED
          BY <4>1, <4>3, <5>2 DEF Answer
      <4>4. QED
        BY <2>1, <4>2, <4>3 DEF Answer, CallFails, answers
    <3>3. QED
      BY <3>1, <3>2 DEF Owned
  <2>2. ASSUME NEW kind \in Kinds, NEW i \in Instances \cup {NoInstance}, NEW now \in Nat,
               Receive(t, kind, i, now), r = Received(kind, i, now)
        PROVE  Owned'
    <3>1. kind \in RequestKinds
      BY ControlAssumption
    <3>2. r.kind = kind /\ r.of = i
      BY <2>2, <3>1, ReceivedFields
    <3>3. UNCHANGED rewarded
      BY <2>2 DEF Receive, answers
    <3>4. kind \in {"start", "slice"} =>
            i \in Instances \ rewarded /\ \A u \in Threads : req[u].of # i
      BY <2>2 DEF Receive, Handled
    <3>5. Opening(t)' => kind \in {"start", "slice"}
      BY <2>0, <3>2 DEF Opening
    <3>6. \A u \in Threads \ {t} : req'[u] = req[u] /\ (Opening(u)' => Opening(u))
      BY <2>0 DEF Opening
    <3>7. QED
      BY <2>0, <3>2, <3>3, <3>4, <3>5, <3>6 DEF Owned
  <2>3. CASE /\ r.kind = req[t].kind /\ r.of = req[t].of
             /\ req[t].pc \in {"dispatch", "advance", "fetch"} /\ UNCHANGED answers
    <3>1. \A u \in Threads : req'[u].of = req[u].of /\ (Opening(u)' => Opening(u))
      BY <2>0, <2>3 DEF Opening
    <3>2. QED
      BY <2>3, <3>1 DEF Owned, answers
  <2>4. QED
    BY <1>3, <2>1, <2>2, <2>3, Progress
<1>4. QED
  BY <1>1, <1>2, <1>3, RequestMoves

(* An advance settles every battle whose end is queued or that is over.    *)
LEMMA EndingTicks ==
  ASSUME TypeOK, NEW n \in Nat, RunTicks(n), NEW i \in Instances, Ending(i)
  PROVE  Ending(i)'
<1>1. CASE n = 0
  BY <1>1 DEF RunTicks, Ending
<1>2. CASE n # 0
  <2>1. PICK S \in SUBSET Instances, won \in SUBSET Instances :
          /\ Opens(life, queue, S)
          /\ \A j \in Active(life) \cup S : Asked(queue, "resolve", j) => j \in won
          /\ life' = [j \in Instances |-> IF j \in won THEN "resolved"
                                          ELSE IF j \in S THEN "active" ELSE life[j]]
          /\ queue' = {}
    BY <1>2 DEF RunTicks, RunQueue, Fought, Outcome
  <2>2. CASE [order |-> "resolve", of |-> i] \in queue
    <3>1. i \in Active(life) \cup S => i \in won
      BY <2>1, <2>2 DEF Asked
    <3>2. life'[i] # "active"
      BY <2>1, <3>1 DEF Active
    <3>3. QED
      BY <2>1, <3>2 DEF Ending
  <2>3. CASE [order |-> "start", of |-> i] \notin queue /\ life[i] # "active"
    <3>1. ASSUME NEW c \in queue, c.of = i, c.order = "start" PROVE FALSE
      <4>1. c \in Command
        BY DEF TypeOK
      <4>2. c = [order |-> "start", of |-> i]
        BY <3>1, <4>1 DEF Command
      <4>3. QED
        BY <2>3, <4>2
    <3>2. i \notin S
      BY <2>1, <3>1 DEF Opens, Openable, Asked
    <3>3. life'[i] # "active"
      BY <2>1, <2>3, <3>2
    <3>4. QED
      BY <2>1, <3>3 DEF Ending
  <2>4. QED
    BY <2>2, <2>3 DEF Ending
<1>3. QED
  BY <1>1, <1>2

(* A battle that is ending stays so: only the request that opens a battle  *)
(* queues its start, and that is another one's battle.                     *)
LEMMA EndingKept ==
  ASSUME TypeOK, Underway, Owned, Next, NEW i \in Instances, Ending(i),
         i \in rewarded \/ \E u \in Threads : Sent(u) /\ req[u].of = i
  PROVE  Ending(i)'
<1>1. CASE UNCHANGED world
  BY <1>1 DEF world, Ending
<1>2. ASSUME NEW c \in Command, Queues(c)
      PROVE  Ending(i)'
  <2>1. c # [order |-> "start", of |-> i]
    <3>1. SUFFICES ASSUME c.order = "start", c.of = i PROVE FALSE
      OBVIOUS
    <3>2. PICK t \in Threads : Opening(t) /\ req[t].pc = "dispatch" /\ req[t].of = i
      BY <1>2, <3>1 DEF Queues
    <3>3. i \notin rewarded /\ \A u \in Threads \ {t} : Opening(u) => req[u].of # i
      BY <3>2 DEF Owned
    <3>4. ~ Sent(t) /\ \A u \in Threads : Sent(u) => Opening(u)
      BY <3>2 DEF Sent, Opening
    <3>5. QED
      BY <3>3, <3>4
  <2>2. QED
    BY <1>2, <2>1 DEF Queues, Ending
<1>3. ASSUME NEW n \in Nat, RunTicks(n)
      PROVE  Ending(i)'
  BY <1>3, EndingTicks
<1>4. CASE WorldRestart
  BY <1>4 DEF WorldRestart, Ending
<1>5. QED
  BY <1>1, <1>2, <1>3, <1>4, WorldMoves

(* A slice's battle is ending once its script was sent, and stays so.      *)
LEMMA SlicesStep ==
  ASSUME TypeOK, Underway, Owned, SlicesEnd, Next
  PROVE  SlicesEnd'
<1>0. /\ \A t \in Threads : req[t] \in Request
      /\ DOMAIN req = Threads /\ Idle.pc = "idle"
      /\ rewarded \subseteq Instances
      /\ \A t \in Threads : Sent(t) => req[t].of \in Instances
  BY DEF TypeOK, Idle, Sent, Underway
<1>1. ASSUME NEW i \in rewarded' PROVE Ending(i)'
  <2>1. CASE i \in rewarded
    BY <1>0, <2>1, EndingKept DEF SlicesEnd
  <2>2. CASE i \notin rewarded
    <3>1. PICK t \in Threads : Answer(t)
      BY <1>1, <2>2, AnswersMove DEF answers
    <3>2. req[t].kind = "slice" /\ req[t].pc = "answer" /\ i = req[t].of
      BY <1>1, <2>2, <3>1 DEF Answer
    <3>3. Sent(t) /\ Ending(i) /\ i \in Instances
      BY <1>0, <3>2 DEF Sent, SlicesEnd
    <3>4. QED
      BY <3>2, <3>3, EndingKept
  <2>3. QED
    BY <2>1, <2>2
<1>2. ASSUME NEW u \in Threads, Sent(u)' PROVE Ending(req[u].of)' /\ req'[u].of = req[u].of
  <2>1. CASE UNCHANGED req
    <3>1. Sent(u) /\ req[u].of \in Instances /\ Ending(req[u].of)
      BY <1>0, <1>2, <2>1 DEF Sent, SlicesEnd
    <3>2. QED
      BY <2>1, <3>1, EndingKept
  <2>2. CASE req' = [t \in Threads |-> Idle]
    BY <1>0, <1>2, <2>2 DEF Sent
  <2>3. ASSUME NEW t \in Threads, NEW r \in Request, Moves(t, r), req' = [req EXCEPT ![t] = r]
        PROVE  Ending(req[u].of)' /\ req'[u].of = req[u].of
    <3>0. \A v \in Threads : req'[v] = IF v = t THEN r ELSE req[v]
      BY <1>0, <2>3
    <3>1. CASE Sent(u) /\ req'[u].of = req[u].of
      BY <1>0, <3>1, EndingKept DEF SlicesEnd
    <3>2. CASE u # t
      BY <1>2, <3>0, <3>1, <3>2 DEF Sent
    <3>3. CASE u = t
      <4>1. r.kind = "slice" /\ r.pc \in {"advance", "fetch", "answer"}
        BY <1>2, <3>0, <3>3 DEF Sent
      <4>2. r # Idle
        BY <1>0, <4>1
      <4>3. ASSUME NEW kind \in Kinds, NEW i \in Instances \cup {NoInstance}, NEW now \in Nat,
                   r = Received(kind, i, now)
            PROVE  FALSE
        <5>1. kind \in RequestKinds
          BY ControlAssumption
        <5>2. kind = "slice" /\ (r.pc = "dispatch" <=> Script(kind) # <<>>)
          BY <4>1, <4>3, <5>1, ReceivedFields
        <5>3. Script("slice") # <<>>
          BY DEF Script
        <5>4. QED
          BY <4>1, <5>2, <5>3
      <4>4. CASE /\ r.kind = req[t].kind /\ r.of = req[t].of
                 /\ req[t].pc \in {"dispatch", "advance", "fetch"}
                 /\ r.pc \in {"advance", "fetch", "answer"} /\ req[t].pc = "dispatch"
                      => Dispatch(t) /\ req[t].sent + 1 = Len(Script(req[t].kind))
        <5>1. req'[u].of = req[u].of /\ req[u].kind = "slice"
          BY <3>0, <3>3, <4>1, <4>4
        <5>2. CASE req[t].pc # "dispatch"
          BY <3>1, <3>3, <4>4, <5>1, <5>2 DEF Sent
        <5>3. CASE req[t].pc = "dispatch"
          <6> DEFINE c == [order |-> Script(req[t].kind)[req[t].sent + 1], of |-> req[t].of]
          <6>1. Dispatch(t) /\ req[t].sent + 1 = Len(Script(req[t].kind))
            BY <4>1, <4>4, <5>3
          <6>2. queue' = queue \cup {c} /\ c.order = "resolve"
            BY <3>3, <5>1, <6>1, DispatchFacts
          <6>3. c = [order |-> "resolve", of |-> req[u].of]
            BY <3>3, <6>2
          <6>4. [order |-> "resolve", of |-> req[u].of] \in queue'
            BY <6>2, <6>3
          <6>5. QED
            BY <5>1, <6>4 DEF Ending
        <5>4. QED
          BY <5>2, <5>3
      <4>5. QED
        BY <2>3, <4>2, <4>3, <4>4, Progress
    <3>4. QED
      BY <3>2, <3>3
  <2>4. QED
    BY <2>1, <2>2, <2>3, RequestMoves
<1>3. QED
  BY <1>1, <1>2 DEF SlicesEnd, Ending

-----------------------------------------------------------------------------
(* The theorems.                                                           *)

(* The invariant holds at first, and every step keeps it.                  *)
LEMMA Inductive == (Init => IndInv) /\ (IndInv /\ [Next]_vars => IndInv')
<1>1. ASSUME Init PROVE IndInv
  <2>1. /\ TypeOK /\ Clockwork
    BY <1>1, IdleType, ControlAssumption DEF Init, NoBattles, TypeOK, Clockwork, Lives
  <2>2. Underway /\ UpToDate /\ SnapshotOrdered /\ Owned
    BY <1>1 DEF Init, Idle, Underway, UpToDate, SnapshotOrdered, Owned, Opening
  <2>3. SlicesEnd
    BY <1>1 DEF Init, Idle, SlicesEnd, Sent
  <2>4. QED
    BY <2>1, <2>2, <2>3 DEF IndInv
<1>2. ASSUME IndInv, Next PROVE IndInv'
  <2>1. TypeOK' /\ Clockwork' /\ Underway'
    BY <1>2, TypeStep, ClockworkStep, UnderwayStep DEF IndInv
  <2>2. UpToDate' /\ SnapshotOrdered'
    BY <1>2, UpToDateStep, SnapshotStep DEF IndInv
  <2>3. Owned' /\ SlicesEnd'
    BY <1>2, OwnedStep, SlicesStep DEF IndInv
  <2>4. QED
    BY <2>1, <2>2, <2>3 DEF IndInv
<1>3. ASSUME IndInv, UNCHANGED vars PROVE IndInv'
  <2>1. UNCHANGED <<clock, started, epoch, tick, due, queue, life, req, requests, failures, named, told, rewarded>>
    BY <1>3 DEF vars, world, bounds, answers
  <2>2. TypeOK' /\ Clockwork' /\ Underway'
    BY <1>3, <2>1 DEF IndInv, TypeOK, Clockwork, Underway
  <2>3. UpToDate' /\ SnapshotOrdered'
    BY <1>3, <2>1 DEF IndInv, UpToDate, SnapshotOrdered, Present
  <2>4. Owned' /\ SlicesEnd'
    BY <1>3, <2>1 DEF IndInv, Owned, Opening, SlicesEnd, Sent, Ending
  <2>5. QED
    BY <2>2, <2>3, <2>4 DEF IndInv
<1>4. QED
  BY <1>1, <1>2, <1>3

(* The inductive invariant is an invariant: the routes and the runner stay *)
(* coherent whatever fails or restarts.                                    *)
THEOREM Coherence == Spec => []IndInv
BY Inductive, PTL DEF Spec

(* Whoever advanced the world answers for a world that is up to date with  *)
(* the time its route read (advance_ticks, run_due_ticks).                 *)
THEOREM AlwaysUpToDate == Spec => []UpToDate
<1>1. IndInv => UpToDate
  BY DEF IndInv
<1>2. QED
  BY <1>1, Coherence, PTL

(* No part of a world-sync snapshot is older than its campaign tick or than *)
(* a part read before it (world_service_control.py).                        *)
THEOREM AlwaysSnapshotOrdered == Spec => []SnapshotOrdered
<1>1. IndInv => SnapshotOrdered
  BY DEF IndInv
<1>2. QED
  BY <1>1, Coherence, PTL

(* A battle the vertical slice rewarded is not still being fought, or the  *)
(* order that ends it is queued (the slice of gameplay.py).                *)
THEOREM AlwaysRewardedNotFighting == Spec => []RewardedNotFighting
<1>1. IndInv => RewardedNotFighting
  BY DEF IndInv, SlicesEnd, Ending, RewardedNotFighting
<1>2. QED
  BY <1>1, Coherence, PTL

(* The times that the schedule may have followed: the backend's uptime, the *)
(* time that its earlier processes ran together, and what clients brought.  *)
Times == {Uptime, started} \cup named

(* The schedule is kept, and no route reads a time ahead of all of these:   *)
(* the route's tick is due by then, so its time becomes the schedule's.     *)
Timely == ScheduleKept /\ \A t \in Threads : \E now \in Times : req[t].now <= now

(* What is due within an interval is so later on.                          *)
LEMMA Later ==
  ASSUME NEW d \in Nat, NEW n \in Nat, NEW a \in Nat, NEW b \in Nat, d <= a + n, a <= b
  PROVE  d <= b + n
OBVIOUS

(* No time is lost: time passes, a process that is replaced leaves the time *)
(* it ran in the start of the next one, and what clients brought stays.     *)
LEMMA TimesForward ==
  ASSUME TypeOK, Next
  PROVE  /\ Times \subseteq Nat /\ Uptime' \in Nat /\ Uptime' \in Times'
         /\ \A a \in Times : \E b \in Times' : b \in Nat /\ a <= b
<1>0. /\ clock \in Nat /\ started \in Nat /\ started <= clock
      /\ named \subseteq Nat /\ Uptime = clock - started
  BY ControlAssumption DEF TypeOK, Uptime
<1>1. Uptime \in Nat /\ Uptime <= clock /\ Times \subseteq Nat
  BY <1>0 DEF Times
<1>2. /\ started' \in Times' /\ Uptime' \in Times' /\ named \subseteq Times'
      /\ Uptime' = clock' - started'
  BY CountersMove DEF Times, Uptime
<1>3. CASE started' = started
  <2>1. Uptime' \in {Uptime, Uptime + 1}
    BY <1>0, <1>2, <1>3, CountersMove
  <2>2. Uptime' \in Nat /\ Uptime <= Uptime'
    BY <1>1, <2>1
  <2>3. QED
    BY <1>0, <1>1, <1>2, <1>3, <2>2 DEF Times
<1>4. CASE started' = clock /\ clock' = clock
  <2>1. Uptime' = 0 /\ started' = clock
    BY <1>0, <1>2, <1>4
  <2>2. QED
    BY <1>0, <1>1, <1>2, <2>1 DEF Times
<1>5. QED
  BY <1>3, <1>4, CountersMove

(* Every step keeps the schedule: ticks run only up to a time that a route  *)
(* read, and the next one is due an interval after the last of them.        *)
LEMMA TimelyStep ==
  ASSUME IndInv, Timely, Next
  PROVE  Timely'
<1>0. /\ TypeOK /\ Clockwork /\ Underway
      /\ due \in Nat /\ Interval \in Nat /\ Times \subseteq Nat
      /\ \A t \in Threads : req[t] \in Request /\ req[t].now \in Nat
  BY ControlAssumption, TimesForward DEF IndInv, TypeOK, Request
<1>1. ScheduleKept'
  <2>1. ASSUME NEW a \in Times, NEW d \in Nat, d <= a + Interval, due' = d
        PROVE  ScheduleKept'
    <3>1. PICK b \in Times' : b \in Nat /\ a <= b
      BY <1>0, TimesForward
    <3>2. d <= b + Interval
      BY <1>0, <2>1, <3>1, Later
    <3>3. QED
      BY <2>1, <3>1, <3>2 DEF ScheduleKept, Times
  <2>2. CASE UNCHANGED due
    <3>1. PICK a \in Times : due <= a + Interval
      BY DEF Timely, ScheduleKept, Times
    <3>2. QED
      BY <1>0, <2>1, <2>2, <3>1
  <2>3. ASSUME NEW t \in Threads, NEW n \in Nat, Due(n, req[t].now), RunTicks(n), n # 0
        PROVE  ScheduleKept'
    <3>1. due' = due + n * Interval /\ due + (n - 1) * Interval <= req[t].now
      BY <1>0, <2>3 DEF RunTicks, NextDue, Due
    <3>2. PICK a \in Times : req[t].now <= a
      BY DEF Timely
    <3> DEFINE m == n - 1
    <3>3. m \in Nat /\ n = m + 1
      BY <2>3
    <3> HIDE DEF m
    <3>4. m * Interval \in Nat /\ n * Interval = m * Interval + Interval
      BY <1>0, <3>3
    <3>5. a \in Nat /\ due + m * Interval <= a
      BY <1>0, <3>1, <3>2, <3>3, <3>4
    <3>6. due' \in Nat /\ due' <= a + Interval
      BY <1>0, <3>1, <3>4, <3>5
    <3>7. QED
      BY <2>1, <3>6
  <2>4. ASSUME NEW t \in Threads, NEW n \in Nat, RunTicks(n), n = 0
        PROVE  UNCHANGED due
    BY <1>0, <2>4 DEF RunTicks, NextDue
  <2>5. CASE WorldRestart
    <3>1. PICK a \in Times : a \in Nat
      BY <1>0 DEF Times
    <3>2. due' = 0 /\ 0 <= a + Interval
      BY <1>0, <2>5, <3>1 DEF WorldRestart
    <3>3. QED
      BY <2>1, <3>2
  <2>6. QED
    BY <1>0, <2>2, <2>3, <2>4, <2>5, WorldMoves DEF world, Queues
<1>2. ASSUME NEW u \in Threads PROVE \E now \in Times' : req'[u].now <= now
  <2>0. /\ \E now \in Times' : Idle.now <= now
        /\ \A t \in Threads : \E now \in Times' : req[t].now <= now
    <3>1. \E now \in Times' : Idle.now <= now
      BY <1>0, TimesForward DEF Idle
    <3>2. ASSUME NEW t \in Threads PROVE \E now \in Times' : req[t].now <= now
      <4>1. PICK a \in Times : req[t].now <= a
        BY DEF Timely
      <4>2. PICK b \in Times' : b \in Nat /\ a <= b
        BY <1>0, TimesForward
      <4>3. req[t].now <= b
        BY <1>0, <4>1, <4>2
      <4>4. QED
        BY <4>3
    <3>3. QED
      BY <3>1, <3>2
  <2>1. CASE UNCHANGED req
    BY <2>0, <2>1
  <2>2. CASE req' = [t \in Threads |-> Idle]
    BY <2>0, <2>2
  <2>3. ASSUME NEW t \in Threads, NEW r \in Request, Moves(t, r), req' = [req EXCEPT ![t] = r]
        PROVE  \E now \in Times' : req'[u].now <= now
    <3>1. req'[u] = IF u = t THEN r ELSE req[u]
      BY <1>0, <2>3, ReplaceRequest
    <3>2. ASSUME NEW kind \in Kinds, NEW i \in Instances \cup {NoInstance}, NEW now \in Nat,
                 Receive(t, kind, i, now), r = Received(kind, i, now)
          PROVE  \E b \in Times' : r.now <= b
      <4>1. r.now = now
        BY <3>2, ReceivedFields, ControlAssumption
      <4>2. CASE kind = "slice"
        BY <3>2, <4>1, <4>2 DEF Receive, Times
      <4>3. CASE kind # "slice"
        <5>1. now = Uptime /\ Uptime \in Times
          BY <3>2, <4>3 DEF Receive, Times
        <5>2. QED
          BY <1>0, <4>1, <5>1, TimesForward
      <4>4. QED
        BY <4>2, <4>3
    <3>3. r.now = req[t].now \/ r = Idle
             \/ \E kind \in Kinds, i \in Instances \cup {NoInstance}, now \in Nat :
                  Receive(t, kind, i, now) /\ r = Received(kind, i, now)
      <4>1. CASE Dispatch(t) /\ r = Dispatched(req[t])
        BY <1>0, <4>1, DispatchedFields
      <4>2. ASSUME NEW n \in Nat, r = Advanced(req[t], n) PROVE r.now = req[t].now
        BY <1>0, <4>2, AdvancedFields
      <4>3. CASE FetchPart(t) /\ r = PartRead(req[t])
        BY <1>0, <4>3, PartReadFields
      <4>4. CASE FetchBattle(t) /\ r = BattleRead(req[t])
        <5>1. req[t].of \in Instances
          BY <1>0, <4>4 DEF FetchBattle, Underway
        <5>2. QED
          BY <1>0, <4>4, <5>1, BattleReadFields
      <4>5. QED
        BY <2>3, <4>1, <4>2, <4>3, <4>4 DEF Moves
    <3>4. \E now \in Times' : r.now <= now
      BY <2>0, <3>2, <3>3
    <3>5. QED
      BY <2>0, <3>1, <3>4
  <2>4. QED
    BY <1>0, <2>1, <2>2, <2>3, RequestMoves
<1>3. QED
  BY <1>1, <1>2 DEF Timely

(* The next tick is due within one interval of the backend's uptime, of the *)
(* time its earlier processes ran, or of a time that a vertical slice named, *)
(* whatever calls fail, whichever side is restarted and however routes      *)
(* overlap: what a replaced process or a client's clock can put off is      *)
(* bounded by that (_world_sync_now_ms, run_due_ticks).                     *)
THEOREM Schedule == Spec => []ScheduleKept
<1>1. Init => Timely
  <2>1. ASSUME Init PROVE Uptime = 0 /\ due = 0 /\ Uptime \in Times /\ \A t \in Threads : req[t].now = 0
    BY <2>1 DEF Init, NoBattles, Idle, Uptime, Times
  <2>2. QED
    BY <2>1, ControlAssumption DEF Timely, ScheduleKept, Times
<1>2. IndInv /\ Timely /\ [Next]_vars => Timely'
  <2>1. CASE UNCHANGED vars
    BY <2>1 DEF vars, world, bounds, Timely, ScheduleKept, Times, Uptime
  <2>2. QED
    BY <2>1, TimelyStep
<1>3. Timely => ScheduleKept
  BY DEF Timely
<1>4. QED
  BY <1>1, <1>2, <1>3, Coherence, PTL DEF Spec

-----------------------------------------------------------------------------
(* Ticks without orders add up: as many as a route runs are one that       *)
(* executes the queue.  RunTicks can take them all at once, where          *)
(* run_due_ticks, and BattleTicks, take one after the other.               *)
THEOREM TicksAddUp ==
  ASSUME NEW l, NEW q, NEW m, NEW n, Fought(l, q, m), Fought(m, {}, n)
  PROVE  Fought(l, q, n)
<1>1. PICK S \in SUBSET Instances, won \in SUBSET Instances :
        /\ Opens(l, q, S) /\ won \subseteq Active(l) \cup S
        /\ \A i \in Active(l) \cup S : Asked(q, "resolve", i) => i \in won
        /\ m = Outcome(l, S, won)
  BY DEF Fought
<1>2. PICK none \in SUBSET Instances, later \in SUBSET Instances :
        /\ Opens(m, {}, none) /\ later \subseteq Active(m) \cup none
        /\ n = Outcome(m, none, later)
  BY DEF Fought
<1>3. none = {}
  BY <1>2 DEF Opens, Openable, Asked
<1>4. \A i \in Active(m) : i \in Active(l) \cup S
  BY <1>1 DEF Active, Outcome
<1> DEFINE all == won \cup later
<1>5. all \in SUBSET Instances /\ all \subseteq Active(l) \cup S
  BY <1>1, <1>2, <1>3, <1>4
<1>6. n = Outcome(l, S, all)
  BY <1>1, <1>2, <1>3 DEF Outcome
<1>7. \A i \in Active(l) \cup S : Asked(q, "resolve", i) => i \in all
  BY <1>1
<1> HIDE DEF all
<1>8. QED
  BY <1>1, <1>5, <1>6, <1>7 DEF Fought
=============================================================================
