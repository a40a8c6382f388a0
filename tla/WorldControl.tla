---------------------------- MODULE WorldControl ----------------------------
(* The gameplay routes of the backend driving the world service.           *)
(*                                                                         *)
(* The world service keeps one TickRunner behind a mutex: a tick counter,  *)
(* the time its next tick is due, and a queue of commands that the first   *)
(* tick of an advance executes.  It has no clock of its own: a tick runs   *)
(* only when a route of the backend calls /internal/control/tick and says  *)
(* what time it is, which is the uptime of the backend process, or, in the *)
(* vertical slice, a number the client sent.  A route is a sequence of     *)
(* HTTP calls (dispatch its commands, advance, read the state back) on a   *)
(* thread of the server, and calls of other routes fall between them.      *)
(*                                                                         *)
(* Battles are seen here through their life alone (BattleLives): BattleWorld *)
(* models how the orders of a tick are applied and the battles advanced, and *)
(* BattleTicks that callers see no more of it than this.                    *)
EXTENDS BattleLives, Sequences

RequestKinds == {"sync", "start", "formation", "resolve", "action", "slice"}

CONSTANTS
  Threads,        \* request threads of the backend process
  Interval,       \* tick_interval_ms, in units of the clock
  Parts,          \* number of state reads that make up a world-sync snapshot
  Kinds,          \* request kinds that arrive
  ClientTimes,    \* values of tick_now_ms in vertical-slice requests
  MaxTime,        \* bound: the clock
  MaxRequests,    \* bound: requests received
  MaxFailures     \* bound: failed calls, backend restarts and world restarts

ASSUME ControlAssumption ==
  /\ NoInstance \notin Instances
  /\ \A r \in Rivals : r \subseteq Instances
  /\ Interval \in Nat \ {0}
  /\ Parts \in Nat \ {0}
  /\ Kinds \subseteq RequestKinds
  /\ ClientTimes \subseteq Nat
  /\ MaxTime \in Nat /\ MaxRequests \in Nat /\ MaxFailures \in Nat

VARIABLES
  clock,     \* time
  started,   \* when the backend process started: its uptime is counted from here
  epoch,     \* how often the world service was restarted
  tick,      \* current_tick
  due,       \* next_tick_due_ms
  req,       \* per thread, the request it handles
  requests,  \* requests received
  failures,  \* failures so far
  named,     \* ghost: the times that vertical slices have brought
  told,      \* per instance, the battle_status values sent to clients
  rewarded   \* instances whose vertical-slice progression was committed

world == <<epoch, tick, due, queue, life>>
answers == <<told, rewarded>>
bounds == <<requests, failures, named>>
vars == <<clock, started, world, req, bounds, answers>>

-----------------------------------------------------------------------------
(* Requests and commands.                                                  *)

(* The commands a route dispatches, in order.  What a formation, a reserve, *)
(* a march or a domain action does to the world is not about a battle's     *)
(* life; the slice's reserve is refused anyway, its battle is one tick old. *)
Script(kind) ==
  CASE kind = "sync"      -> <<>>
    [] kind = "start"     -> <<"start">>
    [] kind = "resolve"   -> <<"resolve">>
    [] kind = "formation" -> <<"other">>
    [] kind = "action"    -> <<"other">>
    [] kind = "slice"     -> <<"other", "start", "other", "other", "resolve">>

(* A moment of the world: states of an earlier epoch, or an earlier tick of *)
(* the same epoch, are older.                                               *)
Moment == [epoch : Nat, tick : Nat]
Present == [epoch |-> epoch, tick |-> tick]
NotBefore(m, n) == m.epoch > n.epoch \/ (m.epoch = n.epoch /\ m.tick >= n.tick)

Request == [pc : {"idle", "dispatch", "advance", "fetch", "answer"},
            kind : RequestKinds, of : Instances \cup {NoInstance},
            now : Nat, sent : Nat, at : Moment, parts : Seq(Moment), status : Lives]
Idle == [pc |-> "idle", kind |-> "sync", of |-> NoInstance, now |-> 0,
         sent |-> 0, at |-> [epoch |-> 0, tick |-> 0], parts |-> <<>>, status |-> "none"]

Uptime == clock - started
Handled == {req[t].of : t \in Threads}

Init ==
  /\ clock = 0 /\ started = 0
  /\ epoch = 0 /\ tick = 0 /\ due = 0 /\ NoBattles
  /\ req = [t \in Threads |-> Idle]
  /\ requests = 0 /\ failures = 0 /\ named = {}
  /\ told = [i \in Instances |-> {}]
  /\ rewarded = {}

-----------------------------------------------------------------------------
(* The world service.                                                      *)

(* MUTANT: a tick is run when it falls due within the next interval. *)
Due_Eager(n, now) == /\ due + n * Interval > now + Interval
                     /\ n > 0 => due + (n - 1) * Interval <= now + Interval
(* MUTANT: the next tick is counted from the clock, not from the last due time. *)
NextDue_Drift(n) == IF n = 0 THEN due ELSE clock + Interval

(* run_due_ticks: n ticks, up to the first that is not due yet; the first   *)
(* executes the queue.                                                     *)
Due(n, now) == /\ due + n * Interval > now
               /\ n > 0 => due + (n - 1) * Interval <= now
NextDue(n) == due + n * Interval
RunTicks(n) ==
  /\ tick' = tick + n
  /\ due' = NextDue(n)
  /\ IF n = 0 THEN UNCHANGED <<queue, life>> ELSE RunQueue
  /\ UNCHANGED epoch

(* The service is restarted: nothing of the world was persisted. *)
WorldRestart ==
  /\ failures < MaxFailures
  /\ failures' = failures + 1
  /\ epoch' = epoch + 1
  /\ tick' = 0 /\ due' = 0 /\ queue' = {}
  /\ life' = [i \in Instances |-> "none"]
  /\ UNCHANGED <<clock, started, req, requests, named, answers>>

-----------------------------------------------------------------------------
(* The routes.                                                             *)

(* A request arrives; the route reads the time before its first call.  A   *)
(* start makes a new instance id, a battle command names one that a client *)
(* was told or sees in the world.                                          *)
Receive(t, kind, i, now) ==
  /\ req[t].pc = "idle" /\ requests < MaxRequests
  /\ IF kind = "slice" THEN now \in ClientTimes ELSE now = Uptime
  /\ CASE kind \in {"start", "slice"} ->
            i \in Instances \ Handled /\ life[i] = "none" /\ told[i] = {} /\ i \notin rewarded
            /\ \A c \in queue : c.of # i
       [] kind \in {"formation", "resolve"} -> i \in Instances /\ (told[i] # {} \/ life[i] # "none")
       [] OTHER -> i = NoInstance
  /\ req' = [req EXCEPT ![t] = [Idle EXCEPT
       !.pc = IF Script(kind) = <<>> THEN "advance" ELSE "dispatch",
       !.kind = kind, !.of = i, !.now = now]]
  /\ requests' = requests + 1
  /\ named' = IF kind = "slice" THEN named \cup {now} ELSE named
  /\ UNCHANGED <<clock, started, world, failures, answers>>

(* dispatch_control_command: the command joins the queue of the runner. *)
Enqueue(t) ==
  QueueCommand([order |-> Script(req[t].kind)[req[t].sent + 1], of |-> req[t].of])
Dispatch(t) ==
  /\ req[t].pc = "dispatch"
  /\ Enqueue(t)
  /\ req' = [req EXCEPT ![t].sent = @ + 1,
       ![t].pc = IF req[t].sent + 1 = Len(Script(req[t].kind)) THEN "advance" ELSE "dispatch"]
  /\ UNCHANGED <<clock, started, epoch, tick, due, bounds, answers>>

(* advance_ticks: the runner executes what is due at the request's time. *)
Advance(t) ==
  /\ req[t].pc = "advance"
  /\ \E n \in 0..(req[t].now + 1) :
       /\ Due(n, req[t].now)
       /\ RunTicks(n)
       /\ req' = [req EXCEPT ![t].at = [epoch |-> epoch, tick |-> tick + n],
                             ![t].pc = IF req[t].kind = "action" THEN "answer" ELSE "fetch"]
  /\ UNCHANGED <<clock, started, bounds, answers>>

(* The reads: a snapshot is put together part by part, each part a call of *)
(* its own; the battle routes read the battle state, and take an instance  *)
(* that is not listed for a resolved one.                                  *)
Status(i) == IF life[i] = "none" THEN "resolved" ELSE life[i]
(* MUTANT: reads are served from what another request read before. *)
FetchPart_Cached(t) ==
  /\ req[t].pc = "fetch" /\ req[t].kind = "sync"
  /\ \E m \in {Present} \cup UNION {{req[u].parts[k] : k \in DOMAIN req[u].parts} : u \in Threads} :
       req' = [req EXCEPT ![t].parts = Append(@, m),
         ![t].pc = IF Len(req[t].parts) + 1 = Parts THEN "answer" ELSE "fetch"]
  /\ UNCHANGED <<clock, started, world, bounds, answers>>
FetchPart(t) ==
  /\ req[t].pc = "fetch" /\ req[t].kind = "sync"
  /\ req' = [req EXCEPT ![t].parts = Append(@, Present),
       ![t].pc = IF Len(req[t].parts) + 1 = Parts THEN "answer" ELSE "fetch"]
  /\ UNCHANGED <<clock, started, world, bounds, answers>>
FetchBattle(t) ==
  /\ req[t].pc = "fetch" /\ req[t].kind # "sync"
  /\ req' = [req EXCEPT ![t].status = Status(req[t].of), ![t].pc = "answer"]
  /\ UNCHANGED <<clock, started, world, bounds, answers>>

(* The answer; the vertical slice first commits experience and location,   *)
(* whatever became of its battle.                                          *)
Answer(t) ==
  /\ req[t].pc = "answer"
  /\ told' = IF req[t].of \in Instances
             THEN [told EXCEPT ![req[t].of] = @ \cup {req[t].status}] ELSE told
  /\ rewarded' = IF req[t].kind = "slice" THEN rewarded \cup {req[t].of} ELSE rewarded
  /\ req' = [req EXCEPT ![t] = Idle]
  /\ UNCHANGED <<clock, started, world, bounds>>

(* A call fails or times out, before or after it took effect at the world  *)
(* service: the route answers 502 and the session is closed uncommitted.   *)
CallFails(t) ==
  /\ failures < MaxFailures
  /\ failures' = failures + 1
  /\ \/ /\ req[t].pc \in {"dispatch", "advance", "fetch"}
        /\ UNCHANGED world
     \/ /\ req[t].pc = "dispatch"
        /\ Enqueue(t)
        /\ UNCHANGED <<epoch, tick, due>>
     \/ /\ req[t].pc = "advance"
        /\ \E n \in 1..(req[t].now + 1) : Due(n, req[t].now) /\ RunTicks(n)
  /\ req' = [req EXCEPT ![t] = Idle]
  /\ UNCHANGED <<clock, started, requests, named, answers>>

(* The backend process is replaced: its requests die, its uptime starts anew. *)
BackendRestart ==
  /\ failures < MaxFailures
  /\ failures' = failures + 1
  /\ started' = clock
  /\ req' = [t \in Threads |-> Idle]
  /\ UNCHANGED <<clock, world, requests, named, answers>>

TimePasses ==
  /\ clock < MaxTime
  /\ clock' = clock + 1
  /\ UNCHANGED <<started, world, req, bounds, answers>>

Serve(t) == Dispatch(t) \/ Advance(t) \/ FetchPart(t) \/ FetchBattle(t) \/ Answer(t)

Next ==
  \/ TimePasses
  \/ \E t \in Threads :
       \/ \E kind \in Kinds, i \in Instances \cup {NoInstance}, now \in ClientTimes \cup {Uptime} :
            Receive(t, kind, i, now)
       \/ Serve(t)
       \/ CallFails(t)
  \/ BackendRestart
  \/ WorldRestart

Spec == Init /\ [][Next]_vars

-----------------------------------------------------------------------------
(* Properties.                                                             *)

TypeOK ==
  /\ clock \in Nat /\ started \in Nat /\ started <= clock
  /\ epoch \in Nat /\ tick \in Nat /\ due \in Nat
  /\ queue \subseteq Command
  /\ life \in [Instances -> Lives]
  /\ req \in [Threads -> Request]
  /\ requests \in Nat /\ failures \in Nat /\ named \subseteq ClientTimes
  /\ told \in [Instances -> SUBSET Lives]
  /\ rewarded \subseteq Instances

(* A route that advanced the world answers for a world that has executed   *)
(* every tick due at the time the route read, however old that reading is  *)
(* by then and whatever other threads advanced in between.                 *)
UpToDate ==
  \A t \in Threads : req[t].pc \in {"fetch", "answer"} => req[t].at.tick * Interval > req[t].now

(* A world-sync snapshot may be put together from several ticks, but no    *)
(* part is older than the campaign_tick the answer carries, and parts read *)
(* later are no older than parts read before.                              *)
SnapshotOrdered ==
  \A t \in Threads : LET r == req[t] IN
    /\ \A k \in DOMAIN r.parts : /\ NotBefore(r.parts[k], r.at)
                                 /\ NotBefore(Present, r.parts[k])
                                 /\ \A l \in 1..k : NotBefore(r.parts[k], r.parts[l])
    /\ r.pc \in {"fetch", "answer"} => NotBefore(Present, r.at)

(* When the vertical slice has committed its rewards, its battle is not    *)
(* still being fought, unless the order that ends it is still queued.      *)
RewardedNotFighting ==
  \A i \in rewarded : life[i] = "active" => [order |-> "resolve", of |-> i] \in queue

(* The next tick is due within one interval of the backend's uptime, or of *)
(* the time for which its earlier processes ran, or of a time that a client *)
(* brought, whatever calls fail and whichever side is restarted: a new     *)
(* process has to run as long as those before it, and no longer, until     *)
(* ticks are due again.                                                    *)
ScheduleKept == \E now \in {Uptime, started} \cup named : due <= now + Interval

(* The world keeps real time: its next tick is due within one interval of  *)
(* the clock that drives it ("fixed-interval server ticks", GAME.md).      *)
OnSchedule == due <= Uptime + Interval

(* A battle that a client was told is resolved is resolved                 *)
(* ("authoritative status/result updates", GAME.md).                       *)
StatusTruthful == \A i \in Instances : "resolved" \in told[i] => life[i] = "resolved"

(* The vertical slice rewards battles that were fought to their end: it    *)
(* "starts/resolves a real-time battle instance in world-service, then     *)
(* writes battle-derived progression" (GAME.md).                           *)
RewardsEarned == \A i \in rewarded : life[i] = "resolved"
-----------------------------------------------------------------------------
(* The inductive invariant of WorldControlProofs.                          *)

(* The runner's schedule is its tick count: nothing shifts it. *)
Clockwork == due = tick * Interval

(* A route that dispatches has a command left to dispatch, one that reads  *)
(* battles is about a battle, and none reads before it has advanced.       *)
Underway ==
  \A t \in Threads :
    /\ req[t].pc = "dispatch" => req[t].sent < Len(Script(req[t].kind))
    /\ req[t].pc = "fetch" => req[t].kind # "action"
    /\ req[t].pc \notin {"fetch", "answer"} => req[t].parts = <<>>
    /\ req[t].pc # "idle" /\ req[t].kind \notin {"sync", "action"} => req[t].of \in Instances

(* A battle is opened by one request, and rewarded when that one answers.  *)
Opening(t) == req[t].pc # "idle" /\ req[t].kind \in {"start", "slice"}
Owned ==
  \A t \in Threads : Opening(t) =>
    /\ req[t].of \in Instances \ rewarded
    /\ \A u \in Threads \ {t} : Opening(u) => req[u].of # req[t].of

(* The battle of a slice whose last command was sent is over, or its end   *)
(* is queued with its beginning.                                           *)
Ending(i) == \/ [order |-> "resolve", of |-> i] \in queue
             \/ [order |-> "start", of |-> i] \notin queue /\ life[i] # "active"
Sent(t) == req[t].kind = "slice" /\ req[t].pc \in {"advance", "fetch", "answer"}
SlicesEnd == /\ \A i \in rewarded : Ending(i)
             /\ \A t \in Threads : Sent(t) => Ending(req[t].of)

IndInv == /\ TypeOK /\ Clockwork /\ Underway
          /\ UpToDate /\ SnapshotOrdered /\ Owned /\ SlicesEnd
=============================================================================
