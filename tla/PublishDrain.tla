---------------------------- MODULE PublishDrain ----------------------------
(***************************************************************************)
(* Publish drains of the backend (backend/app/services/session_drain.py)   *)
(* with their callers: the three publishing handlers, the authenticated    *)
(* request path that enforces a drain, and process startup.                *)
(*                                                                         *)
(* A publish opens a drain event; every live player session is marked      *)
(* "draining" with a deadline, an in-memory countdown of the publishing    *)
(* process finalizes the event at the deadline, and a request made by a    *)
(* late session enforces the drain by itself.  State is kept in one        *)
(* database at READ COMMITTED without row locks, so an operation is split  *)
(* wherever another transaction may commit between a read and the write    *)
(* that uses it.                                                           *)
(*                                                                         *)
(* Who runs concurrently.  Publishing handlers, countdowns and startup run *)
(* on the event loop of their process and hold it from their first read to *)
(* their commit (there is no await in between): loop[p] is that operation. *)
(* Request handlers are synchronous and run on threads beside the loop.    *)
(* Several processes share the database.                                   *)
(***************************************************************************)
EXTENDS Naturals, FiniteSets

CONSTANTS
  Sessions,       \* session ids
  Admins,         \* the sessions that belong to administrators
  Procs,          \* backend processes
  Threads,        \* request threads
  Home,           \* the process each thread belongs to
  MaxConcurrent,  \* settings.publish_drain_max_concurrent
  Grace,          \* grace period of a publish, in seconds
  Second,         \* clock ticks per second
  MaxEvents,      \* bound: publishes attempted
  MaxNow,         \* bound: clock ticks
  MaxCrashes      \* bound: process crashes

ASSUME ConstantsAssumption ==
  /\ Admins \subseteq Sessions
  /\ Home \in [Threads -> Procs]
  /\ MaxConcurrent \in Nat
  /\ Grace \in Nat
  /\ Second \in Nat \ {0}
  /\ MaxEvents \in Nat
  /\ MaxNow \in Nat
  /\ MaxCrashes \in Nat
  /\ IsFiniteSet(Sessions)

VARIABLES
  now,        \* the clock, in ticks
  build,      \* release_policy.latest_version, counted from 0
  sess,       \* table user_sessions
  ev,         \* table publish_drain_events with its session audit rows
  nextEvent,  \* the id sequence of publish_drain_events
  proc,       \* "down", "starting" or "up", per process
  loop,       \* the operation that holds the event loop, per process
  countdown,  \* run_publish_drain_countdown tasks, per process and event
  thr,        \* the request each thread is enforcing a drain for
  crashes     \* crashes so far

vars == <<now, build, sess, ev, nextEvent, proc, loop, countdown, thr, crashes>>

Events == 1..MaxEvents
NoEvent == 0

SessionRow ==
  [status: {"absent", "live", "revoked"}, expired: BOOLEAN,
   drain: {"active", "draining", "completed"},
   event: Events \cup {NoEvent}, deadline: Nat]

(* audit: the sessions with a publish_drain_session_audit row, which are the *)
(* sessions_targeted; cut: the audit rows with revoked_ok.                   *)
EventRow ==
  [status: {"none", "draining", "completed"}, deadline: Nat, build: Nat,
   audit: SUBSET Sessions, cut: SUBSET Sessions, revoked: Nat]

LoopOp ==
  [pc: {"idle", "policy", "drain", "commit", "startup", "finalize"},
   event: Events \cup {NoEvent}, build: Nat, deadline: Nat,
   rows: SUBSET Sessions, revoked: Nat, due: SUBSET Events]

Task == [pc: {"none", "new", "sleep"}, wake: Nat]

Request ==
  [pc: {"idle", "session", "event"}, rows: SUBSET Sessions,
   event: Events \cup {NoEvent}, revoked: Nat, draining: BOOLEAN]

TypeOK ==
  /\ now \in Nat
  /\ build \in Nat
  /\ sess \in [Sessions -> SessionRow]
  /\ ev \in [Events -> EventRow]
  /\ nextEvent \in 1..(MaxEvents + 1)
  /\ proc \in [Procs -> {"down", "starting", "up"}]
  /\ loop \in [Procs -> LoopOp]
  /\ countdown \in [Procs -> [Events -> Task]]
  /\ thr \in [Threads -> Request]
  /\ crashes \in 0..MaxCrashes

-----------------------------------------------------------------------------
NoSession == [status |-> "absent", expired |-> FALSE, drain |-> "active",
              event |-> NoEvent, deadline |-> 0]
NoRow == [status |-> "none", deadline |-> 0, build |-> 0,
          audit |-> {}, cut |-> {}, revoked |-> 0]
Idle == [pc |-> "idle", event |-> NoEvent, build |-> 0, deadline |-> 0,
         rows |-> {}, revoked |-> 0, due |-> {}]
NoTask == [pc |-> "none", wake |-> 0]
NoRequest == [pc |-> "idle", rows |-> {}, event |-> NoEvent,
              revoked |-> 0, draining |-> FALSE]

Init ==
  /\ now = 0
  /\ build = 0
  /\ sess = [s \in Sessions |-> NoSession]
  /\ ev = [e \in Events |-> NoRow]
  /\ nextEvent = 1
  /\ proc = [p \in Procs |-> "up"]
  /\ loop = [p \in Procs |-> Idle]
  /\ countdown = [p \in Procs |-> [e \in Events |-> NoTask]]
  /\ thr = [t \in Threads |-> NoRequest]
  /\ crashes = 0

-----------------------------------------------------------------------------
(* Reads of the tables. *)

ActiveDrains == {e \in Events : ev[e].status = "draining"}

(* max(1, settings.publish_drain_max_concurrent) *)
Capacity == IF MaxConcurrent > 1 THEN MaxConcurrent ELSE 1

(* Mutant: > for >= in the comparison with the maximum. *)
HasCapacity_OffByOne == Cardinality(ActiveDrains) <= Capacity

HasCapacity == Cardinality(ActiveDrains) < Capacity

(* The sessions a new drain targets: players, not revoked, not expired. *)
Targets == {s \in Sessions \ Admins : sess[s].status = "live" /\ ~sess[s].expired}

(* Mutant: expired sessions are left out, as they are by the targets' query. *)
Unrevoked_Unexpired(e) ==
  {s \in Sessions \ Admins : /\ sess[s].event = e
                             /\ sess[s].status = "live"
                             /\ ~sess[s].expired}

(* The sessions finalize_publish_drain cuts off. *)
Unrevoked(e) == {s \in Sessions \ Admins : sess[s].event = e /\ sess[s].status = "live"}

(* The rows finalize_due_publish_drains selects. *)
DueEvents == {e \in ActiveDrains : ev[e].deadline <= now}

(* The order of finalize_due_publish_drains: by deadline, then by id. *)
Before(e, f) == \/ ev[e].deadline < ev[f].deadline
                \/ ev[e].deadline = ev[f].deadline /\ e <= f

(* Mutant: the remaining time rounded to more than whole seconds. *)
WholeSeconds_Coarse(ticks) == (ticks \div (2 * Second)) * (2 * Second)

(* int((deadline - now).total_seconds()), as ticks: whole seconds only. *)
WholeSeconds(ticks) == (ticks \div Second) * Second

Remaining(e) == IF ev[e].deadline > now THEN ev[e].deadline - now ELSE 0

(* A live session past the deadline of the drain it is marked by. *)
Expelled(s) ==
  /\ sess[s].status = "live"
  /\ sess[s].drain = "draining"
  /\ now >= sess[s].deadline

LoopIdle(p) == proc[p] = "up" /\ loop[p].pc = "idle"

-----------------------------------------------------------------------------
(* The clock and the sessions' own life. *)

Tick ==
  /\ now < MaxNow
  /\ now' = now + 1
  /\ UNCHANGED <<build, sess, ev, nextEvent, proc, loop, countdown, thr, crashes>>

(* register and login insert a session that no drain knows of. *)
Login(s) ==
  /\ \E p \in Procs : proc[p] = "up"
  /\ sess[s].status = "absent"
  /\ sess' = [sess EXCEPT ![s].status = "live"]
  /\ UNCHANGED <<now, build, ev, nextEvent, proc, loop, countdown, thr, crashes>>

Expire(s) ==
  /\ sess[s].status = "live"
  /\ ~sess[s].expired
  /\ sess' = [sess EXCEPT ![s].expired = TRUE]
  /\ UNCHANGED <<now, build, ev, nextEvent, proc, loop, countdown, thr, crashes>>

(* Every revocation that is not a drain's: logout, a version gate, refresh  *)
(* token reuse.  They write revoked_at only; drain_state stays as it is.    *)
Revoke(s) ==
  /\ \E p \in Procs : proc[p] = "up"
  /\ sess[s].status = "live"
  /\ sess' = [sess EXCEPT ![s].status = "revoked"]
  /\ UNCHANGED <<now, build, ev, nextEvent, proc, loop, countdown, thr, crashes>>

-----------------------------------------------------------------------------
(* A publishing handler: content activation, rollback, release activation. *)

(* Mutant: the check of the route dropped, the one of start_publish_drain kept. *)
PublishBegin_Unchecked(p) ==
  /\ LoopIdle(p)
  /\ nextEvent <= MaxEvents /\ build < MaxEvents
  /\ now + Grace * Second <= MaxNow
  /\ loop' = [loop EXCEPT ![p] = [Idle EXCEPT !.pc = "policy", !.build = build + 1]]
  /\ UNCHANGED <<now, build, sess, ev, nextEvent, proc, countdown, thr, crashes>>

(* The route checks the capacity and then works out the next version. *)
PublishBegin(p) ==
  /\ LoopIdle(p)
  /\ HasCapacity
  /\ nextEvent <= MaxEvents /\ build < MaxEvents      \* bound
  /\ now + Grace * Second <= MaxNow                   \* bound
  /\ loop' = [loop EXCEPT ![p] = [Idle EXCEPT !.pc = "policy", !.build = build + 1]]
  /\ UNCHANGED <<now, build, sess, ev, nextEvent, proc, countdown, thr, crashes>>

(* activate_release or activate_content_release commits the policy. *)
PublishPolicy(p) ==
  /\ loop[p].pc = "policy"
  /\ build' = loop[p].build
  /\ loop' = [loop EXCEPT ![p].pc = "drain"]
  /\ UNCHANGED <<now, sess, ev, nextEvent, proc, countdown, thr, crashes>>

(* start_publish_drain up to its commit: the second capacity check, the      *)
(* event's id, its deadline and the session rows it selects.  On a conflict  *)
(* the handler ends, with the policy committed: a 409, or no drain for a     *)
(* release activation.  Only another process can bring that about.           *)
PublishConflict(p) ==
  /\ loop' = [loop EXCEPT ![p] = Idle]
  /\ UNCHANGED <<now, build, sess, ev, nextEvent, proc, countdown, thr, crashes>>

PublishAdmitted(p) ==
  /\ nextEvent <= MaxEvents                           \* bound
  /\ now + Grace * Second <= MaxNow                   \* bound
  /\ loop' = [loop EXCEPT ![p].pc = "commit", ![p].event = nextEvent,
                          ![p].deadline = now + Grace * Second, ![p].rows = Targets]
  /\ nextEvent' = nextEvent + 1
  /\ UNCHANGED <<now, build, sess, ev, proc, countdown, thr, crashes>>

PublishStart(p) ==
  /\ loop[p].pc = "drain"
  /\ IF HasCapacity THEN PublishAdmitted(p) ELSE PublishConflict(p)

(* The commit of start_publish_drain, and the countdown task of the handler. *)
PublishCommit(p) ==
  LET op == loop[p] IN
  /\ op.pc = "commit"
  /\ ev' = [ev EXCEPT ![op.event] =
               [status |-> "draining", deadline |-> op.deadline, build |-> op.build,
                audit |-> op.rows, cut |-> {}, revoked |-> 0]]
  /\ sess' = [s \in Sessions |->
                IF s \in op.rows
                THEN [sess[s] EXCEPT !.drain = "draining", !.event = op.event,
                                     !.deadline = op.deadline]
                ELSE sess[s]]
  /\ countdown' = [countdown EXCEPT ![p][op.event].pc = "new"]
  /\ loop' = [loop EXCEPT ![p] = Idle]
  /\ UNCHANGED <<now, build, nextEvent, proc, thr, crashes>>

-----------------------------------------------------------------------------
(* run_publish_drain_countdown and finalize_publish_drain. *)

(* Mutant: a drain whose time is up by the time its task first runs is left. *)
CountdownStart_SkipsDue(p, e) ==
  /\ LoopIdle(p)
  /\ countdown[p][e].pc = "new"
  /\ countdown' = [countdown EXCEPT ![p][e] =
                     IF ev[e].status = "draining" /\ Remaining(e) > 0
                     THEN [pc |-> "sleep", wake |-> now + WholeSeconds(Remaining(e))]
                     ELSE NoTask]
  /\ UNCHANGED <<now, build, sess, ev, nextEvent, proc, loop, thr, crashes>>

(* The task reads its event and works out how long to sleep. *)
CountdownStart(p, e) ==
  /\ LoopIdle(p)
  /\ countdown[p][e].pc = "new"
  /\ countdown' = [countdown EXCEPT ![p][e] =
                     IF ev[e].status = "draining"
                     THEN [pc |-> "sleep", wake |-> now + WholeSeconds(Remaining(e))]
                     ELSE NoTask]
  /\ UNCHANGED <<now, build, sess, ev, nextEvent, proc, loop, thr, crashes>>

(* The reads of finalize_publish_drain; an event no longer draining is left. *)
FinalizeRead(p, e) ==
  loop' = [loop EXCEPT ![p] =
             IF ev[e].status = "draining"
             THEN [loop[p] EXCEPT !.pc = "finalize", !.event = e, !.rows = Unrevoked(e),
                                  !.revoked = ev[e].revoked, !.due = @ \ {e}]
             ELSE [loop[p] EXCEPT !.due = @ \ {e}]]

CountdownWake(p, e) ==
  /\ LoopIdle(p)
  /\ countdown[p][e].pc = "sleep"
  /\ countdown[p][e].wake <= now
  /\ FinalizeRead(p, e)
  /\ countdown' = [countdown EXCEPT ![p][e] = NoTask]
  /\ UNCHANGED <<now, build, sess, ev, nextEvent, proc, thr, crashes>>

(* The commit of finalize_publish_drain. *)
FinalizeCommit(p) ==
  LET op == loop[p] IN
  /\ op.pc = "finalize"
  /\ sess' = [s \in Sessions |->
                IF s \in op.rows
                THEN [sess[s] EXCEPT !.status = "revoked", !.drain = "completed"]
                ELSE sess[s]]
  /\ ev' = [ev EXCEPT ![op.event].status = "completed",
                      ![op.event].cut = @ \cup (op.rows \cap ev[op.event].audit),
                      ![op.event].revoked =
                        IF op.rows = {} THEN @ ELSE op.revoked + Cardinality(op.rows)]
  /\ loop' = [loop EXCEPT ![p] =
                IF proc[p] = "starting" THEN [Idle EXCEPT !.pc = "startup", !.due = op.due]
                ELSE Idle]
  /\ UNCHANGED <<now, build, nextEvent, proc, countdown, thr, crashes>>

-----------------------------------------------------------------------------
(* enforce_session_drain on the request path: get_auth_context has read a  *)
(* session that is neither revoked nor expired; past the deadline it cuts  *)
(* the session off and completes the event.                                *)

EnforceRead(t, s) ==
  /\ proc[Home[t]] = "up"
  /\ thr[t].pc = "idle"
  /\ s \notin Admins
  /\ Expelled(s)
  /\ ~sess[s].expired
  /\ thr' = [thr EXCEPT ![t] = [NoRequest EXCEPT !.pc = "session", !.rows = {s},
                                                 !.event = sess[s].event]]
  /\ UNCHANGED <<now, build, sess, ev, nextEvent, proc, loop, countdown, crashes>>

EnforceReadEvent(t) ==
  LET e == thr[t].event IN
  /\ thr[t].pc = "session"
  /\ thr' = [thr EXCEPT ![t].pc = "event", ![t].revoked = ev[e].revoked,
                        ![t].draining = (ev[e].status = "draining")]
  /\ UNCHANGED <<now, build, sess, ev, nextEvent, proc, loop, countdown, crashes>>

(* Mutant: revoked_at written only together with the event's completion. *)
EnforceCommit_Nested(t) ==
  LET req == thr[t] IN
  /\ req.pc = "event"
  /\ sess' = [s \in Sessions |->
                IF s \notin req.rows THEN sess[s]
                ELSE IF req.draining
                     THEN [sess[s] EXCEPT !.status = "revoked", !.drain = "completed"]
                     ELSE [sess[s] EXCEPT !.drain = "completed"]]
  /\ ev' = [ev EXCEPT ![req.event].revoked = req.revoked + 1,
                      ![req.event].cut = @ \cup (req.rows \cap ev[req.event].audit),
                      ![req.event].status = IF req.draining THEN "completed" ELSE @]
  /\ thr' = [thr EXCEPT ![t] = NoRequest]
  /\ UNCHANGED <<now, build, nextEvent, proc, loop, countdown, crashes>>

EnforceCommit(t) ==
  LET req == thr[t] IN
  /\ req.pc = "event"
  /\ sess' = [s \in Sessions |->
                IF s \in req.rows
                THEN [sess[s] EXCEPT !.status = "revoked", !.drain = "completed"]
                ELSE sess[s]]
  /\ ev' = [ev EXCEPT ![req.event].revoked = req.revoked + 1,
                      ![req.event].cut = @ \cup (req.rows \cap ev[req.event].audit),
                      ![req.event].status = IF req.draining THEN "completed" ELSE @]
  /\ thr' = [thr EXCEPT ![t] = NoRequest]
  /\ UNCHANGED <<now, build, nextEvent, proc, loop, countdown, crashes>>

-----------------------------------------------------------------------------
(* Crash and startup of a process.  Transactions in progress roll back and *)
(* the countdowns, which live in memory only, are lost.                    *)

Crash(p) ==
  /\ proc[p] # "down"
  /\ crashes < MaxCrashes                             \* bound
  /\ crashes' = crashes + 1
  /\ proc' = [proc EXCEPT ![p] = "down"]
  /\ loop' = [loop EXCEPT ![p] = Idle]
  /\ countdown' = [countdown EXCEPT ![p] = [e \in Events |-> NoTask]]
  /\ thr' = [t \in Threads |-> IF Home[t] = p THEN NoRequest ELSE thr[t]]
  /\ UNCHANGED <<now, build, sess, ev, nextEvent>>

(* startup_seed selects the drains that are due ... *)
Restart(p) ==
  /\ proc[p] = "down"
  /\ proc' = [proc EXCEPT ![p] = "starting"]
  /\ loop' = [loop EXCEPT ![p] = [Idle EXCEPT !.pc = "startup", !.due = DueEvents]]
  /\ UNCHANGED <<now, build, sess, ev, nextEvent, countdown, thr, crashes>>

(* ... finalizes them one by one ... *)
StartupFinalize(p) ==
  /\ loop[p].pc = "startup"
  /\ \E e \in loop[p].due :
       /\ \A f \in loop[p].due : Before(e, f)
       /\ FinalizeRead(p, e)
  /\ UNCHANGED <<now, build, sess, ev, nextEvent, proc, countdown, thr, crashes>>

(* ... and then serves; no countdown is started for a drain not yet due. *)
StartupDone(p) ==
  /\ loop[p].pc = "startup"
  /\ loop[p].due = {}
  /\ proc' = [proc EXCEPT ![p] = "up"]
  /\ loop' = [loop EXCEPT ![p] = Idle]
  /\ UNCHANGED <<now, build, sess, ev, nextEvent, countdown, thr, crashes>>

-----------------------------------------------------------------------------
Publish(p) == \/ PublishBegin(p) \/ PublishPolicy(p)
              \/ PublishStart(p) \/ PublishCommit(p)

Finalize(p) == \/ \E e \in Events : CountdownStart(p, e) \/ CountdownWake(p, e)
               \/ FinalizeCommit(p)

Startup(p) == Restart(p) \/ StartupFinalize(p) \/ StartupDone(p)

Enforce(t) == \/ \E s \in Sessions : EnforceRead(t, s)
              \/ EnforceReadEvent(t) \/ EnforceCommit(t)

Next ==
  \/ Tick
  \/ \E s \in Sessions : Login(s) \/ Expire(s) \/ Revoke(s)
  \/ \E p \in Procs : Publish(p) \/ Finalize(p) \/ Startup(p) \/ Crash(p)
  \/ \E t \in Threads : Enforce(t)

Spec == Init /\ [][Next]_vars

-----------------------------------------------------------------------------
(* Properties.                                                             *)

(* The publish lock: never more drains in progress than the configured     *)
(* maximum (test_publish_drain_lock_prevents_overlap).  Both checks read    *)
(* the table before the drain they admit is visible to other processes.    *)
OneDrainAtATime == Cardinality(ActiveDrains) <= Capacity

(* A session that a completed drain failed to revoke cannot slip through:   *)
(* it is still marked, its deadline has passed, and so the next request it *)
(* makes is refused.  The event may have been completed by the countdown,  *)
(* by startup or by another session's request.                             *)
NoEscape ==
  \A s \in Sessions \ Admins :
    LET e == sess[s].event IN
    e # NoEvent /\ sess[s].status = "live" /\ ev[e].status = "completed"
      => Expelled(s)

(* The audit tells the truth: a session whose audit row says revoked_ok is *)
(* revoked, and each session marked by a drain has an audit row in it.      *)
AuditTruthful ==
  /\ \A e \in Events : \A s \in ev[e].cut : sess[s].status = "revoked"
  /\ \A s \in Sessions : sess[s].event # NoEvent => s \in ev[sess[s].event].audit

(* The grace period is honoured up to the fraction of a second that int()  *)
(* drops: no event completes, and no drain cuts a session off, more than    *)
(* one second before its deadline.  A session may have been marked by a    *)
(* later drain in the meantime; then the drain that cuts it off is one it   *)
(* was marked by before.                                                   *)
Due(e) == ev[e].status # "none" /\ ev[e].deadline < now + Second
CutOffStep ==
  /\ \A e \in Events :
       ev[e].status = "draining" /\ ev'[e].status = "completed"
         => Due(e)
  /\ \A s \in Sessions :
       sess[s].drain = "draining" /\ sess'[s].drain = "completed"
         => \E e \in Events : s \in ev[e].audit /\ Due(e)
GraceHonoured == [][CutOffStep]_vars

(* Every committed publish is announced by a drain of its own: when no     *)
(* publish is in progress, nor was cut short by a crash, the drain that    *)
(* carries the policy's version exists, so the conflict branch behind the  *)
(* policy commit is never taken ("Capacity is checked above and this path  *)
(* is defensive-only", ops.py).                                            *)
PublishIsDrained ==
  crashes = 0 /\ (\A p \in Procs : loop[p].pc \notin {"drain", "commit"})
    => build = 0 \/ \E e \in Events : ev[e].status # "none" /\ ev[e].build = build

-----------------------------------------------------------------------------
(* How the tables, the operations in progress and the countdowns agree at  *)
(* every interleaving: the facts about other transactions on which each    *)
(* commit silently relies.  Together they are inductive.                   *)

(* A marked session belongs to an existing drain, with its deadline. *)
MarksCoherent ==
  \A s \in Sessions :
    LET row == sess[s] IN
    /\ row.drain = "draining" => row.event # NoEvent
    /\ row.status = "absent" => row.event = NoEvent
    /\ row.event # NoEvent =>
         /\ ev[row.event].status # "none"
         /\ s \in ev[row.event].audit
         /\ row.deadline = ev[row.event].deadline
         /\ row.status = "live" => row.drain = "draining"

(* An event about to be committed is not in the table, and nobody else's. *)
CommitsCoherent ==
  /\ \A e \in Events : e >= nextEvent => ev[e].status = "none"
  /\ \A p \in Procs : loop[p].pc = "commit" =>
       LET op == loop[p] IN
       /\ op.event \in Events /\ op.event < nextEvent
       /\ ev[op.event].status = "none"
       /\ \A s \in op.rows : sess[s].status # "absent"
       /\ \A q \in Procs : loop[q].pc = "commit" /\ loop[q].event = op.event => q = p

(* A finalization in progress has read every session it must cut off. *)
FinalizesCoherent ==
  \A p \in Procs :
    /\ loop[p].pc = "finalize" =>
         LET op == loop[p] IN
         /\ op.event \in Events
         /\ Due(op.event)
         /\ op.rows \subseteq ev[op.event].audit
         /\ Unrevoked(op.event) \subseteq op.rows
    /\ \A e \in loop[p].due : Due(e)

(* An enforcing request works for a drain that is over. *)
RequestsCoherent ==
  \A t \in Threads : thr[t].pc # "idle" =>
    /\ thr[t].event \in Events
    /\ ev[thr[t].event].status # "none"
    /\ ev[thr[t].event].deadline <= now
    /\ thr[t].rows \subseteq ev[thr[t].event].audit

(* A countdown wakes less than a second before its drain's deadline. *)
CountdownsCoherent ==
  \A p \in Procs, e \in Events :
    /\ countdown[p][e].pc # "none" => ev[e].status # "none"
    /\ countdown[p][e].pc = "sleep" => ev[e].deadline < countdown[p][e].wake + Second

IndInv ==
  /\ TypeOK
  /\ MarksCoherent
  /\ CommitsCoherent
  /\ FinalizesCoherent
  /\ RequestsCoherent
  /\ CountdownsCoherent
  /\ NoEscape
  /\ AuditTruthful

-----------------------------------------------------------------------------
(* Fairness: the event loop runs a task that is ready, a request thread    *)
(* finishes the request it began, startup proceeds once the platform has   *)
(* restarted the process, and time passes.  Nothing obliges an operator to *)
(* publish, or a player to log in, log out or make a request.              *)

Fairness ==
  /\ WF_vars(Tick)
  /\ \A p \in Procs :
       /\ WF_vars(PublishPolicy(p) \/ PublishStart(p) \/ PublishCommit(p))
       /\ WF_vars(FinalizeCommit(p))
       /\ WF_vars(Startup(p))
       /\ \A e \in Events : WF_vars(CountdownStart(p, e)) /\ WF_vars(CountdownWake(p, e))
  /\ \A t \in Threads : WF_vars(EnforceReadEvent(t)) /\ WF_vars(EnforceCommit(t))

FairSpec == Spec /\ Fairness

(* Every drain ends, so that the next publish is not locked out for ever,  *)
(* unless a process crashes first.                                         *)
DrainEnds ==
  \A e \in Events :
    ev[e].status = "draining" ~> (ev[e].status = "completed" \/ crashes > 0)

=============================================================================
