------------------------- MODULE PublishDrainProofs -------------------------
(***************************************************************************)
(* Theorems about PublishDrain for any number of sessions, processes,      *)
(* request threads, publishes and crashes.                                 *)
(***************************************************************************)
EXTENDS PublishDrain, FiniteSetTheorems, TLAPS

USE ConstantsAssumption

(* ---------------------------------------------------------------------- *)
(* Type correctness.                                                       *)

(* The deadline of a publish and the sleep of its countdown are clock      *)
(* values: arithmetic over the constants stays in Nat.                      *)
LEMMA GraceTicks == Grace * Second \in Nat
  OBVIOUS

LEMMA WholeSecondsType == ASSUME NEW x \in Nat PROVE WholeSeconds(x) \in Nat
<1>1. x \div Second \in Nat
  OBVIOUS
<1>2. QED
  BY <1>1 DEF WholeSeconds

LEMMA RemainingType == ASSUME TypeOK, NEW e \in Events PROVE Remaining(e) \in Nat
  BY DEF TypeOK, EventRow, Remaining

(* The empty records are of the types of the rows and operations. *)
LEMMA EmptyRecords ==
  /\ NoSession \in SessionRow
  /\ NoRow \in EventRow
  /\ Idle \in LoopOp
  /\ NoTask \in Task
  /\ NoRequest \in Request
  BY DEF NoSession, NoRow, Idle, NoTask, NoRequest, SessionRow, EventRow, LoopOp,
         Task, Request, NoEvent

(* What a transaction writes to a session row keeps the row's type. *)
LEMMA SessionUpdates ==
  ASSUME NEW row \in SessionRow
  PROVE  /\ [row EXCEPT !.status = "live"] \in SessionRow
         /\ [row EXCEPT !.status = "revoked"] \in SessionRow
         /\ [row EXCEPT !.expired = TRUE] \in SessionRow
         /\ [row EXCEPT !.status = "revoked", !.drain = "completed"] \in SessionRow
         /\ \A e \in Events \cup {NoEvent}, d \in Nat :
              [row EXCEPT !.drain = "draining", !.event = e, !.deadline = d] \in SessionRow
  BY DEF SessionRow, Events, NoEvent

(* The publishing steps of an event loop. *)
LEMMA LoopPublish ==
  ASSUME NEW op \in LoopOp
  PROVE  /\ \A b \in Nat : [Idle EXCEPT !.pc = "policy", !.build = b] \in LoopOp
         /\ [op EXCEPT !.pc = "drain"] \in LoopOp
         /\ \A e \in Events, d \in Nat, S \in SUBSET Sessions :
              [op EXCEPT !.pc = "commit", !.event = e, !.deadline = d, !.rows = S]
                \in LoopOp
  BY DEF LoopOp, Idle, Events, NoEvent

(* The finalizing steps of an event loop. *)
LEMMA LoopFinalize ==
  ASSUME NEW op \in LoopOp
  PROVE  /\ \A D \in SUBSET Events : [Idle EXCEPT !.pc = "startup", !.due = D] \in LoopOp
         /\ \A e \in Events, S \in SUBSET Sessions, r \in Nat :
              [op EXCEPT !.pc = "finalize", !.event = e, !.rows = S, !.revoked = r,
                         !.due = @ \ {e}] \in LoopOp
         /\ \A e \in Events : [op EXCEPT !.due = @ \ {e}] \in LoopOp
<1>1. \A D \in SUBSET Events : [Idle EXCEPT !.pc = "startup", !.due = D] \in LoopOp
  BY DEF LoopOp, Idle, Events, NoEvent
<1>2. \A e \in Events : op.due \ {e} \in SUBSET Events
  BY DEF LoopOp
<1>3. ASSUME NEW e \in Events, NEW S \in SUBSET Sessions, NEW r \in Nat
      PROVE  [op EXCEPT !.pc = "finalize", !.event = e, !.rows = S, !.revoked = r,
                        !.due = @ \ {e}] \in LoopOp
  BY <1>2 DEF LoopOp, Events, NoEvent
<1>4. ASSUME NEW e \in Events PROVE [op EXCEPT !.due = @ \ {e}] \in LoopOp
  BY <1>2 DEF LoopOp, Events, NoEvent
<1>5. QED
  BY <1>1, <1>3, <1>4

(* What finalize_publish_drain reads. *)
LEMMA FinalizeReadType ==
  ASSUME TypeOK, NEW p \in Procs, NEW e \in Events, FinalizeRead(p, e)
  PROVE  loop' \in [Procs -> LoopOp]
<1>1. loop[p] \in LoopOp /\ Unrevoked(e) \in SUBSET Sessions /\ ev[e].revoked \in Nat
  BY DEF TypeOK, Unrevoked, EventRow
<1>2. /\ [loop[p] EXCEPT !.pc = "finalize", !.event = e, !.rows = Unrevoked(e),
                         !.revoked = ev[e].revoked, !.due = @ \ {e}] \in LoopOp
      /\ [loop[p] EXCEPT !.due = @ \ {e}] \in LoopOp
  BY <1>1, LoopFinalize
<1>3. QED
  BY <1>2 DEF FinalizeRead, TypeOK

(* The rows a drain event is written with. *)
LEMMA EventCommits ==
  ASSUME NEW row \in EventRow, NEW S \in SUBSET Sessions, NEW r \in Nat
  PROVE  /\ [row EXCEPT !.status = "completed", !.cut = @ \cup (S \cap row.audit),
                        !.revoked = r] \in EventRow
         /\ \A B \in BOOLEAN :
              [row EXCEPT !.revoked = r, !.cut = @ \cup (S \cap row.audit),
                          !.status = IF B THEN "completed" ELSE @] \in EventRow
<1>1. row.cut \cup (S \cap row.audit) \in SUBSET Sessions
  BY DEF EventRow
<1>2. QED
  BY <1>1 DEF EventRow

(* The number of rows a finalization revokes. *)
LEMMA RowCount == ASSUME NEW S \in SUBSET Sessions
                  PROVE  IsFiniteSet(S) /\ Cardinality(S) \in Nat
  BY FS_Subset, FS_CardinalityType

(* Every variable keeps its type: the tables, the operations in progress,  *)
(* the countdowns and the requests.                                        *)
LEMMA TypeStep == TypeOK /\ RequestsCoherent /\ [Next]_vars => TypeOK'
<1> SUFFICES ASSUME TypeOK, RequestsCoherent, [Next]_vars PROVE TypeOK'
  OBVIOUS
<1>0. /\ now \in Nat /\ build \in Nat
      /\ \A s \in Sessions : sess[s] \in SessionRow
      /\ \A e \in Events : ev[e] \in EventRow
      /\ \A p \in Procs : loop[p] \in LoopOp
      /\ \A p \in Procs : countdown[p] \in [Events -> Task]
      /\ \A t \in Threads : thr[t] \in Request
  BY DEF TypeOK
<1>1. CASE Tick
  BY <1>1 DEF Tick, TypeOK
<1>2. ASSUME NEW s \in Sessions, Login(s) \/ Expire(s) \/ Revoke(s) PROVE TypeOK'
  <2>1. sess' \in [Sessions -> SessionRow]
    <3>1. /\ [sess[s] EXCEPT !.status = "live"] \in SessionRow
          /\ [sess[s] EXCEPT !.status = "revoked"] \in SessionRow
          /\ [sess[s] EXCEPT !.expired = TRUE] \in SessionRow
      BY <1>0, SessionUpdates
    <3>2. CASE Login(s)
      BY <3>1, <3>2 DEF Login, TypeOK
    <3>3. CASE Expire(s)
      BY <3>1, <3>3 DEF Expire, TypeOK
    <3>4. CASE Revoke(s)
      BY <3>1, <3>4 DEF Revoke, TypeOK
    <3>5. QED
      BY <1>2, <3>2, <3>3, <3>4
  <2>2. QED
    BY <1>2, <2>1 DEF Login, Expire, Revoke, TypeOK
<1>3. ASSUME NEW p \in Procs, PublishBegin(p) PROVE TypeOK'
  <2>1. [Idle EXCEPT !.pc = "policy", !.build = build + 1] \in LoopOp
    <3>1. build + 1 \in Nat /\ loop[p] \in LoopOp
      BY <1>0
    <3>2. QED
      BY <3>1, LoopPublish
  <2>2. loop' \in [Procs -> LoopOp]
    BY <1>3, <2>1 DEF PublishBegin, TypeOK
  <2>3. QED
    BY <1>3, <2>2 DEF PublishBegin, TypeOK
<1>4. ASSUME NEW p \in Procs, PublishPolicy(p) PROVE TypeOK'
  <2>1. loop' \in [Procs -> LoopOp]
    <3>1. [loop[p] EXCEPT !.pc = "drain"] \in LoopOp
      BY <1>0, LoopPublish
    <3>2. QED
      BY <1>4, <3>1 DEF PublishPolicy, TypeOK
  <2>2. build' \in Nat
    BY <1>0, <1>4 DEF PublishPolicy, LoopOp
  <2>3. QED
    BY <1>4, <2>1, <2>2 DEF PublishPolicy, TypeOK
<1>5. ASSUME NEW p \in Procs, PublishConflict(p), PublishStart(p) PROVE TypeOK'
  BY <1>5, EmptyRecords DEF PublishConflict, TypeOK
<1>6. ASSUME NEW p \in Procs, PublishAdmitted(p), PublishStart(p) PROVE TypeOK'
  <2>1. /\ now + Grace * Second \in Nat
        /\ Targets \in SUBSET Sessions
        /\ nextEvent \in Events
        /\ nextEvent' \in 1..(MaxEvents + 1)
    <3>1. now + Grace * Second \in Nat
      BY <1>0, GraceTicks
    <3>2. Targets \in SUBSET Sessions
      BY DEF Targets
    <3>3. nextEvent \in Events /\ nextEvent' \in 1..(MaxEvents + 1)
      BY <1>6 DEF PublishAdmitted, TypeOK, Events
    <3>4. QED
      BY <3>1, <3>2, <3>3
  <2>2. [loop[p] EXCEPT !.pc = "commit", !.event = nextEvent,
                        !.deadline = now + Grace * Second, !.rows = Targets] \in LoopOp
    BY <1>0, <2>1, LoopPublish
  <2>3. loop' \in [Procs -> LoopOp]
    BY <1>6, <2>2 DEF PublishAdmitted, TypeOK
  <2>4. QED
    BY <1>6, <2>1, <2>3 DEF PublishAdmitted, TypeOK
<1>7. ASSUME NEW p \in Procs, PublishCommit(p) PROVE TypeOK'
  <2>1. /\ loop[p].event \in Events \cup {NoEvent} /\ loop[p].deadline \in Nat
        /\ loop[p].build \in Nat /\ loop[p].rows \in SUBSET Sessions
    BY <1>0 DEF LoopOp
  <2>2. ev' \in [Events -> EventRow]
    <3>1. [status |-> "draining", deadline |-> loop[p].deadline, build |-> loop[p].build,
           audit |-> loop[p].rows, cut |-> {}, revoked |-> 0] \in EventRow
      BY <2>1 DEF EventRow
    <3>2. QED
      BY <1>7, <3>1 DEF PublishCommit, TypeOK
  <2>3. sess' \in [Sessions -> SessionRow]
    BY <1>0, <1>7, <2>1, SessionUpdates DEF PublishCommit, TypeOK
  <2>4. countdown' \in [Procs -> [Events -> Task]]
    <3>1. \A e : \A f \in [Events -> Task] : [f EXCEPT ![e].pc = "new"] \in [Events -> Task]
      BY DEF Task
    <3>2. QED
      BY <1>0, <1>7, <3>1 DEF PublishCommit, TypeOK
  <2>5. QED
    BY <1>7, <2>2, <2>3, <2>4, EmptyRecords DEF PublishCommit, TypeOK
<1>8. ASSUME NEW p \in Procs, NEW e \in Events, CountdownStart(p, e) PROVE TypeOK'
  <2>1. [pc |-> "sleep", wake |-> now + WholeSeconds(Remaining(e))] \in Task
    BY <1>0, RemainingType, WholeSecondsType DEF Task
  <2>2. [countdown[p] EXCEPT ![e] =
           IF ev[e].status = "draining"
           THEN [pc |-> "sleep", wake |-> now + WholeSeconds(Remaining(e))]
           ELSE NoTask] \in [Events -> Task]
    BY <1>0, <2>1, EmptyRecords
  <2>3. countdown' \in [Procs -> [Events -> Task]]
    BY <1>8, <2>2 DEF CountdownStart, TypeOK
  <2>4. QED
    BY <1>8, <2>3 DEF CountdownStart, TypeOK
<1>9. ASSUME NEW p \in Procs, NEW e \in Events, CountdownWake(p, e) PROVE TypeOK'
  <2>1. loop' \in [Procs -> LoopOp]
    BY <1>9, FinalizeReadType DEF CountdownWake
  <2>2. countdown' \in [Procs -> [Events -> Task]]
    BY <1>0, <1>9, EmptyRecords DEF CountdownWake, TypeOK
  <2>3. QED
    BY <1>9, <2>1, <2>2 DEF CountdownWake, TypeOK
<1>10. ASSUME NEW p \in Procs, FinalizeCommit(p) PROVE TypeOK'
  <2>1. /\ loop[p].rows \in SUBSET Sessions /\ loop[p].revoked \in Nat
        /\ loop[p].due \in SUBSET Events
    BY <1>0 DEF LoopOp
  <2>2. sess' \in [Sessions -> SessionRow]
    BY <1>0, <1>10, SessionUpdates DEF FinalizeCommit, TypeOK
  <2>3. ev' \in [Events -> EventRow]
    <3>1. CASE loop[p].event \in Events
      <4> DEFINE e == loop[p].event
                 r == IF loop[p].rows = {} THEN ev[e].revoked
                      ELSE loop[p].revoked + Cardinality(loop[p].rows)
      <4>1. r \in Nat
        BY <1>0, <2>1, <3>1, RowCount DEF EventRow
      <4>2. [ev[e] EXCEPT !.status = "completed",
                          !.cut = @ \cup (loop[p].rows \cap ev[e].audit),
                          !.revoked = r] \in EventRow
        BY <1>0, <2>1, <3>1, <4>1, EventCommits
      <4>3. ev' = [ev EXCEPT ![e] = [ev[e] EXCEPT !.status = "completed",
                          !.cut = @ \cup (loop[p].rows \cap ev[e].audit),
                          !.revoked = r]]
        BY <1>10, <3>1 DEF FinalizeCommit, TypeOK
      <4>4. QED
        BY <3>1, <4>2, <4>3 DEF TypeOK
    <3>2. CASE loop[p].event \notin Events
      BY <1>10, <3>2 DEF FinalizeCommit, TypeOK
    <3>3. QED
      BY <3>1, <3>2
  <2>4. loop' \in [Procs -> LoopOp]
    BY <1>0, <1>10, <2>1, LoopFinalize, EmptyRecords DEF FinalizeCommit, TypeOK
  <2>5. QED
    BY <1>10, <2>2, <2>3, <2>4 DEF FinalizeCommit, TypeOK
<1>11. ASSUME NEW p \in Procs, Restart(p) PROVE TypeOK'
  <2>1. DueEvents \in SUBSET Events
    BY DEF DueEvents, ActiveDrains
  <2>2. loop' \in [Procs -> LoopOp]
    BY <1>0, <1>11, <2>1, LoopFinalize DEF Restart, TypeOK
  <2>3. QED
    BY <1>11, <2>2 DEF Restart, TypeOK
<1>12. ASSUME NEW p \in Procs, StartupFinalize(p) PROVE TypeOK'
  <2>1. PICK e \in loop[p].due : FinalizeRead(p, e)
    BY <1>12 DEF StartupFinalize
  <2>2. e \in Events
    BY <1>0 DEF LoopOp
  <2>3. loop' \in [Procs -> LoopOp]
    BY <2>1, <2>2, FinalizeReadType
  <2>4. QED
    BY <1>12, <2>3 DEF StartupFinalize, TypeOK
<1>13. ASSUME NEW p \in Procs, StartupDone(p) PROVE TypeOK'
  BY <1>13, EmptyRecords DEF StartupDone, TypeOK
<1>14. ASSUME NEW p \in Procs, Crash(p) PROVE TypeOK'
  <2>1. countdown' \in [Procs -> [Events -> Task]]
    BY <1>0, <1>14, EmptyRecords DEF Crash, TypeOK
  <2>2. thr' \in [Threads -> Request]
    BY <1>0, <1>14, EmptyRecords DEF Crash
  <2>3. loop' \in [Procs -> LoopOp] /\ crashes' \in 0..MaxCrashes
    BY <1>0, <1>14, EmptyRecords DEF Crash, TypeOK
  <2>4. QED
    BY <1>14, <2>1, <2>2, <2>3 DEF Crash, TypeOK
<1>15. ASSUME NEW t \in Threads, NEW s \in Sessions, EnforceRead(t, s) PROVE TypeOK'
  <2>1. sess[s].event \in Events \cup {NoEvent}
    BY <1>0 DEF SessionRow
  <2>2. [NoRequest EXCEPT !.pc = "session", !.rows = {s}, !.event = sess[s].event] \in Request
    BY <2>1 DEF NoRequest, Request
  <2>3. thr' \in [Threads -> Request]
    BY <1>15, <2>2 DEF EnforceRead, TypeOK
  <2>4. QED
    BY <1>15, <2>3 DEF EnforceRead, TypeOK
<1>16. ASSUME NEW t \in Threads, EnforceReadEvent(t) PROVE TypeOK'
  <2>1. ev[thr[t].event].revoked \in Nat
    BY <1>0, <1>16 DEF EnforceReadEvent, RequestsCoherent, EventRow
  <2>2. ASSUME NEW r \in Nat, NEW B \in BOOLEAN
        PROVE  [thr[t] EXCEPT !.pc = "event", !.revoked = r, !.draining = B] \in Request
    BY <1>0 DEF Request
  <2>3. thr' \in [Threads -> Request]
    BY <1>16, <2>1, <2>2 DEF EnforceReadEvent, TypeOK
  <2>4. QED
    BY <1>16, <2>3 DEF EnforceReadEvent, TypeOK
<1>17. ASSUME NEW t \in Threads, EnforceCommit(t) PROVE TypeOK'
  <2> DEFINE e == thr[t].event
  <2>1. /\ thr[t].rows \in SUBSET Sessions /\ thr[t].revoked + 1 \in Nat
        /\ thr[t].draining \in BOOLEAN /\ e \in Events
    <3>1. thr[t] \in Request /\ thr[t].pc = "event"
      BY <1>0, <1>17 DEF EnforceCommit
    <3>2. e \in Events
      BY <3>1 DEF RequestsCoherent
    <3>3. QED
      BY <3>1, <3>2 DEF Request
  <2>2. sess' \in [Sessions -> SessionRow]
    <3>1. \A s \in Sessions :
            [sess[s] EXCEPT !.status = "revoked", !.drain = "completed"] \in SessionRow
      BY <1>0, SessionUpdates
    <3>2. QED
      BY <1>0, <1>17, <3>1 DEF EnforceCommit
  <2>3. [ev[e] EXCEPT !.revoked = thr[t].revoked + 1,
                      !.cut = @ \cup (thr[t].rows \cap ev[e].audit),
                      !.status = IF thr[t].draining THEN "completed" ELSE @] \in EventRow
    BY <1>0, <2>1, EventCommits
  <2>4. ev' \in [Events -> EventRow]
    <3>1. ev' = [ev EXCEPT ![e] =
                   [ev[e] EXCEPT !.revoked = thr[t].revoked + 1,
                                 !.cut = @ \cup (thr[t].rows \cap ev[e].audit),
                                 !.status = IF thr[t].draining THEN "completed" ELSE @]]
      BY <1>17, <2>1 DEF EnforceCommit, TypeOK
    <3>2. QED
      BY <2>1, <2>3, <3>1 DEF TypeOK
  <2>5. thr' \in [Threads -> Request]
    BY <1>17, EmptyRecords DEF EnforceCommit, TypeOK
  <2>6. QED
    BY <1>17, <2>2, <2>4, <2>5 DEF EnforceCommit, TypeOK
<1>18. CASE UNCHANGED vars
  BY <1>18 DEF vars, TypeOK
<1>19. QED
  BY <1>1, <1>2, <1>3, <1>4, <1>5, <1>6, <1>7, <1>8, <1>9, <1>10, <1>11, <1>12, <1>13,
     <1>14, <1>15, <1>16, <1>17, <1>18
     DEF Next, Publish, PublishStart, Finalize, Startup, Enforce

(* ---------------------------------------------------------------------- *)
(* The inductive invariant.  The steps that change session rows are of     *)
(* three kinds: a session's own life, a mark, and a cut-off.               *)

(* A session's own life: rows are inserted, expire or are revoked, and     *)
(* keep the mark they have.                                                *)
LEMMA LifeStep ==
  ASSUME IndInv, TypeOK', NEW s \in Sessions, Login(s) \/ Expire(s) \/ Revoke(s)
  PROVE  IndInv'
<1>1. /\ UNCHANGED <<now, ev, nextEvent, loop, countdown, thr>>
      /\ \A x \in Sessions :
           /\ sess'[x].drain = sess[x].drain
           /\ sess'[x].event = sess[x].event
           /\ sess'[x].deadline = sess[x].deadline
           /\ sess'[x].status = "absent" => sess[x].status = "absent"
           /\ sess[x].status = "revoked" => sess'[x].status = "revoked"
           /\ sess'[x].status = "live" => sess[x].status \in {"live", "absent"}
  <2>1. CASE Login(s)
    BY <2>1 DEF Login, IndInv, TypeOK, SessionRow
  <2>2. CASE Expire(s)
    BY <2>2 DEF Expire, IndInv, TypeOK, SessionRow
  <2>3. CASE Revoke(s)
    BY <2>3 DEF Revoke, IndInv, TypeOK, SessionRow
  <2>4. QED
    BY <2>1, <2>2, <2>3
<1> USE DEF IndInv
<1>2. MarksCoherent'
  BY <1>1 DEF MarksCoherent
<1>3. CommitsCoherent'
  <2>1. \A p \in Procs : loop[p] \in LoopOp
    BY DEF TypeOK
  <2>2. \A p \in Procs : loop[p].rows \subseteq Sessions
    BY <2>1 DEF LoopOp
  <2>3. QED
    BY <1>1, <2>2 DEF CommitsCoherent
<1>4. FinalizesCoherent'
  <2>1. \A e \in Events : Unrevoked(e)' \subseteq Unrevoked(e)
    BY <1>1 DEF MarksCoherent, Unrevoked, Events, NoEvent
  <2>2. \A e \in Events : Due(e)' = Due(e)
    BY <1>1 DEF Due
  <2>3. \A p \in Procs : loop[p].due \subseteq Events
    BY DEF TypeOK, LoopOp
  <2>4. QED
    BY <1>1, <2>1, <2>2, <2>3 DEF FinalizesCoherent
<1>5. RequestsCoherent'
  BY <1>1 DEF RequestsCoherent
<1>6. CountdownsCoherent'
  BY <1>1 DEF CountdownsCoherent
<1>7. NoEscape'
  BY <1>1 DEF NoEscape, Expelled, MarksCoherent
<1>8. AuditTruthful'
  <2>1. \A e \in Events : ev[e].cut \subseteq Sessions
    BY DEF TypeOK, EventRow
  <2>2. QED
    BY <1>1, <2>1 DEF AuditTruthful
<1>9. QED
  BY <1>2, <1>3, <1>4, <1>5, <1>6, <1>7, <1>8

(* Time only brings deadlines nearer. *)
LEMMA TickStep == ASSUME IndInv, TypeOK', Tick PROVE IndInv'
<1> USE DEF IndInv
<1>1. /\ now \in Nat /\ now' = now + 1
      /\ UNCHANGED <<sess, ev, nextEvent, loop, countdown, thr>>
  BY DEF Tick, TypeOK
<1>2. MarksCoherent' /\ CommitsCoherent' /\ AuditTruthful' /\ CountdownsCoherent'
  BY <1>1 DEF MarksCoherent, CommitsCoherent, AuditTruthful, CountdownsCoherent
<1>3. FinalizesCoherent'
  <2>1. \A e \in Events : Unrevoked(e)' = Unrevoked(e)
    BY <1>1 DEF Unrevoked
  <2>2. \A e \in Events : Due(e) => Due(e)'
    BY <1>1 DEF Due, TypeOK, EventRow
  <2>3. \A p \in Procs : loop[p].due \subseteq Events
    BY DEF TypeOK, LoopOp
  <2>4. QED
    BY <1>1, <2>1, <2>2, <2>3 DEF FinalizesCoherent
<1>4. RequestsCoherent'
  BY <1>1 DEF RequestsCoherent, TypeOK, EventRow
<1>5. NoEscape'
  BY <1>1 DEF NoEscape, Expelled, TypeOK, SessionRow
<1>6. QED
  BY <1>2, <1>3, <1>4, <1>5

(* Steps of an event loop that write no table: what is left to show is     *)
(* that the operation now in progress has read what it relies on.          *)
LEMMA LoopStep ==
  ASSUME IndInv, TypeOK', NEW p \in Procs,
         UNCHANGED <<now, sess, ev>>,
         \A t \in Threads : thr'[t] = thr[t] \/ thr'[t].pc = "idle",
         \A q \in Procs \ {p} : loop'[q] = loop[q] /\ countdown'[q] = countdown[q],
         nextEvent' >= nextEvent,
         loop'[p].pc = "commit" =>
           /\ loop'[p].event \in Events
           /\ nextEvent <= loop'[p].event /\ loop'[p].event < nextEvent'
           /\ \A s \in loop'[p].rows : sess[s].status # "absent",
         loop'[p].pc = "finalize" =>
           LET e == loop'[p].event IN
           /\ e \in Events /\ Due(e)
           /\ loop'[p].rows = Unrevoked(e),
         \A e \in loop'[p].due : Due(e),
         \A e \in Events :
           /\ countdown'[p][e].pc # "none" => ev[e].status # "none"
           /\ countdown'[p][e].pc = "sleep" => ev[e].deadline < countdown'[p][e].wake + Second
  PROVE  IndInv'
<1> USE DEF IndInv
<1>0. /\ nextEvent \in Nat /\ nextEvent' \in Nat
      /\ \A e \in Events : e \in Nat
  BY DEF TypeOK, Events
<1>1. MarksCoherent' /\ RequestsCoherent' /\ AuditTruthful'
  BY DEF MarksCoherent, RequestsCoherent, AuditTruthful
<1>2. NoEscape'
  BY DEF NoEscape, Expelled
<1>3. CountdownsCoherent'
  BY DEF CountdownsCoherent
<1>4. CommitsCoherent'
  <2>1. \A e \in Events : e >= nextEvent' => ev[e].status = "none"
    BY <1>0 DEF CommitsCoherent
  <2>2. ASSUME NEW q \in Procs \ {p}, loop'[q].pc = "commit"
        PROVE  /\ loop'[q].event \in Events /\ loop'[q].event < nextEvent
               /\ ev[loop'[q].event].status = "none"
               /\ \A s \in loop'[q].rows : sess[s].status # "absent"
               /\ \A r \in Procs \ {p} :
                    loop'[r].pc = "commit" /\ loop'[r].event = loop'[q].event => r = q
    BY <2>2 DEF CommitsCoherent
  <2>3. loop'[p].pc = "commit" => ev[loop'[p].event].status = "none"
    BY DEF CommitsCoherent
  <2>4. ASSUME NEW q \in Procs \ {p}, loop'[q].pc = "commit", loop'[p].pc = "commit"
        PROVE  loop'[q].event # loop'[p].event
    BY <1>0, <2>2, <2>4
  <2>5. QED
    BY <1>0, <2>1, <2>2, <2>3, <2>4 DEF CommitsCoherent
<1>5. FinalizesCoherent'
  <2>1. \A e \in Events : Unrevoked(e) \subseteq ev[e].audit
    BY DEF Unrevoked, AuditTruthful, Events, NoEvent
  <2>2. \A e \in Events : Unrevoked(e)' = Unrevoked(e) /\ Due(e)' = Due(e)
    BY DEF Unrevoked, Due
  <2>3. \A q \in Procs : loop'[q].due \subseteq Events
    BY DEF TypeOK, LoopOp
  <2>4. ASSUME NEW q \in Procs \ {p} PROVE
          /\ loop'[q].pc = "finalize" =>
               /\ loop'[q].event \in Events /\ Due(loop'[q].event)
               /\ loop'[q].rows \subseteq ev[loop'[q].event].audit
               /\ Unrevoked(loop'[q].event) \subseteq loop'[q].rows
          /\ \A e \in loop'[q].due : Due(e)
    BY DEF FinalizesCoherent
  <2>5. loop'[p].pc = "finalize" =>
          loop'[p].rows \subseteq ev[loop'[p].event].audit
    BY <2>1
  <2>6. QED
    BY <2>2, <2>3, <2>4, <2>5 DEF FinalizesCoherent
<1>6. QED
  BY <1>1, <1>2, <1>3, <1>4, <1>5

(* The commit of a new drain: its event appears and its rows are marked. *)
LEMMA MarkStep ==
  ASSUME IndInv, TypeOK', NEW p \in Procs, PublishCommit(p)
  PROVE  IndInv'
<1> USE DEF IndInv
<1> DEFINE n == loop[p].event
           R == loop[p].rows
<1>0. /\ n \in Events /\ n < nextEvent /\ ev[n].status = "none" /\ n # NoEvent
      /\ R \subseteq Sessions /\ loop[p].pc = "commit"
      /\ \A s \in R : sess[s].status # "absent"
      /\ \A q \in Procs : loop[q].pc = "commit" /\ loop[q].event = n => q = p
  <2>1. loop[p] \in LoopOp /\ loop[p].pc = "commit"
    BY DEF PublishCommit, TypeOK
  <2>2. R \subseteq Sessions
    BY <2>1 DEF LoopOp
  <2>3. QED
    BY <2>1, <2>2 DEF CommitsCoherent, Events, NoEvent
<1>1. /\ UNCHANGED <<now, nextEvent, thr>>
      /\ \A e \in Events \ {n} : ev'[e] = ev[e]
      /\ ev'[n].status = "draining" /\ ev'[n].deadline = loop[p].deadline
      /\ ev'[n].audit = R /\ ev'[n].cut = {}
  BY <1>0 DEF PublishCommit, TypeOK
<1>2. /\ \A s \in Sessions \ R : sess'[s] = sess[s]
      /\ \A s \in R : /\ sess'[s].drain = "draining"
                      /\ sess'[s].event = n
                      /\ sess'[s].deadline = loop[p].deadline
                      /\ sess'[s].status = sess[s].status
  <2>1. sess' = [s \in Sessions |->
                  IF s \in R THEN [sess[s] EXCEPT !.drain = "draining", !.event = n,
                                                  !.deadline = loop[p].deadline]
                  ELSE sess[s]]
    BY DEF PublishCommit
  <2>2. \A s \in Sessions : sess[s] \in SessionRow
    BY DEF TypeOK
  <2>3. ASSUME NEW s \in R
        PROVE  /\ sess'[s].drain = "draining" /\ sess'[s].event = n
               /\ sess'[s].deadline = loop[p].deadline
               /\ sess'[s].status = sess[s].status
    <3>1. sess'[s] = [sess[s] EXCEPT !.drain = "draining", !.event = n,
                                     !.deadline = loop[p].deadline]
      BY <1>0, <2>1
    <3>2. sess[s] \in SessionRow
      BY <1>0, <2>2
    <3>3. QED
      BY <3>1, <3>2 DEF SessionRow
  <2>4. QED
    BY <1>0, <2>1, <2>3
<1>3. /\ \A q \in Procs \ {p} : loop'[q] = loop[q] /\ countdown'[q] = countdown[q]
      /\ loop'[p] = Idle
  BY DEF PublishCommit, TypeOK
<1>4. /\ \A e \in Events \ {n} : countdown'[p][e] = countdown[p][e]
      /\ countdown'[p][n].pc = "new"
  <2>1. countdown[p] \in [Events -> Task] /\ countdown \in [Procs -> [Events -> Task]]
    BY DEF TypeOK
  <2>2. countdown'[p] = [countdown[p] EXCEPT ![n].pc = "new"]
    BY <2>1 DEF PublishCommit
  <2>3. countdown[p][n] \in Task
    BY <1>0, <2>1
  <2>4. QED
    BY <1>0, <2>1, <2>2, <2>3 DEF Task
<1>5. \A s \in Sessions : sess[s].event # n
  BY <1>0 DEF MarksCoherent
<1>6. MarksCoherent'
  <2>1. ASSUME NEW s \in Sessions \ R
        PROVE  /\ sess[s].event # NoEvent => sess[s].event \in Events \ {n}
               /\ sess'[s] = sess[s]
    BY <1>2, <1>5 DEF TypeOK, SessionRow
  <2>2. ASSUME NEW s \in Sessions PROVE
          /\ sess'[s].drain = "draining" => sess'[s].event # NoEvent
          /\ sess'[s].status = "absent" => sess'[s].event = NoEvent
          /\ sess'[s].event # NoEvent =>
               /\ ev'[sess'[s].event].status # "none"
               /\ s \in ev'[sess'[s].event].audit
               /\ sess'[s].deadline = ev'[sess'[s].event].deadline
               /\ sess'[s].status = "live" => sess'[s].drain = "draining"
    <3>1. CASE s \in R
      BY <1>0, <1>1, <1>2, <3>1
    <3>2. CASE s \notin R
      BY <1>1, <2>1, <3>2 DEF MarksCoherent
    <3>3. QED
      BY <3>1, <3>2
  <2>3. QED
    BY <2>2 DEF MarksCoherent
<1>7. CommitsCoherent'
  <2>1. \A e \in Events : e >= nextEvent' => ev'[e].status = "none"
    BY <1>0, <1>1 DEF CommitsCoherent, TypeOK, Events
  <2>2. \A q \in Procs : loop'[q].pc = "commit" => q # p /\ loop[q].pc = "commit" /\ loop'[q] = loop[q]
    BY <1>3 DEF Idle
  <2>3. \A s \in Sessions : sess'[s].status = sess[s].status
    BY <1>2
  <2>4. \A q \in Procs : loop[q].rows \subseteq Sessions
    BY DEF TypeOK, LoopOp
  <2>5. QED
    BY <1>0, <1>1, <2>1, <2>2, <2>3, <2>4 DEF CommitsCoherent
<1>8. \A e \in Events : Due(e) => e # n /\ Due(e)'
  BY <1>0, <1>1 DEF Due
<1>9. FinalizesCoherent'
  <2>1. \A e \in Events \ {n} : Unrevoked(e)' \subseteq Unrevoked(e)
    BY <1>0, <1>2 DEF Unrevoked
  <2>2. \A q \in Procs : loop[q].due \subseteq Events
    BY DEF TypeOK, LoopOp
  <2>3. ASSUME NEW q \in Procs PROVE
          /\ loop'[q].pc = "finalize" =>
               \E e \in Events :
                 /\ e = loop'[q].event
                 /\ Due(e)'
                 /\ loop'[q].rows \subseteq ev'[e].audit
                 /\ Unrevoked(e)' \subseteq loop'[q].rows
          /\ \A e \in loop'[q].due : Due(e)'
    <3>1. CASE q = p
      BY <1>3, <3>1 DEF Idle
    <3>2. CASE q # p
      <4>1. loop'[q] = loop[q]
        BY <1>3, <3>2
      <4>2. \A e \in loop[q].due : Due(e)'
        BY <1>8, <2>2 DEF FinalizesCoherent
      <4>3. ASSUME loop[q].pc = "finalize"
            PROVE  \E e \in Events \ {n} :
                     /\ e = loop[q].event
                     /\ Due(e)'
                     /\ loop[q].rows \subseteq ev[e].audit
                     /\ Unrevoked(e)' \subseteq loop[q].rows
        BY <1>8, <2>1, <4>3 DEF FinalizesCoherent
      <4>4. QED
        BY <1>1, <4>1, <4>2, <4>3
    <3>3. QED
      BY <3>1, <3>2
  <2>4. QED
    BY <2>3 DEF FinalizesCoherent
<1>10. RequestsCoherent'
  BY <1>0, <1>1 DEF RequestsCoherent
<1>11. CountdownsCoherent'
  BY <1>0, <1>1, <1>3, <1>4 DEF CountdownsCoherent
<1>12. NoEscape'
  <2>1. \A s \in Sessions \ Admins :
          sess'[s].event # NoEvent /\ ev'[sess'[s].event].status = "completed"
            => s \notin R /\ sess[s].event \in Events \ {n}
    BY <1>0, <1>1, <1>2, <1>5 DEF TypeOK, SessionRow
  <2>2. QED
    BY <1>1, <1>2, <2>1 DEF NoEscape, Expelled
<1>13. AuditTruthful'
  <2>1. \A e \in Events : \A s \in ev'[e].cut : sess'[s].status = "revoked"
    <3>1. ASSUME NEW e \in Events, NEW s \in ev'[e].cut
          PROVE  s \in Sessions /\ sess[s].status = "revoked"
      BY <1>1 DEF AuditTruthful, TypeOK, EventRow
    <3>2. QED
      BY <1>2, <3>1
  <2>2. \A s \in Sessions : sess'[s].event # NoEvent => s \in ev'[sess'[s].event].audit
    BY <1>6 DEF MarksCoherent
  <2>3. QED
    BY <2>1, <2>2 DEF AuditTruthful
<1>14. QED
  BY <1>6, <1>7, <1>9, <1>10, <1>11, <1>12, <1>13

(* A cut-off, by a finalization or by an enforcing request: the rows are   *)
(* revoked, their audit rows say so, and the event may be completed once   *)
(* nobody is left in it whom the next request would not refuse.            *)
LEMMA CutStep ==
  ASSUME IndInv, TypeOK', UNCHANGED <<now, nextEvent, countdown>>,
         NEW n \in Events, NEW R \in SUBSET Sessions,
         ev[n].status # "none",
         \A s \in Sessions \ R : sess'[s] = sess[s],
         \A s \in R : /\ sess'[s].status = "revoked" /\ sess'[s].drain = "completed"
                      /\ sess'[s].event = sess[s].event
                      /\ sess'[s].deadline = sess[s].deadline,
         R \subseteq ev[n].audit,
         \A e \in Events \ {n} : ev'[e] = ev[e],
         ev'[n].deadline = ev[n].deadline, ev'[n].audit = ev[n].audit,
         ev'[n].cut \subseteq ev[n].cut \cup R,
         ev'[n].status \in {ev[n].status, "completed"},
         ev'[n].status # ev[n].status =>
           \A s \in Sessions \ Admins : s \in Unrevoked(n) \ R => Expelled(s),
         \A q \in Procs :
           /\ loop'[q] = loop[q] \/ loop'[q].pc \in {"idle", "startup"}
           /\ loop'[q].due \subseteq loop[q].due,
         \A t \in Threads : thr'[t] = thr[t] \/ thr'[t].pc = "idle"
  PROVE  IndInv'
<1> USE DEF IndInv
<1>0. /\ \A s \in Sessions : sess[s].event \in Events \cup {NoEvent}
      /\ \A s \in Sessions : sess'[s].event = sess[s].event
                           /\ sess'[s].deadline = sess[s].deadline
      /\ \A e \in Events : ev'[e].audit = ev[e].audit /\ ev'[e].deadline = ev[e].deadline
      /\ \A e \in Events : ev[e].status # "none" => ev'[e].status # "none"
  BY DEF TypeOK, SessionRow
<1>1. MarksCoherent'
  <2>1. ASSUME NEW s \in Sessions PROVE
          /\ sess'[s].drain = "draining" => sess'[s].event # NoEvent
          /\ sess'[s].status = "absent" => sess'[s].event = NoEvent
          /\ sess'[s].event # NoEvent =>
               /\ ev'[sess'[s].event].status # "none"
               /\ s \in ev'[sess'[s].event].audit
               /\ sess'[s].deadline = ev'[sess'[s].event].deadline
               /\ sess'[s].status = "live" => sess'[s].drain = "draining"
    <3>1. CASE s \in R
      BY <1>0, <3>1 DEF MarksCoherent
    <3>2. CASE s \notin R
      BY <1>0, <3>2 DEF MarksCoherent
    <3>3. QED
      BY <3>1, <3>2
  <2>2. QED
    BY <2>1 DEF MarksCoherent
<1>2. CommitsCoherent'
  <2>1. \A q \in Procs : loop[q].rows \subseteq Sessions
    BY DEF TypeOK, LoopOp
  <2>2. \A s \in Sessions : sess[s].status # "absent" => sess'[s].status # "absent"
    OBVIOUS
  <2>3. \A q \in Procs : loop'[q].pc = "commit" => loop'[q] = loop[q]
    OBVIOUS
  <2>4. \A e \in Events : ev[e].status = "none" => ev'[e].status = "none"
    OBVIOUS
  <2>5. QED
    BY <2>1, <2>2, <2>3, <2>4 DEF CommitsCoherent
<1>3. \A e \in Events : Due(e) => Due(e)'
  BY DEF Due
<1>4. FinalizesCoherent'
  <2>1. \A e \in Events : Unrevoked(e)' \subseteq Unrevoked(e)
    BY DEF Unrevoked
  <2>2. \A q \in Procs : loop[q].due \subseteq Events
    BY DEF TypeOK, LoopOp
  <2>3. \A q \in Procs : loop'[q].pc = "finalize" => loop'[q] = loop[q]
    OBVIOUS
  <2>4. \A e \in Events : ev'[e].audit = ev[e].audit
    OBVIOUS
  <2>5. QED
    BY <1>3, <2>1, <2>2, <2>3, <2>4 DEF FinalizesCoherent
<1>5. RequestsCoherent'
  BY DEF RequestsCoherent
<1>6. CountdownsCoherent'
  BY DEF CountdownsCoherent
<1>7. NoEscape'
  <2>1. ASSUME NEW s \in Sessions \ Admins, sess'[s].event # NoEvent,
               sess'[s].status = "live", ev'[sess'[s].event].status = "completed"
        PROVE  Expelled(s)'
    <3>1. s \notin R /\ sess'[s] = sess[s] /\ sess[s].event \in Events
      BY <1>0, <2>1
    <3>2. CASE ev[sess[s].event].status = "completed"
      BY <2>1, <3>1, <3>2 DEF NoEscape, Expelled
    <3>3. CASE ev[sess[s].event].status # "completed"
      <4>1. sess[s].event = n /\ ev'[n].status # ev[n].status
        BY <2>1, <3>1, <3>3
      <4>2. s \in Unrevoked(n) \ R
        BY <2>1, <3>1, <4>1 DEF Unrevoked
      <4>3. QED
        BY <3>1, <4>1, <4>2 DEF Expelled
    <3>4. QED
      BY <3>2, <3>3
  <2>2. QED
    BY <2>1 DEF NoEscape
<1>8. AuditTruthful'
  <2>1. ASSUME NEW e \in Events, NEW s \in ev'[e].cut PROVE sess'[s].status = "revoked"
    <3>1. s \in Sessions /\ (s \in R \/ s \in ev[e].cut)
      BY DEF TypeOK, EventRow
    <3>2. QED
      BY <3>1 DEF AuditTruthful
  <2>2. \A s \in Sessions : sess'[s].event # NoEvent => s \in ev'[sess'[s].event].audit
    BY <1>1 DEF MarksCoherent
  <2>3. QED
    BY <2>1, <2>2 DEF AuditTruthful
<1>9. QED
  BY <1>1, <1>2, <1>4, <1>5, <1>6, <1>7, <1>8

(* The sleep of a countdown loses less than a second. *)
LEMMA LessThanASecond == ASSUME NEW x \in Nat PROVE x < WholeSeconds(x) + Second
<1>1. /\ x = Second * (x \div Second) + (x % Second)
      /\ x % Second \in 0..(Second - 1)
      /\ x \div Second \in Nat
  OBVIOUS
<1>2. (x \div Second) * Second = Second * (x \div Second)
  BY <1>1
<1>3. Second * (x \div Second) \in Nat
  BY <1>1
<1>4. QED
  BY <1>1, <1>2, <1>3 DEF WholeSeconds

(* A drain whose deadline is past is due. *)
LEMMA PastIsDue ==
  ASSUME NEW e \in Events, now \in Nat, ev[e].deadline \in Nat,
         ev[e].deadline <= now, ev[e].status # "none"
  PROVE  Due(e)
<1>1. Second \in Nat /\ Second >= 1
  OBVIOUS
<1>2. QED
  BY <1>1 DEF Due

LEMMA IndInit == Init => IndInv
<1> SUFFICES ASSUME Init PROVE IndInv
  OBVIOUS
<1>1. TypeOK
  BY EmptyRecords DEF Init, TypeOK
<1>2. MarksCoherent /\ NoEscape /\ AuditTruthful
  BY DEF Init, MarksCoherent, NoEscape, AuditTruthful, NoSession, NoRow, Events, NoEvent
<1>3. CommitsCoherent /\ FinalizesCoherent /\ RequestsCoherent /\ CountdownsCoherent
  BY DEF Init, CommitsCoherent, FinalizesCoherent, RequestsCoherent, CountdownsCoherent,
         NoRow, Idle, NoRequest, NoTask, Events
<1>4. QED
  BY <1>1, <1>2, <1>3 DEF IndInv

(* A cut-off leaves a session's mark as it is. *)
LEMMA SessionCut ==
  ASSUME NEW row \in SessionRow
  PROVE  LET cut == [row EXCEPT !.status = "revoked", !.drain = "completed"] IN
         /\ cut.status = "revoked" /\ cut.drain = "completed"
         /\ cut.event = row.event /\ cut.deadline = row.deadline
  BY DEF SessionRow

(* A request that only reads: it works for a drain whose deadline is past. *)
LEMMA RequestStep ==
  ASSUME IndInv, TypeOK', UNCHANGED <<now, sess, ev, nextEvent, loop, countdown>>,
         NEW t \in Threads,
         \A u \in Threads \ {t} : thr'[u] = thr[u],
         thr'[t].event \in Events,
         ev[thr'[t].event].status # "none",
         ev[thr'[t].event].deadline <= now,
         thr'[t].rows \subseteq ev[thr'[t].event].audit
  PROVE  IndInv'
<1>1. RequestsCoherent'
  BY DEF IndInv, RequestsCoherent
<1>2. QED
  BY <1>1 DEF IndInv, MarksCoherent, CommitsCoherent, FinalizesCoherent,
     CountdownsCoherent, NoEscape, AuditTruthful, Due, Unrevoked, Expelled

LEMMA IndStep == IndInv /\ [Next]_vars => IndInv'
<1> SUFFICES ASSUME IndInv, [Next]_vars PROVE IndInv'
  OBVIOUS
<1>0. TypeOK'
  BY TypeStep DEF IndInv
<1>1. /\ \A p \in Procs : loop[p] \in LoopOp
      /\ \A e \in Events : ev[e] \in EventRow
      /\ loop \in [Procs -> LoopOp] /\ countdown \in [Procs -> [Events -> Task]]
      /\ thr \in [Threads -> Request]
      /\ now \in Nat /\ nextEvent \in Nat
  BY DEF IndInv, TypeOK
<1>2. /\ FinalizesCoherent /\ CountdownsCoherent /\ CommitsCoherent /\ RequestsCoherent
      /\ MarksCoherent
  BY DEF IndInv
<1>3. ASSUME NEW p \in Procs
      PROVE  /\ \A e \in loop[p].due : e \in Events /\ Due(e)
             /\ \A e \in Events :
                  /\ countdown[p][e].pc # "none" => ev[e].status # "none"
                  /\ countdown[p][e].pc = "sleep" =>
                       ev[e].deadline < countdown[p][e].wake + Second
  BY <1>1, <1>2 DEF FinalizesCoherent, CountdownsCoherent, LoopOp
<1>4. CASE Tick
  BY <1>0, <1>4, TickStep
<1>5. ASSUME NEW s \in Sessions, Login(s) \/ Expire(s) \/ Revoke(s) PROVE IndInv'
  BY <1>0, <1>5, LifeStep
<1>6. ASSUME NEW p \in Procs, PublishBegin(p) PROVE IndInv'
  <2>1. loop'[p].pc = "policy" /\ loop'[p].due = {}
    BY <1>1, <1>6 DEF PublishBegin, Idle
  <2>2. QED
    BY <1>0, <1>1, <1>3, <1>6, <2>1, LoopStep DEF PublishBegin
<1>7. ASSUME NEW p \in Procs, PublishPolicy(p) PROVE IndInv'
  <2>1. loop'[p].pc = "drain" /\ loop'[p].due = loop[p].due
    BY <1>1, <1>7 DEF PublishPolicy, LoopOp
  <2>2. /\ \A e \in loop'[p].due : Due(e)
        /\ \A e \in Events :
             /\ countdown'[p][e].pc # "none" => ev[e].status # "none"
             /\ countdown'[p][e].pc = "sleep" => ev[e].deadline < countdown'[p][e].wake + Second
    BY <1>3, <1>7, <2>1 DEF PublishPolicy
  <2>3. /\ \A q \in Procs \ {p} : loop'[q] = loop[q] /\ countdown'[q] = countdown[q]
        /\ UNCHANGED <<now, sess, ev, nextEvent, thr>>
    BY <1>1, <1>7 DEF PublishPolicy
  <2>4. QED
    BY <1>0, <1>1, <2>1, <2>2, <2>3, LoopStep
<1>8. ASSUME NEW p \in Procs,
             \/ PublishConflict(p) /\ loop[p].pc = "drain"
             \/ StartupDone(p)
      PROVE  IndInv'
  <2>1. loop'[p].pc = "idle" /\ loop'[p].due = {}
    BY <1>1, <1>8 DEF PublishConflict, StartupDone, Idle
  <2>2. QED
    BY <1>0, <1>1, <1>3, <1>8, <2>1, LoopStep DEF PublishConflict, StartupDone
<1>9. ASSUME NEW p \in Procs, PublishAdmitted(p), loop[p].pc = "drain" PROVE IndInv'
  <2>1. /\ loop'[p].pc = "commit" /\ loop'[p].due = loop[p].due
        /\ loop'[p].event = nextEvent /\ loop'[p].rows = Targets
    BY <1>1, <1>9 DEF PublishAdmitted, LoopOp
  <2>2. nextEvent \in Events /\ nextEvent' = nextEvent + 1
    BY <1>9 DEF PublishAdmitted, IndInv, TypeOK, Events
  <2>3. \A s \in Targets : sess[s].status # "absent"
    BY DEF Targets
  <2>4. /\ \A e \in loop'[p].due : Due(e)
        /\ \A e \in Events :
             /\ countdown'[p][e].pc # "none" => ev[e].status # "none"
             /\ countdown'[p][e].pc = "sleep" => ev[e].deadline < countdown'[p][e].wake + Second
    BY <1>3, <1>9, <2>1 DEF PublishAdmitted
  <2>5. /\ \A q \in Procs \ {p} : loop'[q] = loop[q] /\ countdown'[q] = countdown[q]
        /\ UNCHANGED <<now, sess, ev, thr>>
    BY <1>1, <1>9 DEF PublishAdmitted
  <2>6. QED
    BY <1>0, <1>1, <2>1, <2>2, <2>3, <2>4, <2>5, LoopStep
<1>10. ASSUME NEW p \in Procs, PublishCommit(p) PROVE IndInv'
  BY <1>0, <1>10, MarkStep
<1>11. ASSUME NEW p \in Procs, NEW e \in Events, CountdownStart(p, e) PROVE IndInv'
  <2>1. /\ \A f \in Events \ {e} : countdown'[p][f] = countdown[p][f]
        /\ countdown'[p][e] = IF ev[e].status = "draining"
             THEN [pc |-> "sleep", wake |-> now + WholeSeconds(Remaining(e))]
             ELSE NoTask
        /\ \A q \in Procs \ {p} : countdown'[q] = countdown[q]
    BY <1>1, <1>11 DEF CountdownStart
  <2>2. ev[e].status = "draining" =>
          ev[e].deadline < now + WholeSeconds(Remaining(e)) + Second
    <3>1. ev[e].deadline \in Nat /\ Remaining(e) \in Nat
      BY <1>1, RemainingType DEF IndInv, EventRow
    <3>2. ev[e].deadline <= now + Remaining(e)
      BY <1>1, <3>1 DEF Remaining
    <3>3. WholeSeconds(Remaining(e)) \in Nat
      BY <3>1, WholeSecondsType
    <3>4. QED
      BY <1>1, <3>1, <3>2, <3>3, LessThanASecond
  <2>3. \A f \in Events :
          /\ countdown'[p][f].pc # "none" => ev[f].status # "none"
          /\ countdown'[p][f].pc = "sleep" =>
               ev[f].deadline < countdown'[p][f].wake + Second
    BY <1>3, <2>1, <2>2 DEF NoTask
  <2>4. loop[p].pc = "idle"
    BY <1>11 DEF CountdownStart, LoopIdle
  <2>5. QED
    BY <1>0, <1>1, <1>3, <1>11, <2>1, <2>3, <2>4, LoopStep DEF CountdownStart
<1>12. ASSUME NEW p \in Procs, NEW e \in Events, FinalizeRead(p, e)
       PROVE  /\ \A q \in Procs \ {p} : loop'[q] = loop[q]
              /\ loop'[p].due = loop[p].due \ {e}
              /\ ev[e].status = "draining" =>
                   /\ loop'[p].pc = "finalize" /\ loop'[p].event = e
                   /\ loop'[p].rows = Unrevoked(e)
              /\ ev[e].status # "draining" => loop'[p].pc = loop[p].pc
  BY <1>1, <1>12 DEF FinalizeRead, LoopOp
<1>13. ASSUME NEW p \in Procs, NEW e \in Events, CountdownWake(p, e) PROVE IndInv'
  <2>1. FinalizeRead(p, e) /\ loop[p].pc = "idle" /\ countdown[p][e].pc = "sleep"
        /\ countdown[p][e].wake <= now
    BY <1>13 DEF CountdownWake, LoopIdle
  <2>2. Due(e)
    <3>1. countdown[p][e].wake \in Nat /\ ev[e].deadline \in Nat
      BY <1>1 DEF Task, EventRow
    <3>2. QED
      BY <1>1, <1>3, <2>1, <3>1 DEF Due
  <2>3. /\ \A f \in Events \ {e} : countdown'[p][f] = countdown[p][f]
        /\ countdown'[p][e] = NoTask
        /\ \A q \in Procs \ {p} : countdown'[q] = countdown[q]
    BY <1>1, <1>13 DEF CountdownWake
  <2>4. /\ loop'[p].pc # "commit"
        /\ loop'[p].pc = "finalize" => loop'[p].event = e /\ loop'[p].rows = Unrevoked(e)
        /\ \A f \in loop'[p].due : Due(f)
    BY <1>3, <1>12, <2>1
  <2>5. \A f \in Events :
          /\ countdown'[p][f].pc # "none" => ev[f].status # "none"
          /\ countdown'[p][f].pc = "sleep" =>
               ev[f].deadline < countdown'[p][f].wake + Second
    BY <1>3, <2>3 DEF NoTask
  <2>6. UNCHANGED <<now, sess, ev, nextEvent, thr>>
    BY <1>13 DEF CountdownWake
  <2>7. \A q \in Procs \ {p} : loop'[q] = loop[q]
    BY <1>12, <2>1
  <2>8. QED
    BY <1>0, <1>1, <2>2, <2>3, <2>4, <2>5, <2>6, <2>7, LoopStep
<1>14. ASSUME NEW p \in Procs, FinalizeCommit(p) PROVE IndInv'
  <2> DEFINE n == loop[p].event
             R == loop[p].rows
  <2>1. /\ n \in Events /\ Due(n) /\ R \subseteq ev[n].audit /\ Unrevoked(n) \subseteq R
        /\ R \in SUBSET Sessions /\ loop[p].due \subseteq Events
    BY <1>1, <1>2, <1>14 DEF FinalizeCommit, FinalizesCoherent, LoopOp
  <2>2. /\ \A s \in Sessions \ R : sess'[s] = sess[s]
        /\ \A s \in R : /\ sess'[s].status = "revoked" /\ sess'[s].drain = "completed"
                         /\ sess'[s].event = sess[s].event
                         /\ sess'[s].deadline = sess[s].deadline
    BY <1>14, <2>1, SessionCut DEF FinalizeCommit, IndInv, TypeOK
  <2>3. /\ \A e \in Events \ {n} : ev'[e] = ev[e]
        /\ ev'[n].deadline = ev[n].deadline /\ ev'[n].audit = ev[n].audit
        /\ ev'[n].cut \subseteq ev[n].cut \cup R
        /\ ev'[n].status = "completed"
    <3>1. ev \in [Events -> EventRow]
      BY DEF IndInv, TypeOK
    <3>2. ev' = [ev EXCEPT ![n].status = "completed",
                           ![n].cut = @ \cup (R \cap ev[n].audit),
                           ![n].revoked = IF R = {} THEN @
                                          ELSE loop[p].revoked + Cardinality(R)]
      BY <1>14 DEF FinalizeCommit
    <3> HIDE DEF n, R
    <3>3. QED
      BY <2>1, <3>1, <3>2 DEF EventRow
  <2>4. \A q \in Procs : /\ loop'[q] = loop[q] \/ loop'[q].pc \in {"idle", "startup"}
                         /\ loop'[q].due \subseteq loop[q].due
    BY <1>1, <1>14 DEF FinalizeCommit, Idle
  <2>5. UNCHANGED <<now, nextEvent, countdown, thr>>
    BY <1>14 DEF FinalizeCommit
  <2>6. /\ ev[n].status # "none"
        /\ \A s \in Sessions \ Admins : s \notin Unrevoked(n) \ R
        /\ \A t \in Threads : thr'[t] = thr[t]
    BY <2>1, <2>5 DEF Due
  <2> HIDE DEF n, R
  <2>7. QED
    BY <1>0, <2>1, <2>2, <2>3, <2>4, <2>5, <2>6, CutStep
<1>15. ASSUME NEW p \in Procs, Restart(p) PROVE IndInv'
  <2>1. loop'[p].pc = "startup" /\ loop'[p].due = DueEvents
    BY <1>1, <1>15 DEF Restart, Idle
  <2>2. ASSUME NEW e \in DueEvents PROVE Due(e)
    <3>1. e \in Events /\ ev[e].status = "draining" /\ ev[e].deadline <= now
      BY <2>2 DEF DueEvents, ActiveDrains
    <3>2. ev[e].deadline \in Nat
      BY <1>1, <3>1 DEF EventRow
    <3>3. QED
      BY <1>1, <3>1, <3>2, PastIsDue
  <2>3. QED
    BY <1>0, <1>1, <1>3, <1>15, <2>1, <2>2, LoopStep DEF Restart
<1>16. ASSUME NEW p \in Procs, StartupFinalize(p) PROVE IndInv'
  <2>1. PICK e \in loop[p].due : FinalizeRead(p, e)
    BY <1>16 DEF StartupFinalize
  <2>2. e \in Events /\ Due(e) /\ loop[p].pc = "startup"
    BY <1>3, <1>16 DEF StartupFinalize
  <2>3. /\ loop'[p].pc # "commit"
        /\ loop'[p].pc = "finalize" => loop'[p].event = e /\ loop'[p].rows = Unrevoked(e)
        /\ \A f \in loop'[p].due : Due(f)
        /\ \A q \in Procs \ {p} : loop'[q] = loop[q]
    BY <1>3, <1>12, <2>1, <2>2
  <2>4. UNCHANGED <<now, sess, ev, nextEvent, thr, countdown>>
    BY <1>16 DEF StartupFinalize
  <2>5. QED
    BY <1>0, <1>1, <1>3, <2>2, <2>3, <2>4, LoopStep
<1>17. ASSUME NEW p \in Procs, Crash(p) PROVE IndInv'
  <2>1. loop'[p].pc = "idle" /\ loop'[p].due = {}
    BY <1>1, <1>17 DEF Crash, Idle
  <2>2. \A e \in Events : countdown'[p][e].pc = "none"
    BY <1>1, <1>17 DEF Crash, NoTask
  <2>3. \A t \in Threads : thr'[t] = thr[t] \/ thr'[t].pc = "idle"
    BY <1>17 DEF Crash, NoRequest
  <2>4. QED
    BY <1>0, <1>1, <1>17, <2>1, <2>2, <2>3, LoopStep DEF Crash
<1>18. ASSUME NEW t \in Threads, NEW s \in Sessions, EnforceRead(t, s) PROVE IndInv'
  <2>1. /\ s \in Sessions /\ sess[s].drain = "draining" /\ sess[s].deadline <= now
        /\ sess[s].event \in Events
        /\ s \in ev[sess[s].event].audit
        /\ ev[sess[s].event].status # "none"
        /\ ev[sess[s].event].deadline <= now
    <3>1. /\ sess[s] \in SessionRow /\ sess[s].drain = "draining"
          /\ sess[s].deadline <= now
      BY <1>1, <1>18 DEF EnforceRead, Expelled, IndInv, TypeOK, SessionRow
    <3>2. sess[s].event \in Events
      BY <1>2, <3>1 DEF MarksCoherent, SessionRow
    <3>3. sess[s].event # NoEvent
      BY <1>2, <3>1 DEF MarksCoherent
    <3>4. QED
      BY <1>2, <3>1, <3>2, <3>3 DEF MarksCoherent
  <2>2. /\ \A u \in Threads \ {t} : thr'[u] = thr[u]
        /\ thr'[t].event = sess[s].event /\ thr'[t].rows = {s}
    BY <1>1, <1>18 DEF EnforceRead, NoRequest
  <2>3. UNCHANGED <<now, sess, ev, nextEvent, loop, countdown>>
    BY <1>18 DEF EnforceRead
  <2>4. QED
    BY <1>0, <2>1, <2>2, <2>3, RequestStep
<1>19. ASSUME NEW t \in Threads, EnforceReadEvent(t) PROVE IndInv'
  <2>1. /\ \A u \in Threads \ {t} : thr'[u] = thr[u]
        /\ thr'[t].event = thr[t].event /\ thr'[t].rows = thr[t].rows
        /\ thr[t].pc # "idle"
    BY <1>1, <1>19 DEF EnforceReadEvent, Request
  <2>2. UNCHANGED <<now, sess, ev, nextEvent, loop, countdown>>
    BY <1>19 DEF EnforceReadEvent
  <2>3. QED
    BY <1>0, <1>2, <2>1, <2>2, RequestStep DEF RequestsCoherent
<1>20. ASSUME NEW t \in Threads, EnforceCommit(t) PROVE IndInv'
  <2> DEFINE n == thr[t].event
             R == thr[t].rows
  <2>1. /\ n \in Events /\ ev[n].status # "none" /\ ev[n].deadline <= now
        /\ R \subseteq ev[n].audit /\ R \in SUBSET Sessions
    BY <1>1, <1>2, <1>20 DEF EnforceCommit, RequestsCoherent, Request
  <2>2. /\ \A s \in Sessions \ R : sess'[s] = sess[s]
        /\ \A s \in R : /\ sess'[s].status = "revoked" /\ sess'[s].drain = "completed"
                         /\ sess'[s].event = sess[s].event
                         /\ sess'[s].deadline = sess[s].deadline
    BY <1>20, <2>1, SessionCut DEF EnforceCommit, IndInv, TypeOK
  <2>3. /\ \A e \in Events \ {n} : ev'[e] = ev[e]
        /\ ev'[n].deadline = ev[n].deadline /\ ev'[n].audit = ev[n].audit
        /\ ev'[n].cut \subseteq ev[n].cut \cup R
        /\ ev'[n].status \in {ev[n].status, "completed"}
    BY <1>1, <1>20, <2>1 DEF EnforceCommit, EventRow, IndInv, TypeOK
  <2>4. \A s \in Sessions \ Admins : s \in Unrevoked(n) => Expelled(s)
    BY <1>1, <1>2, <2>1 DEF Unrevoked, Expelled, MarksCoherent, Events, NoEvent
  <2>5. \A u \in Threads : thr'[u] = thr[u] \/ thr'[u].pc = "idle"
    BY <1>1, <1>20 DEF EnforceCommit, NoRequest
  <2>6. UNCHANGED <<now, nextEvent, countdown, loop>>
    BY <1>20 DEF EnforceCommit
  <2>7. QED
    BY <1>0, <2>1, <2>2, <2>3, <2>4, <2>5, <2>6, CutStep
<1>21. CASE UNCHANGED vars
  BY <1>0, <1>21 DEF vars, IndInv, TypeOK, MarksCoherent, CommitsCoherent,
     FinalizesCoherent, RequestsCoherent, CountdownsCoherent, NoEscape, AuditTruthful,
     Due, Unrevoked, Expelled
<1>22. QED
  BY <1>4, <1>5, <1>6, <1>7, <1>8, <1>9, <1>10, <1>11, <1>13, <1>14, <1>15, <1>16,
     <1>17, <1>18, <1>19, <1>20, <1>21
     DEF Next, Publish, PublishStart, Finalize, Startup, Enforce

-----------------------------------------------------------------------------
(* Theorems. *)

(* The tables, the operations in progress and the countdowns agree at every *)
(* interleaving, with any number of processes and any number of crashes.   *)
THEOREM Coherence == Spec => []IndInv
  BY IndInit, IndStep, PTL DEF Spec

(* Every table, operation in progress and countdown keeps its type: no step  *)
(* of session_drain.py or of its callers leaves the modelled states.        *)
THEOREM TypeCorrect == Spec => []TypeOK
<1>1. IndInv => TypeOK
  BY DEF IndInv
<1>2. QED
  BY <1>1, Coherence, PTL

(* A session that a completed drain failed to revoke is refused by          *)
(* enforce_session_drain at its next request, whoever completed the drain.  *)
THEOREM NoEscapeHolds == Spec => []NoEscape
<1>1. IndInv => NoEscape
  BY DEF IndInv
<1>2. QED
  BY <1>1, Coherence, PTL

(* The audit rows of a drain never claim a revocation that did not happen,  *)
(* and every marked session has its audit row.                              *)
THEOREM AuditHolds == Spec => []AuditTruthful
<1>1. IndInv => AuditTruthful
  BY DEF IndInv
<1>2. QED
  BY <1>1, Coherence, PTL

(* A drain that is due, or whose deadline is past, is cut off in time. *)
LEMMA CutOffInTime == IndInv /\ [Next]_vars => CutOffStep
<1> SUFFICES ASSUME IndInv, [Next]_vars PROVE CutOffStep
  OBVIOUS
<1>1. /\ sess \in [Sessions -> SessionRow] /\ ev \in [Events -> EventRow]
      /\ FinalizesCoherent /\ RequestsCoherent
      /\ now \in Nat
      /\ loop \in [Procs -> LoopOp] /\ thr \in [Threads -> Request]
  BY DEF IndInv, TypeOK
<1> DEFINE Completes == \E e \in Events : ev[e].status = "draining" /\ ev'[e].status = "completed"
           Cuts == \E s \in Sessions : sess[s].drain = "draining" /\ sess'[s].drain = "completed"
<1>2. CASE ~Completes /\ ~Cuts
  BY <1>2 DEF CutOffStep
<1>3. ASSUME NEW n \in Events, NEW R \in SUBSET Sessions, Due(n), R \subseteq ev[n].audit,
             \A e \in Events \ {n} : ev'[e].status = ev[e].status,
             \A s \in Sessions \ R : sess'[s] = sess[s]
      PROVE  CutOffStep
  BY <1>3 DEF CutOffStep
<1>4. ASSUME NEW p \in Procs, FinalizeCommit(p) PROVE CutOffStep
  <2> DEFINE n == loop[p].event
             R == loop[p].rows
  <2>1. n \in Events /\ R \in SUBSET Sessions /\ Due(n) /\ R \subseteq ev[n].audit
    BY <1>1, <1>4 DEF FinalizeCommit, FinalizesCoherent, LoopOp
  <2>2. /\ \A e \in Events \ {n} : ev'[e].status = ev[e].status
        /\ \A s \in Sessions \ R : sess'[s] = sess[s]
    BY <1>1, <1>4 DEF FinalizeCommit
  <2> HIDE DEF n, R
  <2>3. QED
    BY <1>3, <2>1, <2>2
<1>5. ASSUME NEW t \in Threads, EnforceCommit(t) PROVE CutOffStep
  <2> DEFINE n == thr[t].event
             R == thr[t].rows
  <2>1. /\ n \in Events /\ R \in SUBSET Sessions /\ R \subseteq ev[n].audit
        /\ ev[n].status # "none" /\ ev[n].deadline <= now /\ ev[n].deadline \in Nat
    BY <1>1, <1>5 DEF EnforceCommit, RequestsCoherent, Request, EventRow
  <2>2. Due(n)
    BY <1>1, <2>1, PastIsDue
  <2>3. /\ \A e \in Events \ {n} : ev'[e].status = ev[e].status
        /\ \A s \in Sessions \ R : sess'[s] = sess[s]
    BY <1>1, <1>5 DEF EnforceCommit
  <2> HIDE DEF n, R
  <2>4. QED
    BY <1>3, <2>1, <2>2, <2>3
<1>6. ASSUME NEW p \in Procs, PublishCommit(p) PROVE CutOffStep
  <2>1. \A e \in Events : ev'[e] = ev[e] \/ ev'[e].status = "draining"
    BY <1>1, <1>6 DEF PublishCommit
  <2>2. \A s \in Sessions : sess'[s] = sess[s] \/ sess'[s].drain = "draining"
    BY <1>1, <1>6 DEF PublishCommit, SessionRow
  <2>3. QED
    BY <2>1, <2>2 DEF CutOffStep
<1>7. ASSUME NEW s \in Sessions, Login(s) \/ Expire(s) \/ Revoke(s) PROVE CutOffStep
  <2>1. \A r \in Sessions : sess'[r].drain = sess[r].drain
    BY <1>1, <1>7 DEF Login, Expire, Revoke, SessionRow
  <2>2. ev' = ev
    BY <1>7 DEF Login, Expire, Revoke
  <2>3. QED
    BY <2>1, <2>2 DEF CutOffStep
<1>8. CASE UNCHANGED <<sess, ev>>
  BY <1>8 DEF CutOffStep
<1>9. QED
  BY <1>4, <1>5, <1>6, <1>7, <1>8
     DEF Next, Publish, Finalize, Startup, Enforce, Tick, PublishBegin, PublishPolicy,
         PublishConflict, PublishAdmitted, PublishStart, CountdownStart, CountdownWake, Restart,
         StartupFinalize, StartupDone, Crash, EnforceRead, EnforceReadEvent, vars

(* The grace period: no drain completes, and none cuts a session off, more  *)
(* than a second before its deadline, through any interleaving of           *)
(* countdowns, startups, late requests and overlapping drains.              *)
THEOREM GraceHolds == Spec => GraceHonoured
<1>1. IndInv /\ [Next]_vars => [CutOffStep]_vars
  BY CutOffInTime
<1>2. QED
  BY <1>1, Coherence, PTL DEF Spec, GraceHonoured

-----------------------------------------------------------------------------
(* The publish lock within one process. *)

(* A publish about to be committed still has room. *)
Admitted == \A p \in Procs : loop[p].pc = "commit" => HasCapacity

LEMMA DrainsCount ==
  ASSUME NEW S \in SUBSET Events
  PROVE  IsFiniteSet(S) /\ Cardinality(S) \in Nat
<1>1. IsFiniteSet(Events)
  BY FS_Interval DEF Events
<1>2. QED
  BY <1>1, FS_Subset, FS_CardinalityType

(* Only the commit of start_publish_drain adds a drain in progress. *)
LEMMA DrainsShrink ==
  ASSUME IndInv, [Next]_vars, \A p \in Procs : ~PublishCommit(p)
  PROVE  ActiveDrains' \subseteq ActiveDrains
<1>1. ev \in [Events -> EventRow]
  BY DEF IndInv, TypeOK
<1>2. CASE ev' = ev
  BY <1>2 DEF ActiveDrains
<1>3. ASSUME NEW p \in Procs, FinalizeCommit(p) PROVE ActiveDrains' \subseteq ActiveDrains
  <2>1. \A e \in Events : ev'[e].status \in {ev[e].status, "completed"}
    BY <1>1, <1>3 DEF FinalizeCommit, EventRow
  <2>2. QED
    BY <2>1 DEF ActiveDrains
<1>4. ASSUME NEW t \in Threads, EnforceCommit(t) PROVE ActiveDrains' \subseteq ActiveDrains
  <2>1. \A e \in Events : ev'[e].status \in {ev[e].status, "completed"}
    BY <1>1, <1>4 DEF EnforceCommit, EventRow
  <2>2. QED
    BY <2>1 DEF ActiveDrains
<1>5. QED
  BY <1>2, <1>3, <1>4
     DEF Next, Publish, Finalize, Startup, Enforce, Tick, Login, Expire, Revoke,
         PublishBegin, PublishPolicy, PublishConflict, PublishAdmitted, PublishStart, CountdownStart,
         CountdownWake, Restart, StartupFinalize, StartupDone, Crash, EnforceRead,
         EnforceReadEvent, vars

LEMMA LockStep ==
  ASSUME NEW p, Procs = {p}, IndInv, [Next]_vars, Admitted, OneDrainAtATime
  PROVE  Admitted' /\ OneDrainAtATime'
<1>1. /\ IsFiniteSet(ActiveDrains) /\ Cardinality(ActiveDrains) \in Nat
      /\ IsFiniteSet(ActiveDrains') /\ Cardinality(ActiveDrains') \in Nat
      /\ Capacity \in Nat
  <2>1. ActiveDrains \in SUBSET Events /\ ActiveDrains' \in SUBSET Events
    BY DEF ActiveDrains, Events
  <2>2. QED
    BY <2>1, DrainsCount DEF Capacity
<1>2. loop \in [Procs -> LoopOp] /\ ev \in [Events -> EventRow]
  BY DEF IndInv, TypeOK
<1>3. CASE PublishCommit(p)
  <2> DEFINE e == loop[p].event
  <2>1. e \in Events /\ HasCapacity
    BY <1>3 DEF PublishCommit, Admitted, IndInv, CommitsCoherent
  <2>2. ActiveDrains' \subseteq ActiveDrains \cup {e}
    BY <1>2, <1>3 DEF PublishCommit, ActiveDrains
  <2> HIDE DEF e
  <2>3. Cardinality(ActiveDrains') <= Cardinality(ActiveDrains \cup {e})
    BY <1>1, <2>2, FS_AddElement, FS_Subset
  <2>4. Cardinality(ActiveDrains \cup {e}) <= Cardinality(ActiveDrains) + 1
    <3>1. Cardinality(ActiveDrains \cup {e}) = Cardinality(ActiveDrains)
             \/ Cardinality(ActiveDrains \cup {e}) = Cardinality(ActiveDrains) + 1
      BY <1>1, FS_AddElement, Zenon
    <3>2. QED
      BY <1>1, <3>1
  <2>5. Cardinality(ActiveDrains \cup {e}) \in Nat
    BY <1>1, FS_AddElement, FS_CardinalityType
  <2>6. OneDrainAtATime'
    <3>1. Capacity' = Capacity
      BY DEF Capacity
    <3>2. QED
      BY <1>1, <2>1, <2>3, <2>4, <2>5, <3>1 DEF OneDrainAtATime, HasCapacity
  <2>7. Admitted'
    BY <1>2, <1>3 DEF PublishCommit, Idle, Admitted
  <2>8. QED
    BY <2>6, <2>7
<1>4. CASE ~PublishCommit(p)
  <2>1. Cardinality(ActiveDrains') <= Cardinality(ActiveDrains)
    BY <1>1, <1>4, DrainsShrink, FS_Subset
  <2>2. OneDrainAtATime'
    BY <1>1, <2>1 DEF OneDrainAtATime, Capacity
  <2>3. HasCapacity => HasCapacity'
    BY <1>1, <2>1 DEF HasCapacity, Capacity
  <2>4. loop'[p].pc = "commit" => HasCapacity
    <3>1. ASSUME NEW e \in Events, FinalizeRead(p, e) PROVE
            loop'[p].pc = "commit" => loop[p].pc = "commit"
      BY <1>2, <3>1 DEF FinalizeRead, LoopOp
    <3>2. CASE loop' = loop
      BY <3>2 DEF Admitted
    <3>3. CASE PublishBegin(p) \/ PublishPolicy(p)
      BY <1>2, <3>3 DEF PublishBegin, PublishPolicy, Idle, LoopOp
    <3>4. CASE PublishStart(p)
      BY <1>2, <3>4 DEF PublishStart, PublishConflict, Idle
    <3>5. CASE FinalizeCommit(p) \/ Restart(p) \/ StartupDone(p) \/ Crash(p)
      <4>1. FinalizeCommit(p) => loop'[p].pc \in {"startup", "idle"}
        <5>1. ASSUME FinalizeCommit(p)
              PROVE  loop'[p] = IF proc[p] = "starting"
                                THEN [Idle EXCEPT !.pc = "startup", !.due = loop[p].due]
                                ELSE Idle
          BY <1>2, <5>1 DEF FinalizeCommit
        <5>2. CASE FinalizeCommit(p) /\ proc[p] = "starting"
          BY <5>1, <5>2 DEF Idle
        <5>3. CASE FinalizeCommit(p) /\ proc[p] # "starting"
          BY <5>1, <5>3 DEF Idle
        <5>4. QED
          BY <5>2, <5>3
      <4>2. Restart(p) => loop'[p].pc = "startup"
        BY <1>2 DEF Restart, Idle
      <4>3. StartupDone(p) \/ Crash(p) => loop'[p].pc = "idle"
        BY <1>2 DEF StartupDone, Crash, Idle
      <4>4. QED
        BY <3>5, <4>1, <4>2, <4>3
    <3>6. CASE StartupFinalize(p)
      <4>1. loop[p].due \subseteq Events
        BY <1>2 DEF LoopOp
      <4>2. QED
        BY <3>1, <3>6, <4>1 DEF StartupFinalize
    <3>7. ASSUME NEW e \in Events, CountdownWake(p, e)
          PROVE  loop'[p].pc = "commit" => HasCapacity
      BY <3>1, <3>7 DEF CountdownWake, LoopIdle
    <3>8. QED
      BY <1>4, <3>2, <3>3, <3>4, <3>5, <3>6, <3>7
         DEF Next, Publish, Finalize, Startup, Enforce, Tick, Login, Expire, Revoke,
             CountdownStart, EnforceRead, EnforceReadEvent, EnforceCommit, vars
  <2>5. QED
    BY <2>2, <2>3, <2>4 DEF Admitted
<1>5. QED
  BY <1>3, <1>4

(* One process alone keeps the publish lock: the configured maximum of      *)
(* drains in progress holds through crashes, late requests and countdowns,  *)
(* because the event loop admits and commits a drain without giving way.    *)
THEOREM LockHolds == ASSUME NEW p, Procs = {p} PROVE Spec => []OneDrainAtATime
<1>1. Init => Admitted /\ OneDrainAtATime
  <2>1. ASSUME Init PROVE Cardinality(ActiveDrains) = 0
    <3>1. ActiveDrains = {}
      BY <2>1 DEF Init, ActiveDrains, NoRow
    <3>2. QED
      BY <3>1, FS_EmptySet
  <2>2. Capacity \in Nat
    BY DEF Capacity
  <2>3. QED
    BY <2>1, <2>2 DEF Init, Admitted, OneDrainAtATime, Idle
<1>2. IndInv /\ [Next]_vars /\ Admitted /\ OneDrainAtATime => Admitted' /\ OneDrainAtATime'
  BY LockStep
<1>3. QED
  BY <1>1, <1>2, Coherence, PTL DEF Spec

-----------------------------------------------------------------------------
(* Every publish is announced, within one process. *)

Announced == build = 0 \/ \E e \in Events : ev[e].status # "none" /\ ev[e].build = build

(* Until a process crashes it is up, and a publish between its first capacity check and *)
(* its drain still has room, and works for the version it made the policy; *)
(* at any other time the policy's version has its drain.                   *)
PublishInv ==
  crashes = 0 =>
    \A p \in Procs :
      /\ proc[p] = "up"
      /\ loop[p].pc \in {"policy", "drain"} => HasCapacity
      /\ loop[p].pc \in {"drain", "commit"} => loop[p].build = build
      /\ loop[p].pc \notin {"drain", "commit"} => Announced

(* What the operations other than a publish do to the event loop.          *)
LEMMA OtherOperations ==
  ASSUME NEW p \in Procs, IndInv, proc[p] = "up",
         \/ \E e \in Events : CountdownStart(p, e) \/ CountdownWake(p, e)
         \/ FinalizeCommit(p) \/ Startup(p)
  PROVE  /\ UNCHANGED <<build, crashes>> /\ proc'[p] = "up"
         /\ loop[p].pc # "commit" \/ loop' = loop
         /\ \/ loop' = loop
            \/ /\ loop[p].pc \notin {"policy", "drain", "commit"}
               /\ loop'[p].pc \notin {"policy", "drain", "commit"}
<1>1. loop \in [Procs -> LoopOp] /\ proc \in [Procs -> {"down", "starting", "up"}]
  BY DEF IndInv, TypeOK
<1>2. ASSUME NEW e \in Events, FinalizeRead(p, e), loop[p].pc \in {"idle", "startup"}
      PROVE  loop'[p].pc \notin {"policy", "drain", "commit"}
  BY <1>1, <1>2 DEF FinalizeRead, LoopOp
<1>3. ASSUME NEW e \in Events, CountdownStart(p, e) PROVE UNCHANGED <<loop, build, crashes, proc>>
  BY <1>3 DEF CountdownStart
<1>4. ASSUME NEW e \in Events, CountdownWake(p, e)
      PROVE  /\ loop[p].pc = "idle" /\ loop'[p].pc \notin {"policy", "drain", "commit"}
             /\ UNCHANGED <<build, crashes, proc>>
  BY <1>2, <1>4 DEF CountdownWake, LoopIdle
<1>5. CASE FinalizeCommit(p)
  <2>1. /\ loop[p].pc = "finalize" /\ UNCHANGED <<build, crashes, proc>>
        /\ loop'[p] = IF proc[p] = "starting" THEN [Idle EXCEPT !.pc = "startup", !.due = loop[p].due]
                      ELSE Idle
    BY <1>1, <1>5 DEF FinalizeCommit
  <2>2. loop'[p].pc \in {"startup", "idle"}
    <3>1. CASE proc[p] = "starting"
      BY <2>1, <3>1 DEF Idle
    <3>2. CASE proc[p] # "starting"
      BY <2>1, <3>2 DEF Idle
    <3>3. QED
      BY <3>1, <3>2
  <2>3. QED
    BY <2>1, <2>2
<1>6. CASE Startup(p)
  <2>1. ~Restart(p)
    BY DEF Restart
  <2>2. CASE StartupFinalize(p)
    <3>1. loop[p].due \subseteq Events
      BY <1>1 DEF LoopOp
    <3>2. QED
      BY <1>2, <2>2, <3>1 DEF StartupFinalize
  <2>3. CASE StartupDone(p)
    BY <1>1, <2>3 DEF StartupDone, Idle
  <2>4. QED
    BY <1>6, <2>1, <2>2, <2>3 DEF Startup
<1>7. QED
  BY <1>3, <1>4, <1>5, <1>6

(* A drain stays in its table, with the version it announces.              *)
LEMMA DrainsStay ==
  ASSUME IndInv, [Next]_vars, NEW e \in Events, ev[e].status # "none"
  PROVE  ev'[e].status # "none" /\ ev'[e].build = ev[e].build
<1>1. ev \in [Events -> EventRow]
  BY DEF IndInv, TypeOK
<1>2. CASE ev' = ev
  BY <1>2
<1>3. ASSUME NEW p \in Procs, PublishCommit(p) PROVE ev'[e] = ev[e]
  BY <1>1, <1>3 DEF PublishCommit, IndInv, CommitsCoherent
<1>4. ASSUME NEW p \in Procs, FinalizeCommit(p)
      PROVE  ev'[e].status # "none" /\ ev'[e].build = ev[e].build
  BY <1>1, <1>4 DEF FinalizeCommit, EventRow
<1>5. ASSUME NEW t \in Threads, EnforceCommit(t)
      PROVE  ev'[e].status # "none" /\ ev'[e].build = ev[e].build
  BY <1>1, <1>5 DEF EnforceCommit, EventRow
<1>6. QED
  BY <1>2, <1>3, <1>4, <1>5
     DEF Next, Publish, Finalize, Startup, Enforce, Tick, Login, Expire, Revoke,
         PublishBegin, PublishPolicy, PublishConflict, PublishAdmitted, PublishStart, CountdownStart,
         CountdownWake, Restart, StartupFinalize, StartupDone, Crash, EnforceRead,
         EnforceReadEvent, vars

(* No room is taken while another publish is not committed.                *)
LEMMA RoomStays ==
  ASSUME IndInv, [Next]_vars, \A p \in Procs : ~PublishCommit(p), HasCapacity
  PROVE  HasCapacity'
<1>1. /\ ActiveDrains' \subseteq ActiveDrains
      /\ ActiveDrains \in SUBSET Events /\ ActiveDrains' \in SUBSET Events
  BY DrainsShrink DEF ActiveDrains, Events
<1>2. IsFiniteSet(ActiveDrains) /\ Cardinality(ActiveDrains) \in Nat
  BY <1>1, DrainsCount
<1>3. Cardinality(ActiveDrains') \in Nat
  BY <1>1, DrainsCount
<1>4. Cardinality(ActiveDrains') <= Cardinality(ActiveDrains)
  BY <1>1, <1>2, FS_Subset
<1>5. Capacity \in Nat /\ Capacity' = Capacity
  BY DEF Capacity
<1>6. QED
  BY <1>2, <1>3, <1>4, <1>5 DEF HasCapacity

LEMMA AnnouncedStep ==
  ASSUME NEW p, Procs = {p}, IndInv, [Next]_vars, PublishInv PROVE PublishInv'
<1> SUFFICES ASSUME crashes' = 0
             PROVE  /\ proc'[p] = "up"
                    /\ loop'[p].pc \in {"policy", "drain"} => HasCapacity'
                    /\ loop'[p].pc \in {"drain", "commit"} => loop'[p].build = build'
                    /\ loop'[p].pc \notin {"drain", "commit"} => Announced'
  BY DEF PublishInv
<1>1. /\ loop \in [Procs -> LoopOp] /\ ev \in [Events -> EventRow] /\ p \in Procs /\ crashes \in Nat
      /\ build \in Nat
  BY DEF IndInv, TypeOK
<1>2. crashes = 0 /\ ~Crash(p)
  <2>1. ~Crash(p)
    BY <1>1 DEF Crash
  <2>2. crashes' = crashes
    BY <2>1 DEF Next, Publish, Finalize, Startup, Enforce, Tick, Login, Expire, Revoke,
         PublishBegin, PublishPolicy, PublishConflict, PublishAdmitted, PublishStart, PublishCommit,
         CountdownStart, CountdownWake, FinalizeCommit, Restart, StartupFinalize, StartupDone,
         EnforceRead, EnforceReadEvent, EnforceCommit, vars
  <2>3. QED
    BY <2>1, <2>2
<1>3. /\ proc[p] = "up"
      /\ loop[p].pc \in {"policy", "drain"} => HasCapacity
      /\ loop[p].pc \in {"drain", "commit"} => loop[p].build = build
      /\ loop[p].pc \notin {"drain", "commit"} => Announced
  BY <1>1, <1>2 DEF PublishInv
<1>4. build' = build /\ Announced => Announced'
  BY DrainsStay DEF Announced
<1>5. ~PublishCommit(p) /\ HasCapacity => HasCapacity'
  BY RoomStays
<1>6. CASE UNCHANGED <<loop, build>> /\ proc'[p] = "up" /\ ~PublishCommit(p)
  BY <1>3, <1>4, <1>5, <1>6
<1>7. CASE PublishBegin(p)
  <2>1. /\ loop'[p].pc = "policy" /\ HasCapacity /\ loop[p].pc = "idle" /\ build' = build /\ ev' = ev
        /\ proc' = proc
    BY <1>1, <1>7 DEF PublishBegin, Idle, LoopIdle
  <2>2. HasCapacity'
    BY <2>1 DEF HasCapacity, ActiveDrains, Capacity
  <2>3. QED
    BY <1>3, <1>4, <2>1, <2>2
<1>8. CASE PublishPolicy(p)
  <2>1. /\ loop[p].pc = "policy" /\ loop'[p].pc = "drain" /\ loop'[p].build = loop[p].build
        /\ build' = loop[p].build /\ ev' = ev /\ proc' = proc
    BY <1>1, <1>8 DEF PublishPolicy, LoopOp
  <2>2. HasCapacity'
    BY <1>3, <2>1 DEF HasCapacity, ActiveDrains, Capacity
  <2>3. QED
    BY <1>3, <2>1, <2>2
<1>9. CASE PublishStart(p)
  <2>1. loop[p].pc = "drain" /\ PublishAdmitted(p)
    BY <1>3, <1>9 DEF PublishStart
  <2>2. /\ loop'[p].pc = "commit" /\ loop'[p].build = loop[p].build /\ build' = build
        /\ proc' = proc
    BY <1>1, <2>1 DEF PublishAdmitted, LoopOp
  <2>3. QED
    BY <1>3, <2>1, <2>2
<1>10. CASE PublishCommit(p)
  <2> DEFINE e == loop[p].event
  <2>1. /\ loop[p].pc = "commit" /\ e \in Events /\ build' = build /\ loop'[p].pc = "idle"
        /\ proc' = proc
    BY <1>1, <1>10 DEF PublishCommit, IndInv, CommitsCoherent, Idle
  <2>2. ev'[e].status = "draining" /\ ev'[e].build = loop[p].build
    BY <1>1, <1>10, <2>1 DEF PublishCommit
  <2>3. Announced'
    BY <1>3, <2>1, <2>2 DEF Announced, Events
  <2>4. QED
    BY <1>3, <2>1, <2>3
<1>11. CASE (\E e \in Events : CountdownStart(p, e) \/ CountdownWake(p, e)) \/ FinalizeCommit(p) \/ Startup(p)
  <2>1. /\ build' = build /\ proc'[p] = "up"
        /\ loop[p].pc # "commit" \/ loop' = loop
        /\ \/ loop' = loop
           \/ /\ loop[p].pc \notin {"policy", "drain", "commit"}
              /\ loop'[p].pc \notin {"policy", "drain", "commit"}
    BY <1>1, <1>3, <1>11, OtherOperations
  <2>2. loop[p].pc = "commit" /\ loop' = loop => ~PublishCommit(p)
    <3>1. PublishCommit(p) => loop' = [loop EXCEPT ![p] = Idle]
      BY DEF PublishCommit
    <3>2. PublishCommit(p) => loop'[p] = Idle
      BY <1>1, <3>1
    <3>3. Idle.pc = "idle"
      BY DEF Idle
    <3>4. QED
      BY <3>2, <3>3
  <2>3. ~PublishCommit(p)
    BY <2>1, <2>2 DEF PublishCommit
  <2>4. QED
    BY <1>3, <1>4, <1>6, <2>1, <2>3
<1>12. QED
  BY <1>2, <1>3, <1>6, <1>7, <1>8, <1>9, <1>10, <1>11
     DEF Next, Publish, Finalize, Tick, Login, Expire, Revoke,
         Enforce, EnforceRead, EnforceReadEvent, EnforceCommit, vars

(* One process alone announces every publish, while it does not crash: the  *)
(* version of the policy has its drain whenever no publish is in progress,  *)
(* and the conflict behind the committed policy cannot be met.              *)
THEOREM AnnouncedHolds == ASSUME NEW p, Procs = {p} PROVE Spec => []PublishIsDrained
<1>1. Init => PublishInv
  <2>1. ASSUME Init PROVE \A q \in Procs : proc[q] = "up" /\ loop[q].pc = "idle"
    BY <2>1 DEF Init, Idle
  <2>2. QED
    BY <2>1 DEF Init, PublishInv, Announced
<1>2. IndInv /\ [Next]_vars /\ PublishInv => PublishInv'
  BY AnnouncedStep
<1>3. PublishInv => PublishIsDrained
  BY DEF PublishInv, PublishIsDrained, Announced
<1>4. QED
  BY <1>1, <1>2, <1>3, Coherence, PTL DEF Spec
=============================================================================
