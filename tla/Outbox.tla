-------------------------------- MODULE Outbox --------------------------------
(***************************************************************************)
(* The event pipeline: commands that reserve an idempotency key, and in    *)
(* the same transaction append their event, put a row in the outbox and    *)
(* finalize the key; the LISTEN worker that is woken by the row's NOTIFY,  *)
(* by a heartbeat or by its own start, and the handler that claims due     *)
(* rows, delivers them and marks them.                                     *)
(*                                                                         *)
(* A command's event and its outbox row are written together and stand for *)
(* one row here.  The handler is the one the tests of the worker and of    *)
(* the pipeline put together: it claims in one transaction, then settles   *)
(* the rows one by one.                                                    *)
(***************************************************************************)
EXTENDS Integers, Sequences, FiniteSets, FiniteSetsExt

CONSTANTS
  Keys,         \* the idempotency keys
  Requests,     \* the requests that clients send, and send again
  KeyOf,        \* KeyOf[r]: the key that request r carries
  HashOf,       \* HashOf[r]: the hash of its payload
  Workers,      \* the LISTEN workers, one per backend process
  Limit,        \* the rows that a handler claims at most
  MaxAttempts,  \* bound: a row's delivery fails fewer times than this
  MaxFaults,    \* bound: handlers that raise and processes that die
  None

ASSUME OutboxConstants == /\ KeyOf \in [Requests -> Keys]
                          /\ \A r \in Requests: HashOf[r] # None
                          /\ Limit \in Nat \ {0}
                          /\ MaxAttempts \in Nat /\ MaxFaults \in Nat

VARIABLES
  idem,        \* idem[k]: the hash of the finalized record of key k, or None
  outbox,      \* the committed rows, a row's index is its id
  phase,       \* phase[r]: how far the transaction of request r is
  pc,          \* pc[w]: what the thread of worker w does
  wakes,       \* wakes[w]: dispatches that w owes before it polls again
  notes,       \* notes[w]: notifications that wait on its connection
  held,        \* held[w]: the ids of the rows that its handler works on
  deliveries,  \* deliveries[k]: times the message of key k was delivered
  faults       \* handlers and processes that failed so far

requests == <<idem, phase>>
worker == <<pc, wakes, notes, held>>
vars == <<idem, phase, outbox, pc, wakes, notes, held, deliveries, faults>>

Ids == DOMAIN outbox
Row(k) == [key |-> k, due |-> TRUE, locked |-> FALSE, processed |-> FALSE,
           attempts |-> 0]
Rows(k) == {i \in Ids: outbox[i].key = k}

Phases == {"new", "inserting", "reserved", "applied", "replayed", "refused", "failed"}

TypeOK ==
  /\ DOMAIN idem = Keys
  /\ \A i \in Ids: /\ outbox[i].key \in Keys
                   /\ outbox[i].attempts \in 0 .. MaxAttempts
  /\ phase \in [Requests -> Phases]
  /\ pc \in [Workers -> {"down", "listening", "claiming", "handling", "delivered"}]
  /\ wakes \in [Workers -> Nat] /\ notes \in [Workers -> Nat]
  /\ held \in [Workers -> SUBSET Ids]
  /\ deliveries \in [Keys -> Nat]
  /\ faults \in 0 .. MaxFaults

Init ==
  /\ idem = [k \in Keys |-> None]
  /\ outbox = << >>
  /\ phase = [r \in Requests |-> "new"]
  /\ pc = [w \in Workers |-> "down"]
  /\ wakes = [w \in Workers |-> 0] /\ notes = [w \in Workers |-> 0]
  /\ held = [w \in Workers |-> {}]
  /\ deliveries = [k \in Keys |-> 0]
  /\ faults = 0

-------------------------------------------------------------------------------
(* Commands. *)

\* What the lookup of reserve_idempotency_key says of request r: no record yet,
\* the record of the same payload, or the record of another one.
Found(r) == IF idem[KeyOf[r]] = None THEN "inserting"
            ELSE IF idem[KeyOf[r]] = HashOf[r] THEN "replayed" ELSE "refused"

Look(r) ==
  /\ phase[r] = "new"
  /\ phase' = [phase EXCEPT ![r] = Found(r)]
  /\ UNCHANGED <<idem, outbox, worker, deliveries, faults>>

(* Mutant: the table has no unique constraint. *)
Insert_Unconstrained(r) ==
  /\ phase[r] = "inserting"
  /\ phase' = [phase EXCEPT ![r] = "reserved"]
  /\ UNCHANGED <<idem, outbox, worker, deliveries, faults>>

\* The insert of the pending record waits for the transaction that holds the
\* key, and fails on the unique constraint once that one has committed.
Insert(r) ==
  /\ phase[r] = "inserting"
  /\ \A q \in Requests: phase[q] = "reserved" => KeyOf[q] # KeyOf[r]
  /\ phase' = [phase EXCEPT ![r] = IF idem[KeyOf[r]] = None THEN "reserved" ELSE "failed"]
  /\ UNCHANGED <<idem, outbox, worker, deliveries, faults>>

\* The event, the row and the finalized record are committed together; the
\* trigger on the outbox notifies the workers that listen.
Commit(r) ==
  /\ phase[r] = "reserved"
  /\ phase' = [phase EXCEPT ![r] = "applied"]
  /\ idem' = [idem EXCEPT ![KeyOf[r]] = HashOf[r]]
  /\ outbox' = Append(outbox, Row(KeyOf[r]))
  /\ notes' = [w \in Workers |-> notes[w] + IF pc[w] = "down" THEN 0 ELSE 1]
  /\ UNCHANGED <<pc, wakes, held, deliveries, faults>>

\* A transaction that ends early leaves nothing; a client that has no answer, or
\* does not trust it, sends the request again.
SendAgain(r) ==
  /\ phase[r] # "new"
  /\ phase' = [phase EXCEPT ![r] = "new"]
  /\ UNCHANGED <<idem, outbox, worker, deliveries, faults>>

-------------------------------------------------------------------------------
(* The worker's thread. *)

\* LISTEN, then the wake of a fresh connection.
Connect(w) ==
  /\ pc[w] = "down"
  /\ pc' = [pc EXCEPT ![w] = "listening"]
  /\ wakes' = [wakes EXCEPT ![w] = 1]
  /\ UNCHANGED <<requests, outbox, notes, held, deliveries, faults>>

\* One wake per notification, or one heartbeat when the poll times out.
Poll(w) ==
  /\ pc[w] = "listening" /\ wakes[w] = 0
  /\ wakes' = [wakes EXCEPT ![w] = IF notes[w] = 0 THEN 1 ELSE notes[w]]
  /\ notes' = [notes EXCEPT ![w] = 0]
  /\ UNCHANGED <<requests, outbox, pc, held, deliveries, faults>>

\* The connection drops during a poll, or the worker is stopped and started
\* again: what was notified meanwhile is lost.
Drop(w) ==
  /\ pc[w] = "listening" /\ wakes[w] = 0
  /\ pc' = [pc EXCEPT ![w] = "down"]
  /\ notes' = [notes EXCEPT ![w] = 0]
  /\ UNCHANGED <<requests, outbox, wakes, held, deliveries, faults>>

-------------------------------------------------------------------------------
(* The handler. *)

(* Mutant: a claim takes locked rows too. *)
Claimable_Locked(i) == ~outbox[i].processed /\ outbox[i].due

Claimable(i) == ~outbox[i].processed /\ ~outbox[i].locked /\ outbox[i].due

\* The first rows by id, up to the limit.
Batch == {i \in Ids: /\ Claimable(i)
                     /\ Cardinality({j \in Ids: Claimable(j) /\ j < i}) < Limit}

Select(w) ==
  /\ pc[w] = "listening" /\ wakes[w] > 0
  /\ held' = [held EXCEPT ![w] = Batch]
  /\ pc' = [pc EXCEPT ![w] = IF Batch = {} THEN "listening" ELSE "claiming"]
  /\ wakes' = [wakes EXCEPT ![w] = @ - 1]
  /\ UNCHANGED <<requests, outbox, notes, deliveries, faults>>

\* The rows that were selected are locked, without looking at them again.
Claim(w) ==
  /\ pc[w] = "claiming"
  /\ pc' = [pc EXCEPT ![w] = "handling"]
  /\ outbox' = [i \in Ids |-> IF i \in held[w]
                              THEN [outbox[i] EXCEPT !.locked = TRUE, !.attempts = @ + 1]
                              ELSE outbox[i]]
  /\ UNCHANGED <<requests, wakes, notes, held, deliveries, faults>>

Deliver(w) ==
  /\ pc[w] = "handling"
  /\ pc' = [pc EXCEPT ![w] = "delivered"]
  /\ LET k == outbox[Min(held[w])].key IN
       deliveries' = [deliveries EXCEPT ![k] = @ + 1]
  /\ UNCHANGED <<requests, outbox, wakes, notes, held, faults>>

\* The handler is done with its first row.
Release(w) ==
  /\ held' = [held EXCEPT ![w] = @ \ {Min(@)}]
  /\ pc' = [pc EXCEPT ![w] = IF held'[w] = {} THEN "listening" ELSE "handling"]

MarkProcessed(w) ==
  /\ pc[w] = "delivered"
  /\ outbox' = [outbox EXCEPT ![Min(held[w])].processed = TRUE,
                              ![Min(held[w])].locked = FALSE]
  /\ Release(w)
  /\ UNCHANGED <<requests, wakes, notes, deliveries, faults>>

\* The delivery failed: the row is free again, after a delay.
MarkRetry(w) ==
  /\ pc[w] = "handling"
  /\ outbox[Min(held[w])].attempts < MaxAttempts
  /\ outbox' = [outbox EXCEPT ![Min(held[w])].due = FALSE,
                              ![Min(held[w])].locked = FALSE]
  /\ Release(w)
  /\ UNCHANGED <<requests, wakes, notes, deliveries, faults>>

\* next_attempt_at passes.
FallDue(i) ==
  /\ ~outbox[i].due
  /\ outbox' = [outbox EXCEPT ![i].due = TRUE]
  /\ UNCHANGED <<requests, worker, deliveries, faults>>

-------------------------------------------------------------------------------
(* Failures. *)

\* An exception of the handler is caught and the thread goes on: what it had
\* claimed stays locked.
Raise(w) ==
  /\ pc[w] \in {"claiming", "handling", "delivered"} /\ faults < MaxFaults
  /\ pc' = [pc EXCEPT ![w] = "listening"]
  /\ held' = [held EXCEPT ![w] = {}]
  /\ faults' = faults + 1
  /\ UNCHANGED <<requests, outbox, wakes, notes, deliveries>>

\* The process dies and is started again.
Die(w) ==
  /\ pc[w] # "down" /\ faults < MaxFaults
  /\ pc' = [pc EXCEPT ![w] = "down"]
  /\ held' = [held EXCEPT ![w] = {}]
  /\ wakes' = [wakes EXCEPT ![w] = 0] /\ notes' = [notes EXCEPT ![w] = 0]
  /\ faults' = faults + 1
  /\ UNCHANGED <<requests, outbox, deliveries>>

Work(w) == Poll(w) \/ Select(w) \/ Claim(w) \/ Deliver(w) \/ MarkProcessed(w)

Next ==
  \/ \E r \in Requests: Look(r) \/ Insert(r) \/ Commit(r) \/ SendAgain(r)
  \/ \E w \in Workers: \/ Work(w) \/ Connect(w) \/ Drop(w)
                       \/ MarkRetry(w) \/ Raise(w) \/ Die(w)
  \/ \E i \in Ids: FallDue(i)

\* The thread runs, the database accepts a connection again, and time passes.
Fairness == /\ \A w \in Workers: WF_vars(Work(w)) /\ WF_vars(Connect(w))
            /\ WF_vars(\E i \in Ids: FallDue(i))

Spec == Init /\ [][Next]_vars /\ Fairness

-------------------------------------------------------------------------------
(* Properties. *)

\* A row is lost when it is locked and no handler works on it: nothing ever
\* clears the lock of a worker that is gone.
Lost(i) == /\ outbox[i].locked
           /\ \A w \in Workers: i \in held[w] => pc[w] = "claiming"

\* Where the message of key k is, for the abstract specification.
Status(k) ==
  IF deliveries[k] > 1 THEN "repeated"
  ELSE IF deliveries[k] = 1 THEN "delivered"
  ELSE IF Rows(k) = {} THEN "none"
  ELSE IF \E i \in Rows(k): Lost(i) THEN "lost" ELSE "sent"

D == INSTANCE Delivery WITH Messages <- Keys, status <- [k \in Keys |-> Status(k)]

(* The pipeline implements the delivery of each command's message: requests *)
(* that are sent again or race, notifications that are lost, connections    *)
(* that drop, deliveries that are retried and workers that die make no      *)
(* message go out twice, and every message that no dying handler holds is   *)
(* delivered in the end (reserve_idempotency_key, claim_outbox_batch,       *)
(* mark_outbox_retry and the worker's startup and heartbeat wakes).         *)
Delivers == D!Spec

(* A request is answered with the result of its own payload, and its key    *)
(* has exactly one event and outbox row, whichever of the requests with     *)
(* that key made them (the conflict check and the unique constraint of      *)
(* world_command_idempotency).                                              *)
AnsweredTruly ==
  \A r \in Requests: phase[r] \in {"applied", "replayed"} =>
    idem[KeyOf[r]] = HashOf[r] /\ Cardinality(Rows(KeyOf[r])) = 1
===============================================================================
