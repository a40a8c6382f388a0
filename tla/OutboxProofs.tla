------------------------------ MODULE OutboxProofs ------------------------------
(* What Outbox promises, proved for any keys, requests, limits and bounds:    *)
(* requests are answered truly with any number of workers, and with a single  *)
(* worker every step is one of Delivery or leaves it where it is.             *)
EXTENDS Outbox, FiniteSetTheorems, SequenceTheorems, WellFoundedInduction, TLAPS

-------------------------------------------------------------------------------
(* Rows and requests. *)

RowType == [key: Keys, due: BOOLEAN, locked: BOOLEAN, processed: BOOLEAN, attempts: Nat]

Types ==
  /\ outbox \in Seq(RowType)
  /\ phase \in [Requests -> Phases]
  /\ DOMAIN idem = Keys
  /\ pc \in [Workers -> {"down", "listening", "claiming", "handling", "delivered"}]
  /\ held \in [Workers -> SUBSET Ids]
  /\ deliveries \in [Keys -> Nat]

\* A key has a row exactly if it is finalized, and never two.
Recorded ==
  /\ \A k \in Keys: idem[k] = None <=> \A i \in Ids: outbox[i].key # k
  /\ \A i, j \in Ids: outbox[i].key = outbox[j].key => i = j

\* One transaction at most holds a key, and only one that is not finalized.
Reserved ==
  \A r \in Requests: phase[r] = "reserved" =>
    /\ idem[KeyOf[r]] = None
    /\ \A q \in Requests: phase[q] = "reserved" /\ KeyOf[q] = KeyOf[r] => q = r

Answered ==
  \A r \in Requests: phase[r] \in {"applied", "replayed"} => idem[KeyOf[r]] = HashOf[r]

\* A handler has rows to work on.
Busy == \A w \in Workers: pc[w] \in {"claiming", "handling", "delivered"} => held[w] # {}

Kept == Types /\ Recorded /\ Reserved /\ Answered /\ Busy

\* What a step of a worker may do to the rows: change them, but keep their keys.
SameKeys == Ids' = Ids /\ \A i \in Ids: outbox'[i].key = outbox[i].key

(* The rows that a handler works on have a first one. *)
LEMMA MinIn ==
  ASSUME NEW n \in Nat, NEW S \in SUBSET (1 .. n), S # {}
  PROVE  Min(S) \in S /\ \A y \in S: Min(S) <= y
<1> DEFINE N == 1 .. n
           Below == {1 .. x: x \in S}
<1>1. IsFiniteSet(N)
  BY FS_Interval
<1>2. IsWellFoundedOn(StrictSubsetOrdering(N), SUBSET N)
  <2>1. FiniteSubsetsOf(N) = SUBSET N
    BY <1>1, FS_FiniteSubsetsOfFinite
  <2>2. QED
    BY <2>1, FS_StrictSubsetOrderingWellFounded
<1>3. Below \subseteq SUBSET N /\ Below # {}
  <2>1. \A x \in S: 1 .. x \in SUBSET N
    OBVIOUS
  <2>2. QED
    <3> HIDE DEF N
    <3>1. QED
      BY <2>1
<1>4. PICK b \in Below: \A c \in Below: <<c, b>> \notin StrictSubsetOrdering(N)
  <2> HIDE DEF Below, N
  <2>1. QED
    BY <1>2, <1>3, WFMin
<1>5. PICK x \in S: b = 1 .. x
  BY <1>4
<1>6. ASSUME NEW y \in S PROVE x <= y
  <2>1. SUFFICES ASSUME y < x PROVE FALSE
    OBVIOUS
  <2>2. 1 .. y \subseteq 1 .. x /\ 1 .. y # 1 .. x
    <3>1. x \in 1 .. x /\ x \notin 1 .. y
      BY <2>1
    <3>2. QED
      BY <2>1, <3>1
  <2>3. 1 .. y \in SUBSET N /\ 1 .. x \in SUBSET N
    OBVIOUS
  <2>4. <<1 .. y, 1 .. x>> \in StrictSubsetOrdering(N)
    <3> HIDE DEF N
    <3>1. QED
      BY <2>2, <2>3 DEF StrictSubsetOrdering
  <2>5. QED
    BY <1>4, <1>5, <2>4
<1>7. QED
  BY <1>6 DEF Min

(* Replacing the rows one by one leaves a sequence of rows. *)
LEMMA RowsMapped ==
  ASSUME NEW s \in Seq(RowType), NEW t, DOMAIN t = DOMAIN s,
         t = [i \in DOMAIN s |-> t[i]], \A i \in DOMAIN s: t[i] \in RowType
  PROVE  t \in Seq(RowType)
<1>1. DOMAIN s = 1 .. Len(s) /\ Len(s) \in Nat
  OBVIOUS
<1>2. t \in [1 .. Len(s) -> RowType]
  BY <1>1
<1>3. QED
  BY <1>1, <1>2, SeqDef


LEMMA ClaimedRow ==
  ASSUME NEW row \in RowType, NEW next,
         next = [row EXCEPT !.locked = TRUE, !.attempts = @ + 1]
  PROVE  /\ next \in RowType /\ next.key = row.key
         /\ next.locked /\ next.processed = row.processed
<1>1. /\ row = [key |-> row.key, due |-> row.due, locked |-> row.locked,
                processed |-> row.processed, attempts |-> row.attempts]
      /\ row.key \in Keys /\ row.due \in BOOLEAN /\ row.processed \in BOOLEAN
      /\ row.attempts \in Nat
  BY DEF RowType
<1>2. next = [key |-> row.key, due |-> row.due, locked |-> TRUE,
              processed |-> row.processed, attempts |-> row.attempts + 1]
  BY <1>1
<1>3. row.attempts + 1 \in Nat
  BY <1>1
<1>4. QED
  BY <1>1, <1>2, <1>3 DEF RowType

(* A step that handles rows keeps them rows, and leaves their keys alone. *)
LEMMA RowsHandled ==
  ASSUME Types,
         \/ \E w \in Workers: \/ Claim(w)
                              \/ (MarkProcessed(w) \/ MarkRetry(w)) /\ held[w] # {}
         \/ \E i \in Ids: FallDue(i)
  PROVE  outbox' \in Seq(RowType) /\ SameKeys
<1>1. /\ \A j \in Ids: outbox[j] \in RowType
      /\ outbox \in Seq(RowType) /\ Ids = 1 .. Len(outbox) /\ Len(outbox) \in Nat
  BY DEF Types, Ids
<1>2. \A w \in Workers: held[w] \subseteq Ids
  BY DEF Types
<1>3. \A w \in Workers: held[w] # {} => Min(held[w]) \in Ids
  BY <1>1, <1>2, MinIn
<1>4. ASSUME NEW w \in Workers, Claim(w)
      PROVE  outbox' \in Seq(RowType) /\ SameKeys
  <2>1. DOMAIN outbox' = Ids
    BY <1>4 DEF Claim
  <2>2. \A j \in Ids: outbox'[j] \in RowType /\ outbox'[j].key = outbox[j].key
    BY <1>1, <1>4, ClaimedRow DEF Claim
  <2>3. outbox' = [j \in DOMAIN outbox |-> outbox'[j]]
    BY <1>4, <2>1 DEF Claim, Ids
  <2>4. QED
    BY <1>1, <2>1, <2>2, <2>3, RowsMapped DEF Ids, SameKeys
<1>5. ASSUME NEW m \in Ids, NEW row \in RowType, row.key = outbox[m].key,
             outbox' = [outbox EXCEPT ![m] = row]
      PROVE  outbox' \in Seq(RowType) /\ SameKeys
  <2>1. DOMAIN outbox' = Ids /\ \A j \in Ids: outbox'[j] = IF j = m THEN row ELSE outbox[j]
    BY <1>1, <1>5 DEF Ids
  <2>2. outbox' \in Seq(RowType)
    BY <1>1, <1>5
  <2>3. QED
    BY <1>5, <2>1, <2>2 DEF Ids, SameKeys
<1>6. ASSUME NEW w \in Workers, MarkProcessed(w), held[w] # {}
      PROVE  outbox' \in Seq(RowType) /\ SameKeys
  <2> DEFINE m == Min(held[w])
             row == [outbox[m] EXCEPT !.processed = TRUE, !.locked = FALSE]
  <2>1. m \in Ids /\ row \in RowType /\ row.key = outbox[m].key
    BY <1>1, <1>3, <1>6 DEF RowType
  <2>2. outbox' = [outbox EXCEPT ![m] = row]
    BY <1>6 DEF MarkProcessed
  <2>3. QED
    BY <1>5, <2>1, <2>2
<1>7. ASSUME NEW w \in Workers, MarkRetry(w), held[w] # {}
      PROVE  outbox' \in Seq(RowType) /\ SameKeys
  <2> DEFINE m == Min(held[w])
             row == [outbox[m] EXCEPT !.due = FALSE, !.locked = FALSE]
  <2>1. m \in Ids /\ row \in RowType /\ row.key = outbox[m].key
    BY <1>1, <1>3, <1>7 DEF RowType
  <2>2. outbox' = [outbox EXCEPT ![m] = row]
    BY <1>7 DEF MarkRetry
  <2>3. QED
    BY <1>5, <2>1, <2>2
<1>8. ASSUME NEW i \in Ids, FallDue(i)
      PROVE  outbox' \in Seq(RowType) /\ SameKeys
  <2> DEFINE row == [outbox[i] EXCEPT !.due = TRUE]
  <2>1. row \in RowType /\ row.key = outbox[i].key
    BY <1>1 DEF RowType
  <2>2. outbox' = [outbox EXCEPT ![i] = row]
    BY <1>8 DEF FallDue
  <2>3. QED
    BY <1>5, <2>1, <2>2
<1>9. QED
  BY <1>4, <1>6, <1>7, <1>8

(* ... so the records stay as true as they were. *)
LEMMA RecordsKept ==
  ASSUME Types, Recorded, SameKeys, idem' = idem
  PROVE  Recorded'
BY DEF Recorded, SameKeys, Types, Ids

-------------------------------------------------------------------------------
(* Requests are answered truly. *)

LEMMA LookStep ==
  ASSUME Kept, NEW r \in Requests, Look(r) \/ SendAgain(r)
  PROVE  Kept'
<1>1. \A q \in Requests: phase'[q] = phase[q] \/ q = r
  BY DEF Look, SendAgain, Kept, Types
<1>2. phase'[r] \in {"new", "inserting", "replayed", "refused"}
  BY DEF Look, SendAgain, Kept, Types, Found
<1>3. phase'[r] = "replayed" => idem[KeyOf[r]] = HashOf[r]
  <2>1. CASE Look(r)
    BY <2>1 DEF Look, Kept, Types, Found
  <2>2. CASE SendAgain(r)
    BY <2>2 DEF SendAgain, Kept, Types
  <2>3. QED
    BY <2>1, <2>2
<1>4. UNCHANGED <<idem, outbox, pc, held, deliveries>>
  BY DEF Look, SendAgain, worker
<1>5. phase' \in [Requests -> Phases]
  BY <1>2 DEF Look, SendAgain, Kept, Types, Phases
<1>6. Types' /\ Recorded' /\ Busy'
  BY <1>4, <1>5 DEF Kept, Types, Recorded, Busy, Ids
<1>7. Reserved'
  BY <1>1, <1>2, <1>4 DEF Kept, Reserved
<1>8. Answered'
  BY <1>1, <1>2, <1>3, <1>4 DEF Kept, Answered
<1>9. QED
  BY <1>6, <1>7, <1>8 DEF Kept

LEMMA InsertStep ==
  ASSUME Kept, NEW r \in Requests, Insert(r)
  PROVE  Kept'
<1>1. /\ phase[r] = "inserting"
      /\ \A q \in Requests: phase[q] = "reserved" => KeyOf[q] # KeyOf[r]
      /\ phase' = [phase EXCEPT ![r] = IF idem[KeyOf[r]] = None THEN "reserved" ELSE "failed"]
      /\ UNCHANGED <<idem, outbox, pc, held, deliveries>>
  BY DEF Insert, worker
<1>2. /\ \A q \in Requests: phase'[q] = phase[q] \/ q = r
      /\ phase'[r] \in {"reserved", "failed"}
      /\ phase'[r] = "reserved" => idem[KeyOf[r]] = None
  BY <1>1 DEF Kept, Types
<1>3. phase' \in [Requests -> Phases]
  BY <1>1 DEF Kept, Types, Phases
<1>4. Types' /\ Recorded' /\ Busy'
  BY <1>1, <1>3 DEF Kept, Types, Recorded, Busy, Ids
<1>5. Reserved'
  BY <1>1, <1>2 DEF Kept, Reserved
<1>6. Answered'
  BY <1>1, <1>2 DEF Kept, Answered
<1>7. QED
  BY <1>4, <1>5, <1>6 DEF Kept

LEMMA CommitStep ==
  ASSUME Kept, NEW r \in Requests, Commit(r)
  PROVE  Kept'
<1> DEFINE k == KeyOf[r]
           n == Len(outbox)
<1>1. /\ phase[r] = "reserved" /\ k \in Keys
      /\ phase' = [phase EXCEPT ![r] = "applied"]
      /\ idem' = [idem EXCEPT ![k] = HashOf[r]]
      /\ outbox' = Append(outbox, Row(k))
      /\ UNCHANGED <<pc, held, deliveries>>
  BY OutboxConstants DEF Commit
<1>2. idem[k] = None /\ \A i \in Ids: outbox[i].key # k
  BY <1>1 DEF Kept, Reserved, Recorded
<1>3. Row(k) \in RowType /\ Row(k).key = k
  BY <1>1 DEF Row, RowType
<1>4. /\ outbox' \in Seq(RowType) /\ n \in Nat
      /\ Ids = 1 .. n /\ Ids' = 1 .. n + 1
      /\ \A i \in Ids: outbox'[i] = outbox[i]
      /\ outbox'[n + 1].key = k
  BY <1>1, <1>3 DEF Kept, Types, Ids
<1>5. /\ DOMAIN idem' = Keys /\ idem'[k] = HashOf[r] /\ HashOf[r] # None
      /\ \A l \in Keys \ {k}: idem'[l] = idem[l]
  BY <1>1, OutboxConstants DEF Kept, Types
<1>6. /\ phase' \in [Requests -> Phases] /\ phase'[r] = "applied"
      /\ \A q \in Requests \ {r}: phase'[q] = phase[q]
  BY <1>1 DEF Kept, Types, Phases
<1> HIDE DEF k, n
<1>7. Types' /\ Busy'
  BY <1>1, <1>4, <1>5, <1>6 DEF Kept, Types, Busy
<1>8. Recorded'
  <2>1. \A l \in Keys: idem'[l] = None <=> \A i \in Ids': outbox'[i].key # l
    BY <1>2, <1>4, <1>5 DEF Kept, Recorded
  <2>2. \A i, j \in Ids': outbox'[i].key = outbox'[j].key => i = j
    BY <1>2, <1>4 DEF Kept, Recorded
  <2>3. QED
    BY <2>1, <2>2 DEF Recorded
<1>9. \A q \in Requests \ {r}: phase[q] = "reserved" => KeyOf[q] # k
  BY <1>1 DEF Kept, Reserved, k
<1>10. \A q \in Requests: KeyOf[q] \in Keys
  BY OutboxConstants
<1>11. Reserved'
  BY <1>5, <1>6, <1>9, <1>10 DEF Kept, Reserved
<1>12. \A q \in Requests: phase[q] \in {"applied", "replayed"} => KeyOf[q] # k
  BY <1>2, <1>10, OutboxConstants DEF Kept, Answered
<1>13. Answered'
  BY <1>5, <1>6, <1>10, <1>12 DEF Kept, Answered, k
<1>14. QED
  BY <1>7, <1>8, <1>11, <1>13 DEF Kept

(* Steps that leave the requests alone and the rows with their keys. *)
LEMMA KeysStep ==
  ASSUME Kept, SameKeys, outbox' \in Seq(RowType), UNCHANGED requests,
         pc' \in [Workers -> {"down", "listening", "claiming", "handling", "delivered"}],
         held' \in [Workers -> SUBSET Ids],
         deliveries' \in [Keys -> Nat],
         Busy'
  PROVE  Kept'
<1>1. Types'
  BY DEF Kept, Types, SameKeys, requests
<1>2. Recorded'
  BY RecordsKept DEF Kept, requests
<1>3. Reserved' /\ Answered'
  BY DEF Kept, Reserved, Answered, requests
<1>4. QED
  BY <1>1, <1>2, <1>3 DEF Kept

LEMMA QuietRows == ASSUME Kept, UNCHANGED outbox PROVE SameKeys /\ outbox' \in Seq(RowType)
BY DEF Kept, Types, SameKeys, Ids

LEMMA WorkerStep ==
  ASSUME Kept, NEW w \in Workers,
         Work(w) \/ Connect(w) \/ Drop(w) \/ MarkRetry(w) \/ Raise(w) \/ Die(w)
  PROVE  Kept'
<1>1. /\ pc \in [Workers -> {"down", "listening", "claiming", "handling", "delivered"}]
      /\ held \in [Workers -> SUBSET Ids] /\ deliveries \in [Keys -> Nat]
      /\ Ids = 1 .. Len(outbox) /\ Len(outbox) \in Nat
      /\ \A i \in Ids: outbox[i].key \in Keys
      /\ Types /\ Busy
  <2>1. outbox \in Seq(RowType)
    BY DEF Kept, Types
  <2>2. \A i \in Ids: outbox[i] \in RowType
    BY <2>1 DEF Ids
  <2>3. Ids = 1 .. Len(outbox) /\ Len(outbox) \in Nat
    BY <2>1 DEF Ids
  <2>4. \A i \in Ids: outbox[i].key \in Keys
    BY <2>2 DEF RowType
  <2>5. QED
    BY <2>3, <2>4 DEF Kept, Types
<1>2. CASE Poll(w) \/ Connect(w) \/ Drop(w)
  BY <1>1, <1>2, KeysStep, QuietRows DEF Poll, Connect, Drop, Busy
<1>3. CASE Select(w)
  <2>1. Batch \subseteq Ids
    BY DEF Batch
  <2>2. Busy'
    BY <1>1, <1>3 DEF Select, Busy
  <2>3. held' \in [Workers -> SUBSET Ids]
    BY <1>1, <1>3, <2>1 DEF Select
  <2>4. QED
    BY <1>1, <1>3, <2>2, <2>3, KeysStep, QuietRows DEF Select
<1>4. CASE Claim(w)
  <2>1. SameKeys /\ outbox' \in Seq(RowType)
    BY <1>1, <1>4, RowsHandled
  <2>2. QED
    BY <1>1, <1>4, <2>1, KeysStep DEF Claim, Busy
<1>5. CASE Deliver(w)
  <2>1. outbox[Min(held[w])].key \in Keys
    BY <1>1, <1>5, MinIn DEF Deliver, Busy
  <2>2. deliveries' \in [Keys -> Nat]
    BY <1>1, <1>5, <2>1 DEF Deliver
  <2>3. QED
    BY <1>1, <1>5, <2>2, KeysStep, QuietRows DEF Deliver, Busy
<1>6. CASE MarkProcessed(w) \/ MarkRetry(w)
  <2>1. held[w] # {}
    BY <1>1, <1>6 DEF MarkProcessed, MarkRetry, Busy
  <2>2. SameKeys /\ outbox' \in Seq(RowType)
    BY <1>1, <1>6, <2>1, RowsHandled
  <2>3. /\ held' = [held EXCEPT ![w] = held[w] \ {Min(held[w])}]
        /\ pc' = [pc EXCEPT ![w] = IF held'[w] = {} THEN "listening" ELSE "handling"]
        /\ UNCHANGED <<requests, deliveries>>
    BY <1>6 DEF MarkProcessed, MarkRetry, Release
  <2>4. held' \in [Workers -> SUBSET Ids]
    BY <1>1, <2>3
  <2>5. Busy'
    BY <1>1, <2>3 DEF Busy
  <2>6. QED
    BY <1>1, <2>2, <2>3, <2>4, <2>5, KeysStep
<1>7. CASE Raise(w) \/ Die(w)
  BY <1>1, <1>7, KeysStep, QuietRows DEF Raise, Die, Busy
<1>8. QED
  BY <1>2, <1>3, <1>4, <1>5, <1>6, <1>7 DEF Work

LEMMA KeptStep == Kept /\ [Next]_vars => Kept'
<1>1. SUFFICES ASSUME Kept, [Next]_vars PROVE Kept'
  OBVIOUS
<1>2. ASSUME NEW r \in Requests, Look(r) \/ Insert(r) \/ Commit(r) \/ SendAgain(r) PROVE Kept'
  BY <1>1, <1>2, LookStep, InsertStep, CommitStep
<1>3. ASSUME NEW w \in Workers,
             Work(w) \/ Connect(w) \/ Drop(w) \/ MarkRetry(w) \/ Raise(w) \/ Die(w)
      PROVE  Kept'
  BY <1>1, <1>3, WorkerStep
<1>4. ASSUME NEW i \in Ids, FallDue(i) PROVE Kept'
  <2>1. /\ pc' = pc /\ held' = held /\ deliveries' = deliveries /\ UNCHANGED requests
    BY <1>4 DEF FallDue, worker
  <2>2. SameKeys /\ outbox' \in Seq(RowType)
    BY <1>1, <1>4, RowsHandled DEF Kept
  <2>3. QED
    BY <1>1, <2>1, <2>2, KeysStep DEF Kept, Types, Busy
<1>5. CASE UNCHANGED vars
  BY <1>1, <1>5, QuietRows, KeysStep DEF vars, requests, Kept, Types, Busy
<1>6. QED
  BY <1>1, <1>2, <1>3, <1>4, <1>5 DEF Next

LEMMA KeptInit == Init => Kept
BY DEF Init, Kept, Types, Recorded, Reserved, Answered, Busy, Ids, Phases

LEMMA KeptAnswers == Kept => AnsweredTruly
<1>1. SUFFICES ASSUME Kept, NEW r \in Requests, phase[r] \in {"applied", "replayed"}
               PROVE  idem[KeyOf[r]] = HashOf[r] /\ Cardinality(Rows(KeyOf[r])) = 1
  BY DEF AnsweredTruly
<1>2. idem[KeyOf[r]] = HashOf[r] /\ KeyOf[r] \in Keys /\ HashOf[r] # None
  BY <1>1, OutboxConstants DEF Kept, Answered
<1>3. PICK i \in Ids: outbox[i].key = KeyOf[r]
  BY <1>1, <1>2 DEF Kept, Recorded
<1>4. Rows(KeyOf[r]) = {i}
  BY <1>1, <1>3 DEF Kept, Recorded, Rows
<1>5. QED
  BY <1>2, <1>4, FS_Singleton

(* With any number of workers and of requests that race or are sent again,   *)
(* a request is answered with the result of its own payload, and its key     *)
(* has exactly one event and outbox row: the lookup and the unique           *)
(* constraint of world_command_idempotency are enough.                       *)
THEOREM AnswersHold == Spec => []AnsweredTruly
<1>1. Init => Kept
  BY KeptInit
<1>2. Kept /\ [Next]_vars => Kept'
  BY KeptStep
<1>3. Kept => AnsweredTruly
  BY KeptAnswers
<1>4. QED
  BY <1>1, <1>2, <1>3, PTL DEF Spec

-------------------------------------------------------------------------------
(* One worker delivers each message once. *)

\* What the worker's handler knows of its rows.
Handled ==
  \A w \in Workers:
    /\ pc[w] \in {"down", "listening"} => held[w] = {}
    /\ pc[w] = "claiming" => \A i \in held[w]: ~outbox[i].locked /\ ~outbox[i].processed
    /\ pc[w] \in {"handling", "delivered"} =>
         \A i \in held[w]: outbox[i].locked /\ ~outbox[i].processed

\* How often a row's message was delivered: never while it is free or waits for
\* the handler, once when it is processed or the handler has just delivered it.
Count(i) == deliveries[outbox[i].key]
Counted ==
  /\ \A k \in Keys: (\A i \in Ids: outbox[i].key # k) => deliveries[k] = 0
  /\ \A i \in Ids:
       /\ outbox[i].processed => ~outbox[i].locked /\ Count(i) = 1
       /\ ~outbox[i].processed /\ ~outbox[i].locked => Count(i) = 0
       /\ outbox[i].locked => Count(i) \in {0, 1}
       /\ \A w \in Workers: i \in held[w] =>
            /\ pc[w] = "handling" => Count(i) = 0
            /\ pc[w] = "delivered" => Count(i) = IF i = Min(held[w]) THEN 1 ELSE 0

Once == Kept /\ Handled /\ Counted

LEMMA OnceInit == Init => Once
<1>1. Init => Handled /\ Counted
  BY DEF Init, Handled, Counted, Ids
<1>2. QED
  BY <1>1, KeptInit DEF Once

(* A message that was never delivered gets its row. *)
LEMMA OnceCommit ==
  ASSUME Once, NEW r \in Requests, Commit(r)
  PROVE  Handled' /\ Counted'
<1> DEFINE k == KeyOf[r]
           n == Len(outbox)
<1>1. /\ phase[r] = "reserved" /\ k \in Keys
      /\ outbox' = Append(outbox, Row(k))
      /\ UNCHANGED <<pc, held, deliveries>>
  BY OutboxConstants DEF Commit
<1>2. \A i \in Ids: outbox[i].key # k
  BY <1>1 DEF Once, Kept, Reserved, Recorded
<1>3. deliveries[k] = 0
  BY <1>1, <1>2 DEF Once, Counted
<1>4. /\ n \in Nat /\ Ids = 1 .. n /\ Ids' = 1 .. n + 1
      /\ \A i \in Ids: outbox'[i] = outbox[i]
      /\ outbox'[n + 1] = Row(k)
      /\ \A w \in Workers: held[w] \subseteq Ids
  BY <1>1 DEF Once, Kept, Types, Ids
<1>5. outbox'[n + 1].key = k /\ ~outbox'[n + 1].locked /\ ~outbox'[n + 1].processed
  BY <1>4 DEF Row
<1> HIDE DEF k, n
<1>6. Handled'
  BY <1>1, <1>4 DEF Once, Handled
<1>7. ASSUME NEW l \in Keys, \A i \in Ids': outbox'[i].key # l PROVE deliveries'[l] = 0
  <2>1. \A i \in Ids: outbox[i].key # l
    BY <1>4, <1>7
  <2>2. QED
    BY <1>1, <2>1 DEF Once, Counted
<1>8. ASSUME NEW i \in Ids'
      PROVE  /\ outbox'[i].processed => ~outbox'[i].locked /\ Count(i)' = 1
             /\ ~outbox'[i].processed /\ ~outbox'[i].locked => Count(i)' = 0
             /\ outbox'[i].locked => Count(i)' \in {0, 1}
             /\ \A w \in Workers: i \in held'[w] =>
                  /\ pc'[w] = "handling" => Count(i)' = 0
                  /\ pc'[w] = "delivered" => Count(i)' = IF i = Min(held'[w]) THEN 1 ELSE 0
  <2>1. CASE i = n + 1
    <3>1. Count(i)' = 0
      BY <1>1, <1>3, <1>5, <2>1 DEF Count
    <3>2. \A w \in Workers: i \notin held'[w]
      BY <1>1, <1>4, <2>1
    <3>3. QED
      BY <1>5, <2>1, <3>1, <3>2
  <2>2. CASE i \in Ids
    BY <1>1, <1>4, <2>2 DEF Once, Counted, Count
  <2>3. QED
    BY <1>4, <1>8, <2>1, <2>2
<1>9. QED
  BY <1>6, <1>7, <1>8 DEF Counted

(* Steps that touch no row and deliver nothing. *)
LEMMA OnceQuiet ==
  ASSUME Once, UNCHANGED <<outbox, deliveries>>,
         \A w \in Workers: \/ pc'[w] = pc[w] /\ held'[w] = held[w]
                           \/ pc'[w] \in {"down", "listening"} /\ held'[w] = {}
  PROVE  Handled' /\ Counted'
<1>1. Handled'
  BY DEF Once, Handled
<1>2. Counted'
  BY DEF Once, Counted, Count, Ids
<1>3. QED
  BY <1>1, <1>2

LEMMA OnceWorker ==
  ASSUME NEW w, Workers = {w}, Once, Work(w) \/ MarkRetry(w)
  PROVE  Handled' /\ Counted'
<1>1. /\ pc \in [Workers -> {"down", "listening", "claiming", "handling", "delivered"}]
      /\ held \in [Workers -> SUBSET Ids] /\ deliveries \in [Keys -> Nat]
      /\ Ids = 1 .. Len(outbox) /\ Len(outbox) \in Nat
      /\ \A i \in Ids: outbox[i].key \in Keys
      /\ \A i, j \in Ids: outbox[i].key = outbox[j].key => i = j
  <2>1. \A i \in Ids: outbox[i] \in RowType
    BY DEF Once, Kept, Types, Ids
  <2>2. \A i \in Ids: outbox[i].key \in Keys
    BY <2>1 DEF RowType
  <2>3. QED
    BY <2>2 DEF Once, Kept, Types, Recorded, Ids
<1>2. CASE Poll(w)
  BY <1>1, <1>2, OnceQuiet DEF Poll
<1>3. CASE Select(w)
  <2>1. \A i \in Batch: i \in Ids /\ ~outbox[i].locked /\ ~outbox[i].processed
    BY DEF Batch, Claimable
  <2>2. /\ pc'[w] = IF Batch = {} THEN "listening" ELSE "claiming"
        /\ held'[w] = Batch /\ UNCHANGED <<outbox, deliveries>>
    BY <1>1, <1>3 DEF Select
  <2>3. Handled'
    BY <2>1, <2>2 DEF Handled
  <2>4. Counted'
    BY <2>2 DEF Once, Counted, Count, Ids
  <2>5. QED
    BY <2>3, <2>4
<1>4. CASE Claim(w)
  <2>1. /\ pc[w] = "claiming" /\ pc'[w] = "handling"
        /\ UNCHANGED <<held, deliveries>> /\ Ids' = Ids
    BY <1>1, <1>4 DEF Claim, Ids
  <2>2. SameKeys
    BY <1>4, RowsHandled DEF Once, Kept
  <2>3. ASSUME NEW i \in Ids
        PROVE  /\ i \notin held[w] => outbox'[i] = outbox[i]
               /\ i \in held[w] =>
                    outbox'[i] = [outbox[i] EXCEPT !.locked = TRUE, !.attempts = @ + 1]
    BY <1>4 DEF Claim
  <2>4. \A i \in held[w]: outbox[i] \in RowType
    BY <1>1 DEF Once, Kept, Types, Ids
  <2>5. ASSUME NEW i \in held[w]
        PROVE  /\ outbox'[i].locked /\ outbox'[i].processed = outbox[i].processed
    BY <1>1, <2>3, <2>4, ClaimedRow
  <2>6. \A i \in held[w]: ~outbox[i].locked /\ ~outbox[i].processed /\ Count(i) = 0
    BY <1>1, <2>1 DEF Once, Handled, Counted
  <2>7. \A i \in Ids: Count(i)' = Count(i)
    BY <2>1, <2>2 DEF Count, SameKeys
  <2>8. Handled'
    BY <2>1, <2>5, <2>6 DEF Handled
  <2>9. \A k \in Keys: (\A i \in Ids': outbox'[i].key # k) => deliveries'[k] = 0
    BY <2>1, <2>2 DEF Once, Counted, SameKeys
  <2>10. ASSUME NEW i \in Ids
         PROVE  /\ outbox'[i].processed => ~outbox'[i].locked /\ Count(i)' = 1
                /\ ~outbox'[i].processed /\ ~outbox'[i].locked => Count(i)' = 0
                /\ outbox'[i].locked => Count(i)' \in {0, 1}
    BY <2>3, <2>5, <2>6, <2>7 DEF Once, Counted
  <2>11. QED
    BY <2>1, <2>6, <2>7, <2>8, <2>9, <2>10 DEF Counted
<1>5. CASE Deliver(w)
  <2> DEFINE m == Min(held[w])
             k == outbox[m].key
  <2>1. m \in held[w] /\ m \in Ids /\ k \in Keys
    BY <1>1, <1>5, MinIn DEF Deliver, Once, Kept, Busy
  <2>2. /\ pc[w] = "handling" /\ pc'[w] = "delivered"
        /\ deliveries' = [deliveries EXCEPT ![k] = @ + 1]
        /\ UNCHANGED <<outbox, held>>
    BY <1>1, <1>5 DEF Deliver
  <2>3. /\ \A i \in held[w]: outbox[i].locked /\ ~outbox[i].processed /\ Count(i) = 0
    BY <1>1, <2>2 DEF Once, Handled, Counted
  <2>4. \A i \in Ids: Count(i)' = IF i = m THEN 1 ELSE Count(i)
    BY <1>1, <2>1, <2>2, <2>3 DEF Count
  <2>5. Handled'
    BY <2>2, <2>3 DEF Handled
  <2>6. \A l \in Keys: (\A i \in Ids': outbox'[i].key # l) => deliveries'[l] = 0
    BY <1>1, <2>1, <2>2 DEF Once, Counted, Ids
  <2> HIDE DEF m, k
  <2>7. ASSUME NEW i \in Ids
        PROVE  /\ outbox[i].processed => ~outbox[i].locked /\ Count(i)' = 1
               /\ ~outbox[i].processed /\ ~outbox[i].locked => Count(i)' = 0
               /\ outbox[i].locked => Count(i)' \in {0, 1}
               /\ i \in held[w] => Count(i)' = IF i = m THEN 1 ELSE 0
    <3>1. CASE i = m
      <4>1. Count(i)' = 1
        BY <2>4, <3>1
      <4>2. outbox[i].locked /\ ~outbox[i].processed
        BY <2>1, <2>3, <3>1
      <4>3. QED
        BY <3>1, <4>1, <4>2
    <3>2. CASE i # m
      BY <2>3, <2>4, <3>2 DEF Once, Counted
    <3>3. QED
      BY <3>1, <3>2
  <2>8. QED
    BY <2>2, <2>5, <2>6, <2>7 DEF Counted, Ids, m
<1>6. CASE MarkProcessed(w) \/ MarkRetry(w)
  <2> DEFINE m == Min(held[w])
  <2>1. m \in held[w] /\ m \in Ids
    BY <1>1, <1>6, MinIn DEF MarkProcessed, MarkRetry, Once, Kept, Busy
  <2>2. /\ held'[w] = held[w] \ {m}
        /\ pc'[w] = IF held'[w] = {} THEN "listening" ELSE "handling"
        /\ pc[w] \in {"handling", "delivered"}
        /\ deliveries' = deliveries
    BY <1>1, <1>6 DEF MarkProcessed, MarkRetry, Release
  <2>3. SameKeys /\ Ids' = Ids
    BY <1>6, <2>1, RowsHandled DEF Once, Kept, SameKeys
  <2>4. \A i \in Ids \ {m}: outbox'[i] = outbox[i]
    BY <1>1, <1>6 DEF MarkProcessed, MarkRetry, Ids
  <2>5. outbox[m] \in RowType /\ outbox \in Seq(RowType)
    BY <2>1 DEF Once, Kept, Types, Ids
  <2>6. /\ ~outbox'[m].locked
        /\ outbox'[m].processed <=> MarkProcessed(w)
    <3>1. outbox[m].locked /\ ~outbox[m].processed
      BY <2>1, <2>2 DEF Once, Handled
    <3>2. CASE MarkProcessed(w)
      <4>1. outbox' = [outbox EXCEPT ![m] = [outbox[m] EXCEPT !.processed = TRUE, !.locked = FALSE]]
        BY <3>2 DEF MarkProcessed
      <4>2. QED
        BY <2>1, <2>5, <3>2, <4>1 DEF RowType, Ids
    <3>3. CASE MarkRetry(w) /\ ~MarkProcessed(w)
      <4>1. outbox' = [outbox EXCEPT ![m] = [outbox[m] EXCEPT !.due = FALSE, !.locked = FALSE]]
        BY <3>3 DEF MarkRetry
      <4>2. QED
        BY <2>1, <2>5, <3>1, <3>3, <4>1 DEF RowType, Ids
    <3>4. QED
      BY <1>6, <3>2, <3>3
  <2>7. Count(m) = IF MarkProcessed(w) THEN 1 ELSE 0
    BY <1>6, <2>1 DEF MarkProcessed, MarkRetry, Once, Counted
  <2>8. \A i \in Ids: Count(i)' = Count(i)
    BY <2>2, <2>3 DEF Count, SameKeys
  <2>9. \A i \in held[w] \ {m}: outbox[i].locked /\ ~outbox[i].processed /\ Count(i) = 0
    BY <1>1, <2>1, <2>2 DEF Once, Handled, Counted
  <2> HIDE DEF m
  <2>10. Handled'
    BY <1>1, <2>2, <2>4, <2>9 DEF Handled
  <2>11. \A k \in Keys: (\A i \in Ids': outbox'[i].key # k) => deliveries'[k] = 0
    BY <2>2, <2>3 DEF Once, Counted, SameKeys
  <2>12. ASSUME NEW i \in Ids
         PROVE  /\ outbox'[i].processed => ~outbox'[i].locked /\ Count(i)' = 1
                /\ ~outbox'[i].processed /\ ~outbox'[i].locked => Count(i)' = 0
                /\ outbox'[i].locked => Count(i)' \in {0, 1}
    BY <2>4, <2>6, <2>7, <2>8 DEF Once, Counted
  <2>13. QED
    BY <2>2, <2>3, <2>8, <2>9, <2>10, <2>11, <2>12 DEF Counted
<1>7. QED
  BY <1>2, <1>3, <1>4, <1>5, <1>6 DEF Work

LEMMA OnceFree ==
  ASSUME Once, NEW i \in Ids, FallDue(i)
  PROVE  Handled' /\ Counted'
<1>1. SameKeys
  BY RowsHandled DEF Once, Kept
<1>2. \A j \in Ids: outbox[j] \in RowType
  BY DEF Once, Kept, Types, Ids
<1>3. [outbox[i] EXCEPT !.due = TRUE].locked = outbox[i].locked
      /\ [outbox[i] EXCEPT !.due = TRUE].processed = outbox[i].processed
  BY <1>2 DEF RowType
<1>4. outbox' = [outbox EXCEPT ![i] = [outbox[i] EXCEPT !.due = TRUE]]
  BY DEF FallDue
<1>5. \A j \in Ids: outbox'[j].locked = outbox[j].locked /\ outbox'[j].processed = outbox[j].processed
  BY <1>3, <1>4 DEF Once, Kept, Types, Ids
<1>6. UNCHANGED <<pc, held, deliveries>>
  BY DEF FallDue, worker
<1>7. \A w \in Workers: held[w] \subseteq Ids
  BY DEF Once, Kept, Types
<1>8. Handled'
  BY <1>5, <1>6, <1>7 DEF Once, Handled
<1>9. Counted'
  BY <1>1, <1>5, <1>6 DEF Once, Counted, Count, SameKeys
<1>10. QED
  BY <1>8, <1>9

LEMMA OnceStep ==
  ASSUME NEW w, Workers = {w}, Once, [Next]_vars
  PROVE  Once'
<1>1. Kept'
  BY KeptStep DEF Once
<1>2. ASSUME NEW r \in Requests, Look(r) \/ Insert(r) \/ SendAgain(r) PROVE Handled' /\ Counted'
  BY <1>2, OnceQuiet DEF Look, Insert, SendAgain, worker
<1>3. ASSUME NEW r \in Requests, Commit(r) PROVE Handled' /\ Counted'
  BY <1>3, OnceCommit
<1>4. CASE Work(w) \/ MarkRetry(w)
  BY <1>1, <1>4, OnceWorker DEF Once
<1>5. CASE Connect(w) \/ Drop(w) \/ Raise(w) \/ Die(w)
  <2>1. /\ pc \in [Workers -> {"down", "listening", "claiming", "handling", "delivered"}]
        /\ held \in [Workers -> SUBSET Ids]
        /\ pc[w] \in {"down", "listening"} => held[w] = {}
    BY DEF Once, Kept, Types, Handled
  <2>2. pc'[w] \in {"down", "listening"} /\ held'[w] = {} /\ UNCHANGED <<outbox, deliveries>>
    BY <1>5, <2>1 DEF Connect, Drop, Raise, Die
  <2>3. QED
    BY <1>1, <2>2, OnceQuiet DEF Once
<1>6. ASSUME NEW i \in Ids, FallDue(i) PROVE Handled' /\ Counted'
  BY <1>6, OnceFree
<1>7. CASE UNCHANGED vars
  BY <1>1, <1>7, OnceQuiet DEF Once, vars
<1>8. QED
  BY <1>1, <1>2, <1>3, <1>4, <1>5, <1>6, <1>7 DEF Next, Once

-------------------------------------------------------------------------------
(* The steps of the pipeline as steps of Delivery. *)

\* Where the message of row i is.
Place(i) == IF Count(i) = 1 THEN "delivered" ELSE IF Lost(i) THEN "lost" ELSE "sent"

Placed ==
  \A k \in Keys: /\ (\A i \in Ids: outbox[i].key # k) => Status(k) = "none"
                 /\ \A i \in Ids: outbox[i].key = k => Status(k) = Place(i)

LEMMA StatusPlaced == (Once => Placed) /\ (Once' => Placed')
<1>1. Once => Placed
  <2>1. SUFFICES ASSUME Once, NEW k \in Keys
                 PROVE  /\ (\A i \in Ids: outbox[i].key # k) => Status(k) = "none"
                        /\ \A i \in Ids: outbox[i].key = k => Status(k) = Place(i)
    BY DEF Placed
  <2>2. ASSUME \A i \in Ids: outbox[i].key # k PROVE Status(k) = "none"
    <3>1. deliveries[k] = 0
      BY <2>1, <2>2 DEF Once, Counted
    <3>2. Rows(k) = {}
      BY <2>2 DEF Rows
    <3>3. QED
      BY <3>1, <3>2 DEF Status
  <2>3. ASSUME NEW i \in Ids, outbox[i].key = k PROVE Status(k) = Place(i)
    <3>1. Rows(k) = {i}
      BY <2>1, <2>3 DEF Once, Kept, Recorded, Rows
    <3>2. deliveries[k] = Count(i) /\ Count(i) \in {0, 1}
      <4>1. outbox[i] \in RowType
        BY <2>1 DEF Once, Kept, Types, Ids
      <4>2. outbox[i].locked \in BOOLEAN /\ outbox[i].processed \in BOOLEAN
        BY <4>1 DEF RowType
      <4>3. QED
        BY <2>1, <2>3, <4>2 DEF Once, Counted, Count
    <3>3. QED
      BY <3>1, <3>2 DEF Status, Place
  <2>4. QED
    BY <2>2, <2>3
<1>2. Once' => Placed'
  BY <1>1, PTL
<1>3. QED
  BY <1>1, <1>2

(* If every row's message stays where it is, so does every key's. *)
LEMMA StatusKept ==
  ASSUME Once, Once', SameKeys, NEW S \in SUBSET Keys,
         \A i \in Ids: outbox[i].key \notin S => Place(i)' = Place(i)
  PROVE  \A k \in Keys \ S: Status(k)' = Status(k)
<1>1. Placed /\ Placed'
  BY StatusPlaced
<1>2. SUFFICES ASSUME NEW k \in Keys \ S PROVE Status(k)' = Status(k)
  OBVIOUS
<1>3. CASE \A i \in Ids: outbox[i].key # k
  BY <1>1, <1>3 DEF Placed, SameKeys
<1>4. ASSUME NEW i \in Ids, outbox[i].key = k PROVE Status(k)' = Status(k)
  <2>1. Status(k) = Place(i)
    BY <1>1, <1>4 DEF Placed
  <2>2. Status(k)' = Place(i)'
    BY <1>1, <1>4 DEF Placed, SameKeys
  <2>3. QED
    BY <1>2, <1>4, <2>1, <2>2
<1>5. QED
  BY <1>3, <1>4

\* The status of Delivery.
Mapped == [k \in Keys |-> Status(k)]

LEMMA Stutters ==
  ASSUME Once, Once', SameKeys, \A i \in Ids: Place(i)' = Place(i)
  PROVE  Mapped' = Mapped
<1>1. \A k \in Keys: Status(k)' = Status(k)
  BY StatusKept
<1>2. QED
  BY <1>1 DEF Mapped

LEMMA CommitSends ==
  ASSUME Once, Once', NEW r \in Requests, Commit(r)
  PROVE  D!Next
<1> DEFINE k == KeyOf[r]
           n == Len(outbox)
<1>1. /\ phase[r] = "reserved" /\ k \in Keys
      /\ outbox' = Append(outbox, Row(k))
      /\ UNCHANGED <<pc, held, deliveries>>
  BY OutboxConstants DEF Commit
<1>2. \A i \in Ids: outbox[i].key # k
  BY <1>1 DEF Once, Kept, Reserved, Recorded
<1>3. /\ n \in Nat /\ Ids = 1 .. n /\ Ids' = 1 .. n + 1
      /\ \A i \in Ids: outbox'[i] = outbox[i]
      /\ outbox'[n + 1] = Row(k)
  BY <1>1 DEF Once, Kept, Types, Ids
<1>4. outbox'[n + 1].key = k /\ ~outbox'[n + 1].locked
  BY <1>3 DEF Row
<1>5. Placed /\ Placed'
  BY StatusPlaced
<1>6. Status(k) = "none"
  BY <1>1, <1>2, <1>5 DEF Placed
<1>7. Status(k)' = "sent"
  <2>1. deliveries'[k] = 0
    BY <1>1, <1>2 DEF Once, Counted
  <2>2. PICK i \in Ids': outbox'[i].key = k /\ ~outbox'[i].locked
    BY <1>3, <1>4
  <2>3. Status(k)' = Place(i)'
    BY <1>1, <1>5, <2>2 DEF Placed
  <2>4. Place(i)' = "sent"
    BY <2>1, <2>2 DEF Place, Count, Lost
  <2>5. QED
    BY <2>3, <2>4
<1> HIDE DEF k, n
<1>8. ASSUME NEW l \in Keys \ {k} PROVE Status(l)' = Status(l)
  <2>1. CASE \A i \in Ids: outbox[i].key # l
    <3>1. \A i \in Ids': outbox'[i].key # l
      BY <1>3, <1>4, <1>8, <2>1
    <3>2. QED
      BY <1>5, <1>8, <2>1, <3>1 DEF Placed
  <2>2. ASSUME NEW i \in Ids, outbox[i].key = l PROVE Status(l)' = Status(l)
    <3>1. i \in Ids' /\ outbox'[i] = outbox[i]
      BY <1>3
    <3>2. Place(i)' = Place(i)
      BY <1>1, <3>1 DEF Place, Count, Lost
    <3>3. QED
      BY <1>5, <1>8, <2>2, <3>1, <3>2 DEF Placed
  <2>3. QED
    BY <2>1, <2>2
<1>9. /\ Mapped[k] = "none" /\ Mapped' = [Mapped EXCEPT ![k] = "sent"]
  BY <1>1, <1>6, <1>7, <1>8 DEF Mapped, k
<1>10. QED
  BY <1>1, <1>9 DEF D!Next, D!Send, Mapped, k

LEMMA DeliverDelivers ==
  ASSUME NEW w, Workers = {w}, Once, Once', Deliver(w)
  PROVE  D!Next
<1>1. PICK m \in Ids: m = Min(held[w]) /\ m \in held[w]
  <2>1. held[w] \in SUBSET (1 .. Len(outbox)) /\ Len(outbox) \in Nat /\ Ids = 1 .. Len(outbox)
    BY DEF Once, Kept, Types, Ids
  <2>2. QED
    BY <2>1, MinIn DEF Deliver, Once, Kept, Busy
<1>2. PICK k \in Keys: k = outbox[m].key
  <2>1. outbox[m] \in RowType
    BY DEF Once, Kept, Types, Ids
  <2>2. QED
    BY <2>1 DEF RowType
<1>3. /\ pc[w] = "handling" /\ UNCHANGED <<outbox, held>>
      /\ deliveries' = [deliveries EXCEPT ![k] = @ + 1]
      /\ pc'[w] = "delivered"
  BY <1>1, <1>2 DEF Deliver, Once, Kept, Types
<1>4. Count(m) = 0 /\ deliveries[k] = 0 /\ deliveries'[k] = 1
  BY <1>1, <1>2, <1>3 DEF Once, Counted, Count, Kept, Types
<1>5. Placed /\ Placed' /\ SameKeys
  BY <1>3, StatusPlaced DEF SameKeys, Ids
<1>6. Status(k) = "sent"
  <2>1. Place(m) = "sent"
    BY <1>1, <1>3, <1>4 DEF Place, Lost
  <2>2. QED
    BY <1>2, <1>5, <2>1 DEF Placed
<1>7. Status(k)' = "delivered"
  <2>1. Place(m)' = "delivered"
    BY <1>2, <1>3, <1>4 DEF Place, Count
  <2>2. QED
    BY <1>2, <1>3, <1>5, <2>1 DEF Placed, Ids
<1>8. ASSUME NEW i \in Ids, outbox[i].key \notin {k} PROVE Place(i)' = Place(i)
  <2>1. Count(i)' = Count(i)
    BY <1>3, <1>8 DEF Count, Once, Kept, Types
  <2>2. Lost(i)' = Lost(i)
    BY <1>3 DEF Lost
  <2>3. QED
    BY <2>1, <2>2 DEF Place
<1>9. \A l \in Keys \ {k}: Status(l)' = Status(l)
  BY <1>5, <1>8, StatusKept
<1>10. Mapped[k] = "sent" /\ Mapped' = [Mapped EXCEPT ![k] = "delivered"]
  BY <1>6, <1>7, <1>9 DEF Mapped
<1>11. QED
  BY <1>10 DEF D!Next, D!Deliver, Mapped

(* A handler that raises or dies loses what it had claimed and not delivered. *)
LEMMA FaultLoses ==
  ASSUME NEW w, Workers = {w}, Once, Once', Raise(w) \/ Die(w)
  PROVE  [D!Next]_Mapped
<1> DEFINE at == IF pc[w] \in {"handling", "delivered"}
                 THEN {i \in held[w]: Count(i) = 0} ELSE {}
           L == {outbox[i].key: i \in at}
<1>1. /\ UNCHANGED <<outbox, deliveries>> /\ held'[w] = {}
      /\ held[w] \subseteq Ids
      /\ \A i \in Ids: outbox[i].key \in Keys
      /\ \A i, j \in Ids: outbox[i].key = outbox[j].key => i = j
  <2>1. \A i \in Ids: outbox[i] \in RowType
    BY DEF Once, Kept, Types, Ids
  <2>2. \A i \in Ids: outbox[i].key \in Keys
    BY <2>1 DEF RowType
  <2>3. QED
    BY <2>2 DEF Raise, Die, Once, Kept, Types, Recorded
<1>2. at \subseteq Ids /\ L \subseteq Keys
  BY <1>1
<1>3. Placed /\ Placed' /\ SameKeys
  BY <1>1, StatusPlaced DEF SameKeys, Ids
<1>4. \A i \in Ids: Count(i)' = Count(i)
  BY <1>1 DEF Count
<1>5. ASSUME NEW i \in at
      PROVE  Status(outbox[i].key) = "sent" /\ Status(outbox[i].key)' = "lost"
  <2>1. i \in held[w] /\ pc[w] \in {"handling", "delivered"} /\ Count(i) = 0
    BY <1>5
  <2>2. Place(i) = "sent"
    BY <2>1 DEF Place, Lost
  <2>3. outbox[i].locked
    BY <2>1 DEF Once, Handled
  <2>4. Place(i)' = "lost"
    BY <1>1, <1>2, <1>4, <2>1, <2>3 DEF Place, Lost
  <2>5. QED
    BY <1>1, <1>2, <1>3, <2>2, <2>4 DEF Placed, Ids
<1>6. ASSUME NEW i \in Ids, outbox[i].key \notin L PROVE Place(i)' = Place(i)
  <2>1. i \notin at
    BY <1>6
  <2>2. CASE Count(i) = 1
    BY <1>4, <2>2 DEF Place
  <2>3. CASE i \notin held[w]
    BY <1>1, <1>4, <2>3 DEF Place, Lost
  <2>4. CASE i \in held[w] /\ Count(i) # 1
    <3>1. pc[w] \in {"handling", "delivered"} => Count(i) = 0
      BY <2>4 DEF Once, Counted
    <3>2. pc[w] = "claiming"
      BY <2>1, <2>4, <3>1 DEF Once, Handled, Kept, Types
    <3>3. ~outbox[i].locked
      BY <2>4, <3>2 DEF Once, Handled
    <3>4. QED
      BY <1>1, <1>4, <3>3 DEF Place, Lost
  <2>5. QED
    BY <2>2, <2>3, <2>4
<1> HIDE DEF at
<1>7. \A l \in Keys \ L: Status(l)' = Status(l)
  BY <1>2, <1>3, <1>6, StatusKept
<1>8. \A l \in L: Status(l) = "sent" /\ Status(l)' = "lost"
  BY <1>1, <1>2, <1>5
<1> HIDE DEF L
<1>9. Mapped' = [l \in Keys |-> IF l \in L THEN "lost" ELSE Mapped[l]]
  BY <1>7, <1>8 DEF Mapped
<1>10. CASE L = {}
  BY <1>9, <1>10 DEF Mapped
<1>11. CASE L # {}
  <2>1. \A l \in L: Mapped[l] = "sent"
    BY <1>2, <1>8 DEF Mapped
  <2>2. QED
    BY <1>2, <1>9, <1>11, <2>1 DEF D!Next, D!Lose, Mapped
<1>12. QED
  BY <1>10, <1>11

LEMMA WorkerPlaces ==
  ASSUME NEW w, Workers = {w}, Once, Once',
         \/ Poll(w) \/ Select(w) \/ Claim(w) \/ MarkProcessed(w) \/ MarkRetry(w)
         \/ Connect(w) \/ Drop(w)
  PROVE  Mapped' = Mapped
<1>1. /\ pc \in [Workers -> {"down", "listening", "claiming", "handling", "delivered"}]
      /\ held \in [Workers -> SUBSET Ids]
      /\ Ids = 1 .. Len(outbox) /\ Len(outbox) \in Nat
  BY DEF Once, Kept, Types, Ids
<1>2. CASE Poll(w) \/ Connect(w) \/ Drop(w)
  <2>1. /\ UNCHANGED <<outbox, deliveries, held>>
        /\ pc[w] # "claiming" /\ pc'[w] # "claiming"
    BY <1>1, <1>2 DEF Poll, Connect, Drop
  <2>2. SameKeys /\ \A i \in Ids: Place(i)' = Place(i)
    BY <2>1 DEF SameKeys, Ids, Place, Count, Lost
  <2>3. QED
    BY <2>2, Stutters
<1>3. CASE Select(w)
  <2>1. /\ UNCHANGED <<outbox, deliveries>> /\ held[w] = {} /\ held'[w] = Batch
        /\ pc'[w] = IF Batch = {} THEN "listening" ELSE "claiming"
    BY <1>1, <1>3 DEF Select, Once, Handled
  <2>2. SameKeys /\ \A i \in Ids: Place(i)' = Place(i)
    BY <2>1 DEF SameKeys, Ids, Place, Count, Lost
  <2>3. QED
    BY <2>2, Stutters
<1>4. CASE Claim(w)
  <2>1. /\ UNCHANGED <<deliveries, held>> /\ pc[w] = "claiming" /\ pc'[w] = "handling"
        /\ \A i \in Ids: i \notin held[w] => outbox'[i] = outbox[i]
    BY <1>1, <1>4 DEF Claim
  <2>2. SameKeys
    BY <1>4, RowsHandled DEF Once, Kept
  <2>3. \A i \in held[w]: ~outbox[i].locked
    BY <2>1 DEF Once, Handled
  <2>4. ASSUME NEW i \in Ids PROVE Place(i)' = Place(i)
    <3>1. Count(i)' = Count(i)
      BY <2>1, <2>2 DEF Count, SameKeys
    <3>2. Lost(i)' = Lost(i)
      BY <2>1, <2>3 DEF Lost
    <3>3. QED
      BY <3>1, <3>2 DEF Place
  <2>5. QED
    BY <2>2, <2>4, Stutters
<1>5. CASE MarkProcessed(w) \/ MarkRetry(w)
  <2>1. PICK m \in Ids: m = Min(held[w]) /\ m \in held[w]
    BY <1>1, <1>5, MinIn DEF MarkProcessed, MarkRetry, Once, Kept, Busy
  <2>2. /\ held'[w] = held[w] \ {m} /\ deliveries' = deliveries
        /\ pc'[w] = IF held'[w] = {} THEN "listening" ELSE "handling"
        /\ pc[w] \in {"handling", "delivered"}
        /\ \A i \in Ids \ {m}: outbox'[i] = outbox[i]
    BY <1>1, <1>5, <2>1 DEF MarkProcessed, MarkRetry, Release, Ids
  <2>3. SameKeys
    BY <1>5, <2>1, RowsHandled DEF Once, Kept
  <2>4. ~outbox'[m].locked
    <3>1. outbox[m] \in RowType
      BY DEF Once, Kept, Types, Ids
    <3>2. /\ ~[outbox[m] EXCEPT !.processed = TRUE, !.locked = FALSE].locked
          /\ ~[outbox[m] EXCEPT !.due = FALSE, !.locked = FALSE].locked
      BY <3>1 DEF RowType
    <3>3. CASE MarkProcessed(w)
      <4>1. outbox' = [outbox EXCEPT ![m] = [outbox[m] EXCEPT !.processed = TRUE, !.locked = FALSE]]
        BY <2>1, <3>3 DEF MarkProcessed
      <4>2. QED
        BY <1>1, <3>2, <4>1 DEF Ids
    <3>4. CASE MarkRetry(w)
      <4>1. outbox' = [outbox EXCEPT ![m] = [outbox[m] EXCEPT !.due = FALSE, !.locked = FALSE]]
        BY <2>1, <3>4 DEF MarkRetry
      <4>2. QED
        BY <1>1, <3>2, <4>1 DEF Ids
    <3>5. QED
      BY <1>5, <3>3, <3>4
  <2>5. ASSUME NEW i \in Ids PROVE Place(i)' = Place(i)
    <3>1. Count(i)' = Count(i)
      BY <2>2, <2>3 DEF Count, SameKeys
    <3>2. ~Lost(m) /\ ~Lost(m)'
      BY <2>1, <2>2, <2>4 DEF Lost
    <3>3. i # m => Lost(i)' = Lost(i)
      BY <2>2 DEF Lost
    <3>4. QED
      BY <3>1, <3>2, <3>3 DEF Place
  <2>6. QED
    BY <2>3, <2>5, Stutters
<1>6. QED
  BY <1>2, <1>3, <1>4, <1>5

LEMMA OtherPlaces ==
  ASSUME Once, Once',
         \/ \E r \in Requests: Look(r) \/ Insert(r) \/ SendAgain(r)
         \/ \E i \in Ids: FallDue(i)
         \/ UNCHANGED vars
  PROVE  Mapped' = Mapped
<1>1. UNCHANGED <<pc, held, deliveries>>
  BY DEF Look, Insert, SendAgain, FallDue, vars, worker
<1>2. SameKeys /\ \A j \in Ids: outbox'[j].locked = outbox[j].locked
  <2>1. CASE outbox' = outbox
    BY <2>1 DEF SameKeys, Ids
  <2>2. ASSUME NEW i \in Ids, FallDue(i)
        PROVE  SameKeys /\ \A j \in Ids: outbox'[j].locked = outbox[j].locked
    <3>1. SameKeys
      BY <2>2, RowsHandled DEF Once, Kept
    <3>2. outbox[i] \in RowType
      BY DEF Once, Kept, Types, Ids
    <3>3. [outbox[i] EXCEPT !.due = TRUE].locked = outbox[i].locked
      BY <3>2 DEF RowType
    <3>4. outbox' = [outbox EXCEPT ![i] = [outbox[i] EXCEPT !.due = TRUE]]
      BY <2>2 DEF FallDue
    <3>5. \A j \in Ids: outbox'[j].locked = outbox[j].locked
      BY <3>3, <3>4 DEF Once, Kept, Types, Ids
    <3>6. QED
      BY <3>1, <3>5
  <2>3. QED
    BY <2>1, <2>2 DEF Look, Insert, SendAgain, vars
<1>3. \A i \in Ids: Place(i)' = Place(i)
  BY <1>1, <1>2 DEF Place, Count, Lost, SameKeys
<1>4. QED
  BY <1>2, <1>3, Stutters

(* One worker sends and delivers each message at most once: every step of    *)
(* the pipeline, whatever requests race, connections drop, deliveries are    *)
(* retried and handlers or processes die, is a step of Delivery or leaves    *)
(* every message where it is.                                                *)
THEOREM DeliveredOnce ==
  ASSUME NEW w, Workers = {w}
  PROVE  Spec => D!Init /\ [][D!Next]_Mapped
<1>1. Init => Once
  BY OnceInit
<1>2. Once /\ [Next]_vars => Once'
  BY OnceStep
<1>3. Init => D!Init
  <2>1. SUFFICES ASSUME Init PROVE Mapped = [k \in Keys |-> "none"]
    BY DEF D!Init, Mapped
  <2>2. \A k \in Keys: \A i \in Ids: outbox[i].key # k
    BY <2>1 DEF Init, Ids
  <2>3. Placed
    BY <2>1, OnceInit, StatusPlaced
  <2>4. QED
    BY <2>2, <2>3 DEF Placed, Mapped
<1>4. Once /\ Once' /\ [Next]_vars => [D!Next]_Mapped
  <2>1. SUFFICES ASSUME Once, Once', [Next]_vars PROVE [D!Next]_Mapped
    OBVIOUS
  <2>2. ASSUME NEW r \in Requests, Commit(r) PROVE D!Next
    BY <2>1, <2>2, CommitSends
  <2>3. CASE Deliver(w)
    BY <2>1, <2>3, DeliverDelivers
  <2>4. CASE Raise(w) \/ Die(w)
    BY <2>1, <2>4, FaultLoses
  <2>5. CASE \/ Poll(w) \/ Select(w) \/ Claim(w) \/ MarkProcessed(w) \/ MarkRetry(w)
             \/ Connect(w) \/ Drop(w)
    BY <2>1, <2>5, WorkerPlaces
  <2>6. CASE \/ \E r \in Requests: Look(r) \/ Insert(r) \/ SendAgain(r)
             \/ \E i \in Ids: FallDue(i)
             \/ UNCHANGED vars
    BY <2>1, <2>6, OtherPlaces
  <2>7. QED
    BY <2>1, <2>2, <2>3, <2>4, <2>5, <2>6 DEF Next, Work
<1>5. QED
  BY <1>1, <1>2, <1>3, <1>4, PTL DEF Spec
=================================================================================
