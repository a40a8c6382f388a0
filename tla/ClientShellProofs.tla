-------------------------- MODULE ClientShellProofs --------------------------
(* The flags of the client, the age of what it shows and the world syncs   *)
(* it awaits, and after them the characters of WorldEntry and their entry  *)
(* into the world, proved for any characters, rosters, lanes, poll times,  *)
(* users, levels, requests and bounds.                                     *)
EXTENDS ClientShell, WorldEntry, Integers, SequenceTheorems, FiniteSetTheorems, TLAPS

-----------------------------------------------------------------------------
(* Channels. *)

(* The constants are numbers. *)
LEMMA Constants ==
  /\ BasePoll \in Nat /\ 0 < BasePoll /\ BasePoll <= MaxBackoff
  /\ MaxBackoff \in Nat /\ StaleAfter \in Nat /\ Timeout \in Nat
BY ClientAssumption

(* The lanes of commands are apart from the other kinds. *)
LEMMA KindsApart ==
  ASSUME NEW l \in Lanes PROVE l \notin ShellKinds /\ l # "sync"
BY ClientAssumption DEF ShellKinds

(* A request is a job that has had no time yet. *)
LEMMA RequestFields ==
  ASSUME NEW kind \in ShellKinds \cup {"sync"} \cup Lanes, NEW c \in Characters \cup {NoCharacter}
  PROVE  /\ Request(kind, c) \in Job
         /\ Request(kind, c).kind = kind /\ Request(kind, c).character = c
         /\ Request(kind, c).age = 0
BY DEF Request, Job

(* What an appended job adds to a channel. *)
LEMMA AppendFacts ==
  ASSUME NEW s \in Seq(Job), NEW j \in Job
  PROVE  /\ Append(s, j) \in Seq(Job)
         /\ \A K : Holds(Append(s, j), K) <=> Holds(s, K) \/ j.kind \in K
         /\ Timely(s) /\ j.age <= Timeout /\ (j.kind = "sync" => j.character # NoCharacter)
              => Timely(Append(s, j))
<1> DEFINE t == Append(s, j)
<1>1. /\ t \in Seq(Job) /\ Len(t) = Len(s) + 1 /\ Len(s) \in Nat /\ t[Len(s) + 1] = j
      /\ \A i \in 1..Len(s) : t[i] = s[i]
  BY AppendProperties
<1>2. 1..(Len(s) + 1) = 1..Len(s) \cup {Len(s) + 1}
  BY <1>1
<1> HIDE DEF t
<1>3. ASSUME NEW K PROVE Holds(t, K) <=> Holds(s, K) \/ j.kind \in K
  BY <1>1, <1>2 DEF Holds
<1>4. ASSUME Timely(s), j.age <= Timeout, j.kind = "sync" => j.character # NoCharacter
      PROVE  Timely(t)
  BY <1>1, <1>2, <1>4 DEF Timely
<1>5. QED
  BY <1>1, <1>3, <1>4 DEF t

(* What the head takes out of a channel. *)
LEMMA HeadFacts ==
  ASSUME NEW s \in Seq(Job), s # <<>>
  PROVE  /\ Head(s) \in Job /\ Tail(s) \in Seq(Job) /\ Head(s) = s[1]
         /\ \A K : Holds(s, K) <=> Head(s).kind \in K \/ Holds(Tail(s), K)
         /\ Timely(s) => /\ Timely(Tail(s)) /\ Head(s).age <= Timeout
                         /\ Head(s).kind = "sync" => Head(s).character # NoCharacter
         /\ FailedLogins(s) => /\ FailedLogins(Tail(s))
                               /\ Head(s).kind = "login" /\ Head(s).result = "error"
<1> DEFINE t == Tail(s)
<1>1. /\ t \in Seq(Job) /\ Len(t) = Len(s) - 1 /\ Len(s) \in Nat \ {0} /\ Head(s) = s[1]
      /\ Head(s) \in Job /\ \A i \in 1..Len(t) : t[i] = s[i + 1]
  BY HeadTailProperties, LenProperties, EmptySeq
<1> HIDE DEF t
<1>2. 1 \in 1..Len(s) /\ \A i \in 1..Len(t) : i + 1 \in 1..Len(s)
  BY <1>1
<1>3. ASSUME NEW i \in 1..Len(s), i # 1 PROVE i - 1 \in 1..Len(t) /\ s[i] = t[i - 1]
  BY <1>1, <1>3
<1>4. ASSUME NEW K PROVE Holds(s, K) <=> Head(s).kind \in K \/ Holds(t, K)
  BY <1>1, <1>2, <1>3 DEF Holds
<1>5. ASSUME Timely(s)
      PROVE  /\ Timely(t) /\ Head(s).age <= Timeout
             /\ Head(s).kind = "sync" => Head(s).character # NoCharacter
  BY <1>1, <1>2, <1>5 DEF Timely
<1>6. ASSUME FailedLogins(s)
      PROVE  FailedLogins(t) /\ Head(s).kind = "login" /\ Head(s).result = "error"
  BY <1>1, <1>2, <1>6 DEF FailedLogins
<1>7. QED
  BY <1>1, <1>4, <1>5, <1>6 DEF t

(* A channel of one job. *)
LEMMA SingleFacts ==
  ASSUME NEW j \in Job
  PROVE  /\ <<j>> \in Seq(Job) /\ Len(<<j>>) = 1 /\ <<j>> # <<>>
         /\ \A K : Holds(<<j>>, K) <=> j.kind \in K
         /\ j.age <= Timeout /\ (j.kind = "sync" => j.character # NoCharacter) => Timely(<<j>>)
BY DEF Holds, Timely

(* An empty channel. *)
LEMMA EmptyFacts ==
  /\ <<>> \in Seq(Job) /\ Len(<<>>) = 0 /\ Len(<<>>) <= 1
  /\ \A K : ~Holds(<<>>, K)
  /\ Timely(<<>>) /\ FailedLogins(<<>>)
BY DEF Holds, Timely, FailedLogins

(* A send appends the job, or nothing once the worker is gone. *)
LEMMA QueuedFacts ==
  ASSUME NEW s \in Seq(Job), NEW j \in Job
  PROVE  /\ Queued(s, j) \in Seq(Job)
         /\ \A K : Holds(s, K) => Holds(Queued(s, j), K)
         /\ Sendable => \A K : j.kind \in K => Holds(Queued(s, j), K)
         /\ Timely(s) /\ j.age <= Timeout /\ (j.kind = "sync" => j.character # NoCharacter)
              => Timely(Queued(s, j))
BY AppendFacts DEF Queued

(* Flags that are not set and jobs that are not lost keep the flags backed.*)
LEMMA StillBacked ==
  ASSUME FlagsBacked,
         shell'.inFlight => shell.inFlight, sync'.inFlight => sync.inFlight,
         \A l \in Lanes : commands'[l] => commands[l],
         worker = "gone" => worker' = "gone",
         \A K : Underway(K) => Underway(K)'
  PROVE  FlagsBacked'
BY DEF FlagsBacked

-----------------------------------------------------------------------------
(* The worker and the world. *)

(* The start of the worker leaves everything else as it is. *)
LEMMA WorkerStartsInv ==
  ASSUME IndInv, WorkerStarts PROVE IndInv'
<1>1. TypeOK'
  BY DEF IndInv, TypeOK, WorkerStarts, channels
<1>2. WorkerCoherent'
  BY DEF WorkerStarts, WorkerCoherent
<1>3. FlagsBacked'
  BY DEF IndInv, FlagsBacked, WorkerStarts, Underway, channels
<1>4. JobsCoherent' /\ ShownCoherent'
  BY DEF IndInv, JobsCoherent, ShownCoherent, is_stale, WorkerStarts, channels
<1>5. QED
  BY <1>1, <1>2, <1>3, <1>4 DEF IndInv

(* A failed start reports one failed login; no other flag can be set yet.  *)
LEMMA WorkerFailsInv ==
  ASSUME IndInv, WorkerFails PROVE IndInv'
<1> DEFINE job == [Request("login", NoCharacter) EXCEPT !.result = "error"]
<1>1. /\ responses' = Append(responses, job) /\ requests' = <<>> /\ worker' = "gone"
      /\ UNCHANGED <<shell, sync, commands, working, inbox, booted, world, failures, clears>>
      /\ worker = "starting"
  BY DEF WorkerFails
<1>2. job \in Job /\ job.kind = "login" /\ job.result = "error" /\ job.age = 0
  BY DEF Job, Request, ShellKinds
<1> HIDE DEF job
<1>3. responses \in Seq(Job) /\ TypeOK
  BY DEF IndInv, TypeOK
<1>4. TypeOK'
  BY <1>1, <1>2, <1>3, AppendFacts, EmptyFacts DEF TypeOK
<1>5. FailedLogins(responses)
  BY <1>1 DEF IndInv, WorkerCoherent
<1>6. FailedLogins(Append(responses, job))
  <2>1. /\ Len(Append(responses, job)) = Len(responses) + 1 /\ Len(responses) \in Nat
        /\ Append(responses, job)[Len(responses) + 1] = job
        /\ \A i \in 1..Len(responses) : Append(responses, job)[i] = responses[i]
    BY <1>2, <1>3, AppendProperties
  <2>2. 1..(Len(responses) + 1) = 1..Len(responses) \cup {Len(responses) + 1}
    BY <2>1
  <2>3. QED
    BY <1>2, <1>5, <2>1, <2>2 DEF FailedLogins
<1>7. WorkerCoherent'
  BY <1>1, <1>6 DEF IndInv, WorkerCoherent
<1>8. FlagsBacked'
  BY <1>1 DEF IndInv, FlagsBacked, WorkerCoherent
<1>9. JobsCoherent'
  BY <1>1, <1>2, <1>3, AppendFacts, EmptyFacts, Constants DEF IndInv, JobsCoherent
<1>10. ShownCoherent'
  BY <1>1 DEF IndInv, ShownCoherent, is_stale
<1>11. QED
  BY <1>4, <1>7, <1>8, <1>9, <1>10 DEF IndInv

(* A request that is being executed has only one worker to execute it. *)
LEMMA Executing ==
  ASSUME IndInv, working # <<>>
  PROVE  /\ worker = "running" /\ working[1] \in Job /\ working = <<working[1]>>
         /\ \A K : Holds(working, K) <=> working[1].kind \in K
         /\ working[1].age <= Timeout
         /\ working[1].kind = "sync" => working[1].character # NoCharacter
<1>1. working \in Seq(Job) /\ Len(working) <= 1 /\ Timely(working)
  BY DEF IndInv, TypeOK, JobsCoherent
<1>2. Len(working) = 1
  <2>1. Len(working) \in Nat /\ (working = <<>> <=> Len(working) = 0)
    BY <1>1, EmptySeq, LenProperties
  <2>2. Len(working) # 0 /\ Len(working) <= 1
    BY <1>1, <2>1
  <2>3. \A n \in Nat : n # 0 /\ n <= 1 => n = 1
    OBVIOUS
  <2>4. QED
    BY <2>1, <2>2, <2>3
<1>3. working[1] \in Job
  BY <1>1, <1>2, ElementOfSeq
<1>4. \A K : Holds(working, K) <=> working[1].kind \in K
  BY <1>2 DEF Holds
<1>5. working[1].age <= Timeout /\ (working[1].kind = "sync" => working[1].character # NoCharacter)
  BY <1>1, <1>2 DEF Timely
<1>6. working = <<working[1]>>
  <2>1. <<working[1]>> \in Seq(Job) /\ Len(<<working[1]>>) = 1 /\ <<working[1]>>[1] = working[1]
    BY <1>3
  <2>2. QED
    BY <1>1, <1>2, <2>1, SeqEqual
<1>7. worker = "running"
  BY DEF IndInv, WorkerCoherent
<1>8. QED
  BY <1>3, <1>4, <1>5, <1>6, <1>7

(* Taking a request moves it from the channel to the worker. *)
LEMMA TakeInv ==
  ASSUME IndInv, Take PROVE IndInv'
<1>1. /\ worker = "running" /\ working = <<>> /\ requests # <<>>
      /\ working' = <<Head(requests)>> /\ requests' = Tail(requests)
      /\ UNCHANGED <<shell, sync, commands, responses, inbox, worker, booted, world, failures, clears>>
  BY DEF Take
<1>2. requests \in Seq(Job) /\ Timely(requests) /\ TypeOK
  BY DEF IndInv, TypeOK, JobsCoherent
<1> DEFINE job == Head(requests)
<1>3. /\ job \in Job /\ Tail(requests) \in Seq(Job) /\ Timely(Tail(requests)) /\ job.age <= Timeout
      /\ job.kind = "sync" => job.character # NoCharacter
      /\ \A K : Holds(requests, K) <=> job.kind \in K \/ Holds(Tail(requests), K)
  BY <1>1, <1>2, HeadFacts
<1> HIDE DEF job
<1>4. /\ working' \in Seq(Job) /\ Len(working') = 1 /\ Timely(working')
      /\ \A K : Holds(working', K) <=> job.kind \in K
  BY <1>1, <1>3, SingleFacts DEF job
<1>5. TypeOK'
  BY <1>1, <1>2, <1>3, <1>4 DEF TypeOK
<1>6. WorkerCoherent'
  BY <1>1 DEF WorkerCoherent
<1>7. \A K : Underway(K) => Underway(K)'
  BY <1>1, <1>3, <1>4, EmptyFacts DEF Underway
<1>8. FlagsBacked'
  BY <1>1, <1>7, StillBacked DEF IndInv
<1>9. JobsCoherent' /\ ShownCoherent'
  BY <1>1, <1>3, <1>4 DEF IndInv, JobsCoherent, ShownCoherent, is_stale
<1>10. QED
  BY <1>5, <1>6, <1>8, <1>9 DEF IndInv

(* An answer keeps the kind, the character and the age of its request. *)
LEMMA ServeInv ==
  ASSUME IndInv, Serve PROVE IndInv'
<1>1. PICK outcome \in Outcomes(working[1].kind), roster \in Rosters :
        /\ failures' = IF outcome = "ok" THEN failures ELSE failures + 1
        /\ working' = <<[working[1] EXCEPT
             !.result = outcome,
             !.roster = IF working[1].kind = "characters" THEN roster ELSE {},
             !.tick = IF working[1].kind = "sync" THEN world.tick ELSE 0]>>
  BY DEF Serve
<1>2. /\ working # <<>>
      /\ UNCHANGED <<shell, sync, commands, requests, responses, inbox, worker, booted, world, clears>>
  BY DEF Serve
<1>3. TypeOK
  BY DEF IndInv
<1> DEFINE r == IF working[1].kind = "characters" THEN roster ELSE {}
           n == IF working[1].kind = "sync" THEN world.tick ELSE 0
           job == [working[1] EXCEPT !.result = outcome, !.roster = r, !.tick = n]
<1>4. outcome \in {"none", "ok", "error", "auth", "rejected"}
  BY DEF Outcomes
<1>5. r \in SUBSET Characters
  BY ClientAssumption
<1>6. n \in Nat
  BY <1>3 DEF TypeOK
<1> HIDE DEF r, n
<1>7. /\ job \in Job /\ job.kind = working[1].kind /\ job.age = working[1].age
      /\ job.character = working[1].character
  BY <1>2, <1>4, <1>5, <1>6, Executing DEF Job
<1> HIDE DEF job
<1>8. working' = <<job>>
  BY <1>1 DEF job, r, n
<1>9. /\ working' \in Seq(Job) /\ Len(working') = 1 /\ Timely(working')
      /\ \A K : Holds(working', K) <=> Holds(working, K)
  BY <1>2, <1>7, <1>8, Executing, SingleFacts
<1>10. failures' \in Nat
  BY <1>1, <1>3 DEF TypeOK
<1>11. TypeOK'
  BY <1>2, <1>3, <1>9, <1>10 DEF TypeOK
<1>12. WorkerCoherent'
  BY <1>2, Executing DEF WorkerCoherent
<1>13. \A K : Underway(K) => Underway(K)'
  BY <1>2, <1>9 DEF Underway
<1>14. FlagsBacked'
  BY <1>2, <1>13, StillBacked DEF IndInv
<1>15. JobsCoherent' /\ ShownCoherent'
  BY <1>2, <1>9 DEF IndInv, JobsCoherent, ShownCoherent, is_stale
<1>16. QED
  BY <1>11, <1>12, <1>14, <1>15 DEF IndInv

(* A job of the kind, the character and the age of the one that was being   *)
(* executed may be reported in its place.                                  *)
LEMMA Reported ==
  ASSUME IndInv, working # <<>>,
         NEW job \in Job,
         job.kind = working[1].kind, job.character = working[1].character, job.age = working[1].age,
         responses' = Append(responses, job), working' = <<>>,
         failures' \in Nat,
         UNCHANGED <<shell, sync, commands, requests, inbox, worker, booted, world, clears>>
  PROVE  IndInv'
<1>1. TypeOK /\ responses \in Seq(Job) /\ Timely(responses)
  BY DEF IndInv, TypeOK, JobsCoherent
<1>2. /\ responses' \in Seq(Job) /\ Timely(responses')
      /\ \A K : Holds(responses', K) <=> Holds(responses, K) \/ Holds(working, K)
  BY <1>1, AppendFacts, Executing
<1>3. TypeOK'
  BY <1>1, <1>2, EmptyFacts DEF TypeOK
<1>4. WorkerCoherent'
  BY Executing DEF WorkerCoherent
<1>5. \A K : Underway(K) => Underway(K)'
  BY <1>2 DEF Underway
<1>6. FlagsBacked'
  BY <1>5, StillBacked DEF IndInv
<1>7. JobsCoherent' /\ ShownCoherent'
  BY <1>2, EmptyFacts DEF IndInv, JobsCoherent, ShownCoherent, is_stale
<1>8. QED
  BY <1>3, <1>4, <1>6, <1>7 DEF IndInv

(* The worker reports an answer, or the failure of a request. *)
LEMMA ReportInv ==
  ASSUME IndInv, Reply \/ CallFails PROVE IndInv'
<1>1. failures \in Nat
  BY DEF IndInv, TypeOK
<1>2. CASE Reply
  <2>1. working # <<>> /\ working[1] \in Job
    BY <1>2, Executing DEF Reply
  <2>2. QED
    BY <1>1, <1>2, <2>1, Reported DEF Reply
<1>3. CASE CallFails
  <2> DEFINE job == [working[1] EXCEPT !.result = "error"]
  <2>1. /\ working # <<>> /\ responses' = Append(responses, job) /\ working' = <<>>
        /\ failures' = failures + 1
        /\ UNCHANGED <<shell, sync, commands, requests, inbox, worker, booted, world, clears>>
    BY <1>3 DEF CallFails
  <2>2. /\ job \in Job /\ job.kind = working[1].kind /\ job.age = working[1].age
        /\ job.character = working[1].character
    BY <2>1, Executing DEF Job
  <2>3. failures' \in Nat
    BY <1>1, <2>1
  <2> HIDE DEF job
  <2>4. QED
    BY <2>1, <2>2, <2>3, Reported
<1>4. QED
  BY <1>2, <1>3

(* The world is no concern of the flags. *)
LEMMA WorldInv ==
  ASSUME IndInv, WorldTick \/ WorldRestart PROVE IndInv'
<1>1. UNCHANGED <<shell, sync, commands, requests, working, responses, inbox, worker, booted, failures, clears>>
  BY DEF WorldTick, WorldRestart, channels
<1>2. world' \in [tick : Nat, restarts : Nat]
  BY DEF IndInv, TypeOK, WorldTick, WorldRestart
<1>3. TypeOK'
  BY <1>1, <1>2 DEF IndInv, TypeOK
<1>4. WorkerCoherent'
  BY <1>1 DEF IndInv, WorkerCoherent
<1>5. FlagsBacked'
  BY <1>1 DEF IndInv, FlagsBacked, Underway
<1>6. JobsCoherent' /\ ShownCoherent'
  BY <1>1 DEF IndInv, JobsCoherent, ShownCoherent, is_stale
<1>7. QED
  BY <1>3, <1>4, <1>5, <1>6 DEF IndInv

-----------------------------------------------------------------------------
(* The systems of a frame. *)

(* What sending a job, or failing to, does to the channels. *)
LEMMA Sent ==
  ASSUME IndInv, NEW job \in Job, job.age = 0, job.kind = "sync" => job.character # NoCharacter,
         requests' = Queued(requests, job), UNCHANGED <<working, responses, inbox>>
  PROVE  /\ requests' \in Seq(Job) /\ JobsCoherent'
         /\ \A K : Underway(K) => Underway(K)'
         /\ Sendable => \A K : job.kind \in K => Underway(K)'
<1>1. requests \in Seq(Job) /\ Timely(requests) /\ JobsCoherent
  BY DEF IndInv, TypeOK, JobsCoherent
<1>2. /\ requests' \in Seq(Job) /\ Timely(requests')
      /\ \A K : Holds(requests, K) => Holds(requests', K)
      /\ Sendable => \A K : job.kind \in K => Holds(requests', K)
  BY <1>1, QueuedFacts, Constants
<1>3. QED
  BY <1>1, <1>2 DEF JobsCoherent, Underway

(* The startup fetch is in flight only if it could be sent. *)
LEMMA StartupInv ==
  ASSUME IndInv, Startup PROVE IndInv'
<1>1. /\ booted' = TRUE
      /\ UNCHANGED <<sync, commands, working, responses, inbox, worker, world, failures, clears>>
  BY DEF Startup
<1>2. TypeOK
  BY DEF IndInv
<1> DEFINE job == Request("characters", NoCharacter)
<1>3. job \in Job /\ job.kind = "characters" /\ job.age = 0
  BY RequestFields DEF ShellKinds
<1> HIDE DEF job
<1>4. CASE ~shell.session
  <2>1. UNCHANGED <<shell, requests>>
    BY <1>4 DEF Startup
  <2>2. TypeOK'
    BY <1>1, <1>2, <2>1 DEF TypeOK
  <2>3. WorkerCoherent' /\ FlagsBacked'
    BY <1>1, <2>1 DEF IndInv, WorkerCoherent, FlagsBacked, Underway
  <2>4. JobsCoherent' /\ ShownCoherent'
    BY <1>1, <2>1 DEF IndInv, JobsCoherent, ShownCoherent, is_stale
  <2>5. QED
    BY <2>2, <2>3, <2>4 DEF IndInv
<1>5. CASE shell.session
  <2>1. /\ requests' = Queued(requests, job)
        /\ shell' = IF Sendable THEN [shell EXCEPT !.inFlight = TRUE]
                    ELSE [shell EXCEPT !.phase = "Login", !.session = FALSE]
    BY <1>5 DEF Startup, job
  <2>2. /\ requests' \in Seq(Job) /\ JobsCoherent'
        /\ \A K : Underway(K) => Underway(K)'
        /\ Sendable => \A K : job.kind \in K => Underway(K)'
    BY <1>1, <1>3, <2>1, Sent
  <2>3. /\ shell' \in ShellState /\ (shell.phase # "CampaignReady" => shell'.phase # "CampaignReady")
        /\ ~Sendable => shell'.inFlight = shell.inFlight
    BY <1>2, <2>1 DEF TypeOK, ShellState, Phases
  <2>4. TypeOK'
    BY <1>1, <1>2, <2>2, <2>3 DEF TypeOK
  <2>5. WorkerCoherent'
    BY <1>1, <2>3 DEF IndInv, WorkerCoherent
  <2>6. FlagsBacked'
    BY <1>1, <1>3, <2>2, <2>3 DEF IndInv, FlagsBacked, Sendable, ShellKinds
  <2>7. ShownCoherent'
    BY <1>1 DEF IndInv, ShownCoherent, is_stale
  <2>8. QED
    BY <2>2, <2>4, <2>5, <2>6, <2>7 DEF IndInv
<1>6. QED
  BY <1>4, <1>5

(* Collecting moves all responses to the inbox. *)
LEMMA CollectInv ==
  ASSUME IndInv, Collect PROVE IndInv'
<1>1. /\ inbox = <<>> /\ inbox' = responses /\ responses' = <<>>
      /\ shell' = [shell EXCEPT !.inFlight = @ /\ worker # "gone"]
      /\ UNCHANGED <<sync, commands, requests, working, worker, booted, world, failures, clears>>
  BY DEF Collect, Collected
<1>2. TypeOK
  BY DEF IndInv
<1>3. /\ shell' \in ShellState /\ shell'.phase = shell.phase
      /\ shell'.inFlight => shell.inFlight
  BY <1>1, <1>2 DEF TypeOK, ShellState
<1>4. TypeOK'
  BY <1>1, <1>2, <1>3, EmptyFacts DEF TypeOK
<1>5. WorkerCoherent'
  BY <1>1, <1>3, EmptyFacts DEF IndInv, WorkerCoherent
<1>6. \A K : Underway(K) => Underway(K)'
  BY <1>1, EmptyFacts DEF Underway
<1>7. FlagsBacked'
  BY <1>1, <1>3, <1>6, StillBacked DEF IndInv
<1>8. JobsCoherent' /\ ShownCoherent'
  BY <1>1, EmptyFacts DEF IndInv, JobsCoherent, ShownCoherent, is_stale
<1>9. QED
  BY <1>4, <1>5, <1>7, <1>8 DEF IndInv

(* A retry keeps the records of the poll in their ranges. *)
LEMMA RetryFacts ==
  ASSUME NEW s \in SyncState
  PROVE  /\ Retry(s) \in SyncState /\ ~Retry(s).inFlight
         /\ Retry(s).since = s.since /\ Retry(s).shown = s.shown
<1>1. s.backoff \in 1..MaxBackoff /\ s.backoff \in 0..MaxBackoff
  BY Constants DEF SyncState
<1>2. Least(2 * s.backoff, MaxBackoff) \in 1..MaxBackoff
  BY <1>1, Constants DEF Least
<1> DEFINE b == Least(2 * s.backoff, MaxBackoff)
<1>3. Retry(s) = [s EXCEPT !.inFlight = FALSE, !.wait = s.backoff, !.backoff = b]
  BY DEF Retry
<1>4. b \in 1..MaxBackoff
  BY <1>2
<1> HIDE DEF b
<1>5. QED
  BY <1>1, <1>3, <1>4 DEF SyncState

(* So does an answer. *)
LEMMA AnsweredFacts ==
  ASSUME NEW s \in SyncState
  PROVE  /\ Answered(s) \in SyncState /\ ~Answered(s).inFlight
         /\ Answered(s).since = s.since /\ Answered(s).shown = s.shown
<1>1. BasePoll \in 0..MaxBackoff /\ BasePoll \in 1..MaxBackoff
  BY Constants
<1>2. QED
  BY <1>1 DEF Answered, SyncState

(* What is applied was asked for at most one time limit ago. *)
LEMMA SyncHandledFacts ==
  ASSUME sync \in SyncState, ShownCoherent, NEW job \in Job,
         job.age <= Timeout, job.character # NoCharacter, sync' = SyncHandled(job)
  PROVE  sync' \in SyncState /\ ~sync'.inFlight /\ ShownCoherent'
<1>1. CASE job.result \in {"error", "auth"}
  <2>1. sync' = Retry(sync)
    BY <1>1 DEF SyncHandled
  <2>2. QED
    BY <2>1, RetryFacts DEF ShownCoherent, is_stale
<1>2. CASE job.result = "rejected"
  <2>1. sync' = Retry(Answered(sync))
    BY <1>2 DEF SyncHandled
  <2>2. QED
    BY <2>1, RetryFacts, AnsweredFacts DEF ShownCoherent, is_stale
<1>3. CASE job.result = "ok" /\ Older(job)
  <2>1. sync' = Answered(sync)
    BY <1>3 DEF SyncHandled
  <2>2. QED
    BY <2>1, AnsweredFacts DEF ShownCoherent, is_stale
<1>4. CASE job.result \notin {"error", "auth", "rejected"} /\ ~(job.result = "ok" /\ Older(job))
  <2> DEFINE shown == [character |-> job.character, age |-> job.age]
  <2>1. sync' = [Answered(sync) EXCEPT !.since = 0, !.tick = job.tick, !.shown = shown]
    BY <1>4 DEF SyncHandled
  <2>2. /\ job.character \in Characters \cup {NoCharacter} /\ job.tick \in Nat
        /\ job.age \in 0..(StaleAfter + Timeout + 1) /\ job.age <= 0 + Timeout
    BY Constants DEF Job
  <2>3. /\ shown \in [character : Characters \cup {NoCharacter}, age : 0..(StaleAfter + Timeout + 1)]
        /\ shown.character # NoCharacter /\ shown.age <= 0 + Timeout
    BY <2>2
  <2>4. 0 \in 0..(StaleAfter + 1)
    BY Constants
  <2> HIDE DEF shown
  <2>5. sync' \in SyncState /\ ~sync'.inFlight /\ sync'.since = 0 /\ sync'.shown = shown
    BY <2>1, <2>2, <2>3, <2>4, AnsweredFacts DEF SyncState
  <2>6. QED
    BY <2>3, <2>5 DEF ShownCoherent
<1>5. QED
  BY <1>1, <1>2, <1>3, <1>4

(* The first response leaves the inbox. *)
LEMMA Handling ==
  ASSUME IndInv, inbox # <<>>, inbox' = Tail(inbox), UNCHANGED <<working, responses>>
  PROVE  /\ Head(inbox) \in Job /\ Head(inbox).age <= Timeout
         /\ Head(inbox).kind = "sync" => Head(inbox).character # NoCharacter
         /\ inbox' \in Seq(Job) /\ Timely(inbox')
         /\ worker # "running" => /\ FailedLogins(inbox')
                                  /\ Head(inbox).kind = "login" /\ Head(inbox).result = "error"
         /\ \A K : Head(inbox).kind \notin K => (Holds(inbox, K) <=> Holds(inbox', K))
<1>1. inbox \in Seq(Job) /\ Timely(inbox) /\ (worker # "running" => FailedLogins(inbox))
  BY DEF IndInv, TypeOK, JobsCoherent, WorkerCoherent
<1>2. QED
  BY <1>1, HeadFacts

(* A response of the shell ends what it was about; only an accepted login  *)
(* sends the next request.                                                 *)
LEMMA ShellHandled ==
  ASSUME shell \in ShellState, NEW job \in Job, HandleShell(job)
  PROVE  /\ shell' \in ShellState
         /\ shell'.inFlight => job.kind = "login" /\ job.result = "ok" /\ Sendable
         /\ job.kind = "login" /\ job.result = "error" => shell'.phase # "CampaignReady"
<1>1. job.character \in Characters \cup {NoCharacter} /\ job.roster \in SUBSET Characters
  BY DEF Job
<1>2. CASE job.kind = "login" /\ shell' = LoginHandled(job)
  <2>1. CASE job.result = "ok"
    <3> DEFINE b == Sendable
    <3>1. shell' = [shell EXCEPT !.session = TRUE, !.handoff = FALSE, !.phase = "CharacterSelect",
                                 !.inFlight = b]
      BY <1>2, <2>1 DEF LoginHandled
    <3>2. b \in BOOLEAN
      BY DEF Sendable
    <3>3. shell' \in ShellState /\ shell'.inFlight = b
      <4> HIDE DEF b
      <4>1. QED
        BY <3>1, <3>2 DEF ShellState, Phases
    <3>4. QED
      BY <1>2, <2>1, <3>3
  <2>2. CASE job.result # "ok"
    <3>1. shell' = [shell EXCEPT !.phase = "Login", !.inFlight = FALSE]
      BY <1>2, <2>2 DEF LoginHandled
    <3>2. QED
      BY <3>1 DEF ShellState, Phases
  <2>3. QED
    BY <2>1, <2>2
<1>3. CASE job.kind # "login" /\ shell' = FailureHandled(job)
  BY <1>3 DEF FailureHandled, ShellState, Phases
<1>4. CASE /\ job.kind = "characters" /\ job.result = "ok"
           /\ \E c \in Resolved(job.roster, shell.selected) : shell' = CharactersHandled(job, c)
  <2>1. PICK c \in Resolved(job.roster, shell.selected) : shell' = CharactersHandled(job, c)
    BY <1>4
  <2>2. c \in Characters \cup {NoCharacter}
    <3>1. CASE shell.selected \in job.roster
      BY <1>1, <2>1, <3>1 DEF Resolved
    <3>2. CASE shell.selected \notin job.roster /\ job.roster = {}
      BY <2>1, <3>2 DEF Resolved
    <3>3. CASE shell.selected \notin job.roster /\ job.roster # {}
      BY <1>1, <2>1, <3>3 DEF Resolved
    <3>4. QED
      BY <3>1, <3>2, <3>3
  <2>3. QED
    BY <1>1, <1>4, <2>1, <2>2 DEF CharactersHandled, ShellState, Phases
<1>5. CASE job.kind = "bootstrap" /\ shell' = BootstrapHandled(job)
  BY <1>1, <1>5 DEF BootstrapHandled, ShellState, Phases
<1>6. QED
  BY <1>2, <1>3, <1>4, <1>5 DEF HandleShell

(* Every response clears the flag of the request it answers. *)
LEMMA HandleInv ==
  ASSUME IndInv, Handle PROVE IndInv'
<1> DEFINE job == Head(inbox)
<1>1. /\ inbox # <<>> /\ inbox' = Tail(inbox)
      /\ UNCHANGED <<working, responses, worker, booted, world, failures, clears>>
      /\ HandleShell(job) \/ HandleSync(job) \/ HandleCommand(job)
  BY DEF Handle
<1>2. TypeOK /\ ShownCoherent /\ JobsCoherent /\ FlagsBacked /\ WorkerCoherent
  BY DEF IndInv
<1>3. /\ job \in Job /\ job.age <= Timeout
      /\ job.kind = "sync" => job.character # NoCharacter
      /\ inbox' \in Seq(Job) /\ Timely(inbox')
      /\ worker # "running" => FailedLogins(inbox') /\ job.kind = "login" /\ job.result = "error"
      /\ \A K : job.kind \notin K => (Holds(inbox, K) <=> Holds(inbox', K))
  BY <1>1, Handling
<1> HIDE DEF job
<1>4. CASE HandleShell(job)
  <2>1. /\ job.kind \in ShellKinds
        /\ requests' = IF job.kind = "login" /\ job.result = "ok"
                       THEN Queued(requests, Request("characters", NoCharacter)) ELSE requests
        /\ UNCHANGED <<sync, commands>>
    BY <1>4 DEF HandleShell
  <2>2. /\ shell' \in ShellState
        /\ shell'.inFlight => job.kind = "login" /\ job.result = "ok" /\ Sendable
        /\ job.kind = "login" /\ job.result = "error" => shell'.phase # "CampaignReady"
    BY <1>2, <1>3, <1>4, ShellHandled DEF TypeOK
  <2> DEFINE next == Request("characters", NoCharacter)
  <2>3. next \in Job /\ next.kind = "characters" /\ next.age = 0
    BY RequestFields DEF ShellKinds
  <2>4. /\ Queued(requests, next) \in Seq(Job) /\ Timely(Queued(requests, next))
        /\ \A K : Holds(requests, K) => Holds(Queued(requests, next), K)
        /\ Sendable => \A K : next.kind \in K => Holds(Queued(requests, next), K)
    <3>1. requests \in Seq(Job) /\ Timely(requests)
      BY <1>2 DEF TypeOK, JobsCoherent
    <3>2. next \in Job /\ next.age <= Timeout /\ (next.kind = "sync" => next.character # NoCharacter)
      BY <2>3, Constants
    <3> HIDE DEF next
    <3>3. QED
      BY <3>1, <3>2, QueuedFacts
  <2>5. /\ requests' \in Seq(Job) /\ Timely(requests')
        /\ \A K : Holds(requests, K) => Holds(requests', K)
        /\ shell'.inFlight => Holds(requests', ShellKinds)
    <3>1. CASE job.kind = "login" /\ job.result = "ok"
      <4>1. requests' = Queued(requests, next) /\ next.kind \in ShellKinds
        BY <2>1, <2>3, <3>1 DEF ShellKinds
      <4> HIDE DEF next
      <4>2. QED
        BY <2>2, <2>4, <4>1
    <3>2. CASE ~(job.kind = "login" /\ job.result = "ok")
      BY <1>2, <2>1, <2>2, <3>2 DEF TypeOK, JobsCoherent
    <3>3. QED
      BY <3>1, <3>2
  <2> HIDE DEF next
  <2>6. TypeOK'
    BY <1>1, <1>2, <1>3, <2>1, <2>2, <2>5 DEF TypeOK
  <2>7. WorkerCoherent'
    BY <1>1, <1>2, <1>3, <2>1, <2>2 DEF WorkerCoherent
  <2>8. \A K : job.kind \notin K => (Underway(K) => Underway(K)')
    BY <1>1, <1>3, <2>5 DEF Underway
  <2>9. FlagsBacked'
    <3>1. shell'.inFlight => Underway(ShellKinds)'
      BY <2>5 DEF Underway
    <3>2. sync'.inFlight => Underway({"sync"})'
      BY <1>2, <2>1, <2>8 DEF FlagsBacked, ShellKinds
    <3>3. ASSUME NEW l \in Lanes, commands'[l] PROVE Underway({l})'
      BY <1>2, <2>1, <2>8, <3>3, KindsApart DEF FlagsBacked
    <3>4. QED
      BY <3>1, <3>2, <3>3 DEF FlagsBacked
  <2>10. JobsCoherent' /\ ShownCoherent'
    BY <1>1, <1>2, <1>3, <2>1, <2>5 DEF JobsCoherent, ShownCoherent, is_stale
  <2>11. QED
    BY <2>6, <2>7, <2>9, <2>10 DEF IndInv
<1>5. CASE HandleSync(job)
  <2>1. job.kind = "sync" /\ sync' = SyncHandled(job) /\ UNCHANGED <<shell, commands, requests>>
    BY <1>5 DEF HandleSync
  <2>2. sync' \in SyncState /\ ~sync'.inFlight /\ ShownCoherent'
    BY <1>2, <1>3, <2>1, SyncHandledFacts DEF TypeOK
  <2>3. TypeOK'
    BY <1>1, <1>2, <1>3, <2>1, <2>2 DEF TypeOK
  <2>4. WorkerCoherent'
    BY <1>1, <1>2, <1>3, <2>1, <2>2 DEF WorkerCoherent
  <2>5. \A K : job.kind \notin K => (Underway(K) => Underway(K)')
    BY <1>1, <1>3, <2>1 DEF Underway
  <2>6. FlagsBacked'
    BY <1>1, <1>2, <2>1, <2>2, <2>5, KindsApart DEF FlagsBacked, ShellKinds
  <2>7. JobsCoherent'
    BY <1>1, <1>2, <1>3, <2>1 DEF JobsCoherent
  <2>8. QED
    BY <2>2, <2>3, <2>4, <2>6, <2>7 DEF IndInv
<1>6. CASE HandleCommand(job)
  <2>1. /\ job.kind \in Lanes /\ commands' = [commands EXCEPT ![job.kind] = FALSE]
        /\ UNCHANGED <<shell, sync, requests>>
    BY <1>6 DEF HandleCommand
  <2>2. /\ commands' \in [Lanes -> BOOLEAN] /\ ~commands'[job.kind]
        /\ \A l \in Lanes : l # job.kind => commands'[l] = commands[l]
    BY <1>2, <2>1 DEF TypeOK
  <2>3. TypeOK'
    BY <1>1, <1>2, <1>3, <2>1, <2>2 DEF TypeOK
  <2>4. WorkerCoherent'
    BY <1>1, <1>2, <1>3, <2>1, KindsApart DEF WorkerCoherent, ShellKinds
  <2>5. \A K : job.kind \notin K => (Underway(K) => Underway(K)')
    BY <1>1, <1>3, <2>1 DEF Underway
  <2>6. FlagsBacked'
    BY <1>1, <1>2, <2>1, <2>2, <2>5, KindsApart DEF FlagsBacked
  <2>7. JobsCoherent' /\ ShownCoherent'
    BY <1>1, <1>2, <1>3, <2>1 DEF JobsCoherent, ShownCoherent, is_stale
  <2>8. QED
    BY <2>3, <2>4, <2>6, <2>7 DEF IndInv
<1>7. QED
  BY <1>1, <1>4, <1>5, <1>6

(* The poll is about the bootstrapped character, or the selected one. *)
LEMMA DriveInv ==
  ASSUME IndInv, Drive PROVE IndInv'
<1> DEFINE job == Request("sync", SyncCharacter)
           polls == InCampaign /\ PollDue
<1>1. /\ requests' = IF polls THEN Queued(requests, job) ELSE requests
      /\ sync' = CASE ~InCampaign -> [sync EXCEPT !.inFlight = FALSE]
                   [] polls -> IF Sendable THEN [sync EXCEPT !.inFlight = TRUE] ELSE Retry(sync)
                   [] OTHER -> sync
      /\ UNCHANGED <<shell, commands, working, responses, inbox, worker, booted, world, failures, clears>>
  BY DEF Drive
<1>2. TypeOK /\ ShownCoherent /\ JobsCoherent /\ FlagsBacked /\ WorkerCoherent
  BY DEF IndInv
<1>3. CASE polls
  <2>1. SyncCharacter \in Characters \cup {NoCharacter} /\ SyncCharacter # NoCharacter /\ InCampaign
    BY <1>2, <1>3 DEF TypeOK, ShellState, SyncCharacter, PollDue
  <2>2. /\ job \in Job /\ job.kind = "sync" /\ job.age = 0 /\ job.character # NoCharacter
    BY <2>1, RequestFields
  <2>3. worker = "running" /\ Sendable
    BY <1>2, <2>1 DEF WorkerCoherent, InCampaign, Sendable
  <2>4. requests' = Queued(requests, job) /\ sync' = [sync EXCEPT !.inFlight = TRUE]
    BY <1>1, <1>3, <2>1, <2>3
  <2> HIDE DEF job, polls
  <2>5. /\ requests' \in Seq(Job) /\ JobsCoherent'
        /\ \A K : Underway(K) => Underway(K)'
        /\ \A K : job.kind \in K => Underway(K)'
    BY <1>1, <2>2, <2>3, <2>4, Sent
  <2>6. sync' \in SyncState /\ sync'.since = sync.since /\ sync'.shown = sync.shown
    BY <1>2, <2>4 DEF TypeOK, SyncState
  <2>7. TypeOK'
    BY <1>1, <1>2, <2>5, <2>6 DEF TypeOK
  <2>8. WorkerCoherent'
    BY <1>1, <2>3 DEF WorkerCoherent
  <2>9. FlagsBacked'
    BY <1>1, <1>2, <2>2, <2>5 DEF FlagsBacked
  <2>10. ShownCoherent'
    BY <1>2, <2>6 DEF ShownCoherent, is_stale
  <2>11. QED
    BY <2>5, <2>7, <2>8, <2>9, <2>10 DEF IndInv
<1>4. CASE ~polls
  <2>1. requests' = requests /\ (sync' = [sync EXCEPT !.inFlight = FALSE] \/ sync' = sync)
    BY <1>1, <1>4
  <2> HIDE DEF job, polls
  <2>2. /\ sync' \in SyncState /\ sync'.since = sync.since /\ sync'.shown = sync.shown
        /\ sync'.inFlight => sync.inFlight
    BY <1>2, <2>1 DEF TypeOK, SyncState
  <2>3. TypeOK'
    BY <1>1, <1>2, <2>1, <2>2 DEF TypeOK
  <2>4. WorkerCoherent'
    BY <1>1, <1>2, <2>2 DEF WorkerCoherent
  <2>5. \A K : Underway(K) => Underway(K)'
    BY <1>1, <2>1 DEF Underway
  <2>6. FlagsBacked'
    BY <1>1, <1>2, <2>2, <2>5, StillBacked
  <2>7. JobsCoherent' /\ ShownCoherent'
    BY <1>1, <1>2, <2>1, <2>2 DEF JobsCoherent, ShownCoherent, is_stale
  <2>8. QED
    BY <2>3, <2>4, <2>6, <2>7 DEF IndInv
<1>5. QED
  BY <1>3, <1>4

-----------------------------------------------------------------------------
(* Clicks. *)

(* What every click of the shell leaves alone. *)
LEMMA ClickKeeps ==
  ASSUME IndInv, Draw, UNCHANGED commands, clears' \in Nat,
         shell' \in ShellState, shell.phase # "CampaignReady" => shell'.phase # "CampaignReady",
         requests' \in Seq(Job), JobsCoherent',
         \A K : Underway(K) => Underway(K)',
         shell'.inFlight => shell.inFlight \/ Underway(ShellKinds)'
  PROVE  IndInv'
<1>1. UNCHANGED <<sync, working, responses, inbox, worker, booted, world, failures>>
  BY DEF Draw
<1>2. TypeOK'
  BY <1>1 DEF IndInv, TypeOK
<1>3. WorkerCoherent'
  BY <1>1 DEF IndInv, WorkerCoherent
<1>4. FlagsBacked'
  BY <1>1 DEF IndInv, FlagsBacked
<1>5. ShownCoherent'
  BY <1>1 DEF IndInv, ShownCoherent, is_stale
<1>6. QED
  BY <1>2, <1>3, <1>4, <1>5 DEF IndInv

(* A click that sends a request of the shell and then waits for its answer.*)
LEMMA DispatchInv ==
  ASSUME IndInv, Draw, NEW kind \in ShellKinds, NEW c \in Characters \cup {NoCharacter},
         NEW sent \in ShellState, sent.phase # "CampaignReady", Dispatch(Request(kind, c), sent)
  PROVE  IndInv'
<1> DEFINE job == Request(kind, c)
<1>1. /\ requests' = Queued(requests, job) /\ shell' = IF Sendable THEN sent ELSE shell
      /\ UNCHANGED <<commands, clears>> /\ UNCHANGED <<working, responses, inbox>>
  BY DEF Dispatch, Draw
<1>2. job \in Job /\ job.kind = kind /\ job.age = 0 /\ kind # "sync"
  BY RequestFields DEF ShellKinds
<1> HIDE DEF job
<1>3. /\ requests' \in Seq(Job) /\ JobsCoherent'
      /\ \A K : Underway(K) => Underway(K)'
      /\ Sendable => Underway(ShellKinds)'
  BY <1>1, <1>2, Sent
<1>4. clears' \in Nat /\ shell \in ShellState
  BY <1>1 DEF IndInv, TypeOK
<1>5. CASE Sendable
  BY <1>1, <1>3, <1>4, <1>5, ClickKeeps
<1>6. CASE ~Sendable
  BY <1>1, <1>3, <1>4, <1>6, ClickKeeps
<1>7. QED
  BY <1>5, <1>6

(* The clicks that ask the backend for something. *)
LEMMA AskInv ==
  ASSUME IndInv, ClickLogin \/ ClickEnter \/ ClickRefresh PROVE IndInv'
<1>1. shell \in ShellState /\ shell.selected \in Characters \cup {NoCharacter}
  BY DEF IndInv, TypeOK, ShellState
<1>2. CASE ClickLogin
  <2> DEFINE sent == [shell EXCEPT !.phase = "Authenticating", !.inFlight = TRUE]
  <2>1. sent \in ShellState /\ sent.phase # "CampaignReady"
    BY <1>1 DEF ShellState, Phases
  <2>2. Draw /\ Dispatch(Request("login", NoCharacter), sent)
    BY <1>2 DEF ClickLogin
  <2> HIDE DEF sent
  <2>3. QED
    BY <2>1, <2>2, DispatchInv DEF ShellKinds
<1>3. CASE ClickEnter
  <2> DEFINE sent == [shell EXCEPT !.phase = "Bootstrapping", !.inFlight = TRUE]
  <2>1. sent \in ShellState /\ sent.phase # "CampaignReady"
    BY <1>1 DEF ShellState, Phases
  <2>2. Draw /\ Dispatch(Request("bootstrap", shell.selected), sent)
    BY <1>3 DEF ClickEnter
  <2> HIDE DEF sent
  <2>3. QED
    BY <1>1, <2>1, <2>2, DispatchInv DEF ShellKinds
<1>4. CASE ClickRefresh
  <2> DEFINE phase == IF shell.phase = "CampaignReady" THEN "CharacterSelect" ELSE shell.phase
             sent == [shell EXCEPT !.phase = phase, !.inFlight = TRUE]
  <2>1. Draw /\ Dispatch(Request("characters", NoCharacter), sent)
    BY <1>4 DEF ClickRefresh
  <2>2. phase \in Phases /\ phase # "CampaignReady"
    BY <1>1 DEF ShellState, Phases
  <2> HIDE DEF phase
  <2>3. sent \in ShellState /\ sent.phase # "CampaignReady"
    BY <1>1, <2>2 DEF ShellState
  <2> HIDE DEF sent
  <2>4. QED
    BY <2>1, <2>3, DispatchInv DEF ShellKinds
<1>5. QED
  BY <1>2, <1>3, <1>4

(* The clicks that only change what is shown. *)
LEMMA MoveInv ==
  ASSUME IndInv, ClickCharacter \/ ClickClear \/ ClickBack PROVE IndInv'
<1>1. shell \in ShellState /\ requests \in Seq(Job) /\ JobsCoherent /\ clears \in Nat
  BY DEF IndInv, TypeOK
<1>2. Draw /\ UNCHANGED <<commands, requests, working, responses, inbox>>
  BY DEF ClickCharacter, ClickClear, ClickBack, Draw
<1>3. clears' \in Nat
  BY <1>1 DEF ClickCharacter, ClickClear, ClickBack
<1>4. /\ shell' \in ShellState /\ (shell'.inFlight => shell.inFlight)
      /\ shell.phase # "CampaignReady" => shell'.phase # "CampaignReady"
  BY <1>1 DEF ClickCharacter, ClickClear, ClickBack, ShellState, Phases
<1>5. \A K : Underway(K) => Underway(K)'
  BY <1>2 DEF Underway
<1>6. requests' \in Seq(Job) /\ JobsCoherent'
  BY <1>1, <1>2 DEF JobsCoherent
<1>7. QED
  BY <1>2, <1>3, <1>4, <1>5, <1>6, ClickKeeps

(* A command sets the flag of its lane when it could be sent. *)
LEMMA CommandInv ==
  ASSUME IndInv, NEW lane, Command(lane) PROVE IndInv'
<1> DEFINE job == Request(lane, shell.bootstrap)
<1>1. /\ lane \in Lanes /\ requests' = Queued(requests, job) /\ InCampaign
      /\ commands' = IF Sendable THEN [commands EXCEPT ![lane] = TRUE] ELSE commands
      /\ UNCHANGED <<sync, shell, working, responses, inbox, worker, booted, world, failures, clears>>
  BY DEF Command, Draw
<1>2. TypeOK /\ ShownCoherent /\ JobsCoherent /\ FlagsBacked /\ WorkerCoherent
  BY DEF IndInv
<1>3. shell.bootstrap \in Characters \cup {NoCharacter}
  BY <1>2 DEF TypeOK, ShellState
<1>4. job \in Job /\ job.kind = lane /\ job.age = 0 /\ lane # "sync"
  BY <1>1, <1>3, RequestFields, KindsApart
<1> HIDE DEF job
<1>5. worker = "running" /\ Sendable
  BY <1>1, <1>2 DEF WorkerCoherent, InCampaign, Sendable
<1>6. /\ requests' \in Seq(Job) /\ JobsCoherent'
      /\ \A K : Underway(K) => Underway(K)'
      /\ Underway({lane})'
  BY <1>1, <1>4, <1>5, Sent
<1>7. /\ commands' \in [Lanes -> BOOLEAN]
      /\ \A l \in Lanes : l # lane => commands'[l] = commands[l]
  BY <1>1, <1>2, <1>5 DEF TypeOK
<1>8. TypeOK'
  BY <1>1, <1>2, <1>6, <1>7 DEF TypeOK
<1>9. WorkerCoherent'
  BY <1>1, <1>5 DEF WorkerCoherent
<1>10. FlagsBacked'
  BY <1>1, <1>2, <1>6, <1>7 DEF FlagsBacked
<1>11. ShownCoherent'
  BY <1>1, <1>2 DEF ShownCoherent, is_stale
<1>12. QED
  BY <1>6, <1>8, <1>9, <1>10, <1>11 DEF IndInv

(* Whatever is clicked. *)
LEMMA ClickInv ==
  ASSUME IndInv, Click PROVE IndInv'
BY AskInv, MoveInv, CommandInv DEF Click, ClickStart, ClickOrder, ClickPanel

-----------------------------------------------------------------------------
(* Time. *)

(* The one request that is being executed gets older by one unit. *)
LEMMA AgedFacts ==
  ASSUME IndInv, working # <<>> => working[1].age < Timeout
  PROVE  /\ Aged(working) \in Seq(Job) /\ Len(Aged(working)) <= 1 /\ Timely(Aged(working))
         /\ \A K : Holds(Aged(working), K) <=> Holds(working, K)
         /\ working = <<>> => Aged(working) = <<>>
<1>1. CASE working = <<>>
  <2>1. Aged(working) = <<>>
    BY <1>1 DEF Aged
  <2>2. QED
    BY <1>1, <2>1, EmptyFacts
<1>2. CASE working # <<>>
  <2> DEFINE job == [working[1] EXCEPT !.age = @ + 1]
  <2>1. working = <<working[1]>> /\ working[1] \in Job
    BY <1>2, Executing
  <2>2. DOMAIN working = 1..1
    BY <2>1
  <2>3. /\ Aged(working) = [i \in 1..1 |-> [working[i] EXCEPT !.age = @ + 1]]
    BY <2>2 DEF Aged
  <2>4. \A i \in 1..1 : i = 1
    OBVIOUS
  <2>5. Aged(working) = [i \in 1..1 |-> job]
    BY <2>3, <2>4
  <2>6. [i \in 1..1 |-> job] = <<job>>
    <3> HIDE DEF job
    <3>1. QED
      OBVIOUS
  <2>7. /\ job \in Job /\ job.kind = working[1].kind /\ job.character = working[1].character
        /\ job.age <= Timeout
    <3>1. working[1].age \in Nat /\ working[1].age < Timeout
      BY <1>2, <2>1 DEF Job
    <3>2. working[1].age + 1 \in Nat /\ working[1].age + 1 <= Timeout
      BY <3>1, Constants
    <3>3. QED
      BY <2>1, <3>2 DEF Job
  <2> HIDE DEF job
  <2>8. QED
    BY <1>2, <2>5, <2>6, <2>7, Executing, SingleFacts
<1>3. QED
  BY <1>1, <1>2

(* The age of what is shown stays within its range. *)
LEMMA LaterFacts ==
  ASSUME sync \in SyncState
  PROVE  /\ Later(sync.shown) \in [character : Characters \cup {NoCharacter},
                                   age : 0..(StaleAfter + Timeout + 1)]
         /\ Later(sync.shown).character = sync.shown.character
         /\ Later(sync.shown).age <= sync.shown.age + 1
<1> DEFINE shown == sync.shown
           n == Least(shown.age + 1, StaleAfter + Timeout + 1)
<1>1. /\ shown \in [character : Characters \cup {NoCharacter}, age : 0..(StaleAfter + Timeout + 1)]
      /\ shown.age \in 0..(StaleAfter + Timeout + 1) /\ shown.age \in Nat
  BY Constants DEF SyncState
<1>2. n \in 0..(StaleAfter + Timeout + 1) /\ n <= shown.age + 1 /\ shown.age <= shown.age + 1
  BY <1>1, Constants DEF Least
<1>3. Later(shown) = IF shown = NoSnapshot THEN shown ELSE [shown EXCEPT !.age = n]
  BY DEF Later
<1> HIDE DEF n, shown
<1>4. CASE shown = NoSnapshot
  BY <1>1, <1>2, <1>3, <1>4 DEF shown
<1>5. CASE shown # NoSnapshot
  BY <1>1, <1>2, <1>3, <1>5 DEF shown
<1>6. QED
  BY <1>4, <1>5

(* Time makes a request and what is shown older by the same amount as the  *)
(* time since the last snapshot.                                           *)
LEMMA ElapseInv ==
  ASSUME IndInv, Elapse PROVE IndInv'
<1>1. /\ responses = <<>> /\ inbox = <<>>
      /\ working # <<>> => working[1].age < Timeout
      /\ working' = Aged(working)
      /\ UNCHANGED <<shell, commands, requests, responses, inbox, worker, booted, world, failures, clears>>
  BY DEF Elapse
<1>2. TypeOK /\ ShownCoherent /\ JobsCoherent /\ FlagsBacked /\ WorkerCoherent
  BY DEF IndInv
<1> DEFINE wait == IF sync.wait = 0 THEN 0 ELSE sync.wait - 1
           since == Least(sync.since + 1, StaleAfter + 1)
           shown == Later(sync.shown)
<1>3. sync' = [sync EXCEPT !.wait = wait, !.since = since, !.shown = shown]
  BY DEF Elapse
<1>4. /\ sync.wait \in 0..MaxBackoff /\ sync.since \in 0..(StaleAfter + 1)
      /\ sync.shown.age \in 0..(StaleAfter + Timeout + 1)
  BY <1>2 DEF TypeOK, SyncState
<1>5. wait \in 0..MaxBackoff
  BY <1>4, Constants
<1>6. /\ since \in 0..(StaleAfter + 1)
      /\ ~(since > StaleAfter) => since = sync.since + 1 /\ ~(sync.since > StaleAfter)
  BY <1>4, Constants DEF Least
<1>7. /\ shown \in [character : Characters \cup {NoCharacter}, age : 0..(StaleAfter + Timeout + 1)]
      /\ shown.character = sync.shown.character /\ shown.age <= sync.shown.age + 1
  BY <1>2, LaterFacts DEF TypeOK
<1> HIDE DEF wait, since, shown
<1>8. /\ sync' \in SyncState /\ sync'.inFlight = sync.inFlight
      /\ sync'.since = since /\ sync'.shown = shown
  BY <1>2, <1>3, <1>5, <1>6, <1>7 DEF TypeOK, SyncState
<1>9. /\ working' \in Seq(Job) /\ Len(working') <= 1 /\ Timely(working')
      /\ \A K : Holds(working', K) <=> Holds(working, K)
      /\ working = <<>> => working' = <<>>
  BY <1>1, AgedFacts
<1>10. TypeOK'
  BY <1>1, <1>2, <1>8, <1>9 DEF TypeOK
<1>11. WorkerCoherent'
  BY <1>1, <1>2, <1>8, <1>9 DEF WorkerCoherent
<1>12. \A K : Underway(K) => Underway(K)'
  BY <1>1, <1>9 DEF Underway
<1>13. FlagsBacked'
  BY <1>1, <1>2, <1>8, <1>12, StillBacked
<1>14. JobsCoherent'
  BY <1>1, <1>2, <1>9 DEF JobsCoherent
<1>15. ShownCoherent'
  <2>1. ASSUME ~(since > StaleAfter)
        PROVE  shown.character # NoCharacter /\ shown.age <= since + Timeout
    <3>1. /\ sync.shown.character # NoCharacter /\ sync.shown.age <= sync.since + Timeout
          /\ since = sync.since + 1
      BY <1>2, <1>6, <2>1 DEF ShownCoherent, is_stale
    <3>2. shown.age \in Nat
      BY <1>7, Constants
    <3>3. shown.age <= since + Timeout
      BY <1>4, <1>7, <3>1, <3>2, Constants
    <3>4. QED
      BY <1>7, <3>1, <3>3
  <2>2. QED
    BY <1>8, <2>1 DEF ShownCoherent, is_stale
<1>16. QED
  BY <1>10, <1>11, <1>13, <1>14, <1>15 DEF IndInv

-----------------------------------------------------------------------------
(* The theorems. *)

(* At the start nothing is under way and nothing is shown. *)
LEMMA InitInv == Init => IndInv
<1> SUFFICES ASSUME Init PROVE IndInv
  OBVIOUS
<1>1. PICK handoff \in BOOLEAN, c \in Characters \cup {NoCharacter} :
        shell = [phase |-> IF handoff THEN "CharacterSelect" ELSE "Login",
                 inFlight |-> FALSE, handoff |-> handoff, session |-> handoff, roster |-> {},
                 selected |-> c, bootstrap |-> NoCharacter]
  BY DEF Init
<1>2. shell \in ShellState /\ shell.phase # "CampaignReady" /\ ~shell.inFlight
  <2> DEFINE phase == IF handoff THEN "CharacterSelect" ELSE "Login"
  <2>1. phase \in Phases /\ phase # "CampaignReady"
    BY DEF Phases
  <2> HIDE DEF phase
  <2>2. shell = [phase |-> phase, inFlight |-> FALSE, handoff |-> handoff, session |-> handoff,
                 roster |-> {}, selected |-> c, bootstrap |-> NoCharacter]
    BY <1>1 DEF phase
  <2>3. QED
    BY <2>1, <2>2 DEF ShellState
<1>3. /\ sync = [inFlight |-> FALSE, wait |-> 0, backoff |-> BasePoll, since |-> StaleAfter + 1,
                 tick |-> 0, shown |-> NoSnapshot]
      /\ commands = [l \in Lanes |-> FALSE]
      /\ requests = <<>> /\ working = <<>> /\ responses = <<>> /\ inbox = <<>>
      /\ worker = "starting" /\ booted = FALSE
      /\ world = [tick |-> 0, restarts |-> 0] /\ failures = 0 /\ clears = 0
  BY DEF Init
<1>4. sync \in SyncState /\ ~sync.inFlight /\ is_stale
  <2>1. /\ 0 \in 0..MaxBackoff /\ BasePoll \in 1..MaxBackoff /\ StaleAfter + 1 \in 0..(StaleAfter + 1)
        /\ 0 \in 0..(StaleAfter + Timeout + 1) /\ StaleAfter + 1 > StaleAfter
    BY Constants
  <2>2. NoSnapshot \in [character : Characters \cup {NoCharacter}, age : 0..(StaleAfter + Timeout + 1)]
    BY <2>1 DEF NoSnapshot
  <2>3. QED
    BY <1>3, <2>1, <2>2 DEF SyncState, is_stale
<1>5. TypeOK
  BY <1>2, <1>3, <1>4, EmptyFacts DEF TypeOK
<1>6. WorkerCoherent /\ FlagsBacked /\ JobsCoherent /\ ShownCoherent
  BY <1>2, <1>3, <1>4, EmptyFacts
  DEF WorkerCoherent, FlagsBacked, JobsCoherent, ShownCoherent
<1>7. QED
  BY <1>5, <1>6 DEF IndInv

(* A step that changes nothing. *)
LEMMA StutterInv ==
  ASSUME IndInv, UNCHANGED vars PROVE IndInv'
BY DEF IndInv, TypeOK, WorkerCoherent, FlagsBacked, JobsCoherent, ShownCoherent, is_stale,
       Underway, vars, channels

(* Flags are backed by something under way, and what is shown is as recent *)
(* as it is said to be, in every state of the client.                      *)
THEOREM Coherence == Spec => []IndInv
<1>1. ASSUME IndInv, [Next]_vars PROVE IndInv'
  <2>1. CASE Next
    BY <1>1, <2>1, WorkerStartsInv, WorkerFailsInv, TakeInv, ServeInv, ReportInv, WorldInv,
       StartupInv, CollectInv, HandleInv, DriveInv, ClickInv, ElapseInv DEF Next
  <2>2. CASE UNCHANGED vars
    BY <1>1, <2>2, StutterInv
  <2>3. QED
    BY <1>1, <2>1, <2>2
<1>2. QED
  BY InitInv, <1>1, PTL DEF Spec

(* While the sync is called LIVE, what is shown was asked for at most the  *)
(* staleness limit and one time limit of a request ago.                    *)
THEOREM Recent == Spec => []LiveIsRecent
<1>1. IndInv => LiveIsRecent
  <2> SUFFICES ASSUME IndInv, ~is_stale
               PROVE  sync.shown.character # NoCharacter /\ sync.shown.age <= StaleAfter + Timeout
    BY DEF LiveIsRecent
  <2>1. /\ sync.shown.character # NoCharacter /\ sync.shown.age <= sync.since + Timeout
        /\ ~(sync.since > StaleAfter)
    BY DEF IndInv, ShownCoherent, is_stale
  <2>2. sync.since \in Nat /\ sync.shown.age \in Nat
    BY Constants DEF IndInv, TypeOK, SyncState
  <2>3. QED
    BY <2>1, <2>2, Constants
<1>2. QED
  BY Coherence, <1>1, PTL

-----------------------------------------------------------------------------
(* World syncs are awaited: the inductive invariant.                       *)

(* The jobs under way, by their kind, the next to be handled first.        *)
KindsIn(s) == [i \in 1..Len(s) |-> s[i].kind]
Kinds == KindsIn(Pipeline)

Some(q, K) == \E i \in 1..Len(q) : q[i] \in K
OnlyOne(q, K) == \A i, j \in 1..Len(q) : q[i] \in K /\ q[j] \in K => i = j
NeverAfter(q, k, K) == \A i, j \in 1..Len(q) : i < j /\ q[i] = k => q[j] \notin K
(* Whether a flag says that there is one such job, and there is no other.  *)
Told(q, flag, K) == OnlyOne(q, K) /\ (Some(q, K) => flag)

(* While the user has a session, or has never cleared one, the shell waits *)
(* for all it has asked for; a login is asked for by who has left.         *)
ShellTold(q) ==
  shell.session \/ clears = 0 => /\ Told(q, shell.inFlight, ShellKinds)
                                 /\ clears = 0 /\ Some(q, {"login"}) => shell.phase = "Authenticating"
(* After a session was cleared, one answer to it may come before that of   *)
(* the new login, and clears the flag of the login.                        *)
Cleared(q) ==
  clears = 1 /\ ~shell.session =>
    /\ OnlyOne(q, {"characters", "bootstrap"}) /\ OnlyOne(q, {"login"})
    /\ NeverAfter(q, "login", ShellKinds)
    /\ Some(q, {"login"}) /\ ~shell.inFlight => shell.phase \notin {"Login", "Authenticating"}
(* In the campaign nothing else is asked for; the poll waits for its sync, *)
(* and none is behind a bootstrap that would come back to the campaign.    *)
SyncTold(q) ==
  /\ InCampaign => ~shell.inFlight /\ Told(q, sync.inFlight, {"sync"})
  /\ NeverAfter(q, "bootstrap", {"sync"})

Starting ==
  /\ ~booted => ~shell.inFlight /\ shell.phase # "CampaignReady" /\ inbox = <<>> /\ clears = 0
  /\ clears # 0 => ~shell.handoff

Waits(q) == ShellTold(q) /\ Cleared(q) /\ SyncTold(q)

AwaitInv == Starting /\ (clears <= 1 /\ worker # "gone" => Waits(Kinds))

-----------------------------------------------------------------------------
(* Sequences of kinds. *)

AllKinds == ShellKinds \cup {"sync"} \cup Lanes

(* One sequence after the other, and a sequence of one.                    *)
Then(s, t) == s \o t
One(k) == <<k>>

LEMMA AppendKinds ==
  ASSUME NEW q \in Seq(AllKinds), NEW k \in AllKinds, NEW t, t = Append(q, k)
  PROVE  /\ t \in Seq(AllKinds)
         /\ \A K : Some(t, K) <=> Some(q, K) \/ k \in K
         /\ \A K : OnlyOne(q, K) /\ (k \in K => ~Some(q, K)) => OnlyOne(t, K)
         /\ \A a, K : NeverAfter(q, a, K) /\ (k \in K => ~Some(q, {a})) => NeverAfter(t, a, K)
<1>1. /\ t \in Seq(AllKinds) /\ Len(q) \in Nat /\ Len(t) = Len(q) + 1 /\ t[Len(q) + 1] = k
      /\ \A i \in 1..Len(q) : t[i] = q[i]
  BY AppendProperties
<1>2. \A i \in 1..Len(t) : i \in 1..Len(q) \/ i = Len(q) + 1
  BY <1>1
<1>3. ASSUME NEW K PROVE Some(t, K) <=> Some(q, K) \/ k \in K
  BY <1>1, <1>2 DEF Some
<1>4. ASSUME NEW K, OnlyOne(q, K), k \in K => ~Some(q, K) PROVE OnlyOne(t, K)
  BY <1>1, <1>2, <1>4 DEF OnlyOne, Some
<1>5. ASSUME NEW a, NEW K, NeverAfter(q, a, K), k \in K => ~Some(q, {a}) PROVE NeverAfter(t, a, K)
  BY <1>1, <1>2, <1>5 DEF NeverAfter, Some
<1>6. QED
  BY <1>1, <1>3, <1>4, <1>5

LEMMA TailKinds ==
  ASSUME NEW q \in Seq(AllKinds), q # <<>>, NEW h, h = Head(q), NEW t, t = Tail(q)
  PROVE  /\ t \in Seq(AllKinds)
         /\ \A K : Some(t, K) => Some(q, K)
         /\ \A K : OnlyOne(q, K) => OnlyOne(t, K) /\ (h \in K => ~Some(t, K))
         /\ \A a, K : NeverAfter(q, a, K) => NeverAfter(t, a, K) /\ (h = a => ~Some(t, K))
<1>1. /\ t \in Seq(AllKinds) /\ Len(q) \in Nat \ {0} /\ Len(t) = Len(q) - 1 /\ h = q[1]
      /\ \A i \in 1..Len(t) : t[i] = q[i + 1]
  BY HeadTailProperties, LenProperties, EmptySeq
<1>2. 1 \in 1..Len(q) /\ \A i \in 1..Len(t) : i + 1 \in 1..Len(q) /\ i + 1 # 1 /\ 1 < i + 1
  BY <1>1
<1>3. ASSUME NEW K, Some(t, K) PROVE Some(q, K)
  BY <1>1, <1>2, <1>3 DEF Some
<1>4. ASSUME NEW K, OnlyOne(q, K) PROVE OnlyOne(t, K) /\ (h \in K => ~Some(t, K))
  <2>1. OnlyOne(t, K)
    <3> SUFFICES ASSUME NEW i \in 1..Len(t), NEW j \in 1..Len(t), t[i] \in K, t[j] \in K PROVE i = j
      BY DEF OnlyOne
    <3>1. i + 1 = j + 1
      BY <1>1, <1>2, <1>4 DEF OnlyOne
    <3>2. QED
      BY <1>1, <3>1
  <2>2. ASSUME h \in K, Some(t, K) PROVE FALSE
    <3>1. PICK i \in 1..Len(t) : t[i] \in K
      BY <2>2 DEF Some
    <3>2. QED
      BY <1>1, <1>2, <1>4, <2>2, <3>1 DEF OnlyOne
  <2>3. QED
    BY <2>1, <2>2
<1>5. ASSUME NEW a, NEW K, NeverAfter(q, a, K) PROVE NeverAfter(t, a, K) /\ (h = a => ~Some(t, K))
  <2>1. NeverAfter(t, a, K)
    <3> SUFFICES ASSUME NEW i \in 1..Len(t), NEW j \in 1..Len(t), i < j, t[i] = a PROVE t[j] \notin K
      BY DEF NeverAfter
    <3>1. i + 1 < j + 1
      BY <1>1
    <3>2. QED
      BY <1>1, <1>2, <1>5, <3>1 DEF NeverAfter
  <2>2. ASSUME h = a, Some(t, K) PROVE FALSE
    <3>1. PICK i \in 1..Len(t) : t[i] \in K
      BY <2>2 DEF Some
    <3>2. QED
      BY <1>1, <1>2, <1>5, <2>2, <3>1 DEF NeverAfter
  <2>3. QED
    BY <2>1, <2>2
<1>6. QED
  BY <1>1, <1>3, <1>4, <1>5

(* The kinds in a channel, and in channels one after the other.            *)
LEMMA KindsType ==
  ASSUME NEW s \in Seq(Job)
  PROVE  /\ KindsIn(s) \in Seq(AllKinds) /\ Len(KindsIn(s)) = Len(s) /\ Len(s) \in Nat
         /\ \A i \in 1..Len(s) : KindsIn(s)[i] = s[i].kind
<1>1. Len(s) \in Nat /\ \A i \in 1..Len(s) : s[i].kind \in AllKinds
  <2>1. Len(s) \in Nat /\ \A i \in 1..Len(s) : s[i] \in Job
    BY LenProperties, ElementOfSeq
  <2>2. QED
    BY <2>1 DEF Job, AllKinds
<1>2. QED
  BY <1>1 DEF KindsIn

LEMMA KindsConcat ==
  ASSUME NEW s \in Seq(Job), NEW t \in Seq(Job)
  PROVE  Then(s, t) \in Seq(Job) /\ KindsIn(Then(s, t)) = Then(KindsIn(s), KindsIn(t))
<1>1. /\ s \o t \in Seq(Job) /\ Len(s \o t) = Len(s) + Len(t)
      /\ \A i \in 1..(Len(s) + Len(t)) : (s \o t)[i] = IF i <= Len(s) THEN s[i] ELSE t[i - Len(s)]
  BY ConcatProperties
<1>2. PICK u, a, b, c : u = s \o t /\ a = KindsIn(s) /\ b = KindsIn(t) /\ c = KindsIn(u)
  OBVIOUS
<1>3. /\ a \in Seq(AllKinds) /\ b \in Seq(AllKinds) /\ c \in Seq(AllKinds)
      /\ Len(a) = Len(s) /\ Len(b) = Len(t) /\ Len(c) = Len(s) + Len(t) /\ Len(s) \in Nat /\ Len(t) \in Nat
      /\ \A i \in 1..Len(s) : a[i] = s[i].kind
      /\ \A i \in 1..Len(t) : b[i] = t[i].kind
      /\ \A i \in 1..Len(u) : c[i] = u[i].kind
  BY <1>1, <1>2, KindsType
<1>4. /\ a \o b \in Seq(AllKinds) /\ Len(a \o b) = Len(a) + Len(b)
      /\ \A i \in 1..(Len(a) + Len(b)) : (a \o b)[i] = IF i <= Len(a) THEN a[i] ELSE b[i - Len(a)]
  <2>1. a \in Seq(AllKinds) /\ b \in Seq(AllKinds)
    BY <1>3
  <2>2. QED
    BY <2>1, ConcatProperties
<1>5. ASSUME NEW i \in 1..Len(c) PROVE c[i] = (a \o b)[i]
  <2>1. i \in 1..(Len(s) + Len(t)) /\ c[i] = u[i].kind
    BY <1>1, <1>2, <1>3
  <2>2. CASE i <= Len(s)
    <3>1. u[i] = s[i] /\ (a \o b)[i] = a[i]
      BY <1>1, <1>2, <1>3, <1>4, <2>1, <2>2
    <3>2. QED
      BY <1>3, <2>1, <2>2, <3>1
  <2>3. CASE ~(i <= Len(s))
    <3>1. u[i] = t[i - Len(s)] /\ (a \o b)[i] = b[i - Len(s)] /\ i - Len(s) \in 1..Len(t)
      BY <1>1, <1>2, <1>3, <1>4, <2>1, <2>3
    <3>2. QED
      BY <1>3, <2>1, <3>1
  <2>4. QED
    BY <2>2, <2>3
<1>6. c = a \o b
  BY <1>3, <1>4, <1>5, SeqEqual
<1>7. QED
  BY <1>1, <1>2, <1>6 DEF Then

(* Four channels one after the other.                                      *)
LEMMA FourKinds ==
  ASSUME NEW a \in Seq(Job), NEW b \in Seq(Job), NEW c \in Seq(Job), NEW d \in Seq(Job)
  PROVE  /\ Then(Then(Then(a, b), c), d) \in Seq(Job)
         /\ KindsIn(Then(Then(Then(a, b), c), d))
              = Then(Then(Then(KindsIn(a), KindsIn(b)), KindsIn(c)), KindsIn(d))
<1>1. Then(a, b) \in Seq(Job) /\ KindsIn(Then(a, b)) = Then(KindsIn(a), KindsIn(b))
  BY KindsConcat
<1>2. /\ Then(Then(a, b), c) \in Seq(Job)
      /\ KindsIn(Then(Then(a, b), c)) = Then(KindsIn(Then(a, b)), KindsIn(c))
  BY <1>1, KindsConcat
<1>3. /\ Then(Then(Then(a, b), c), d) \in Seq(Job)
      /\ KindsIn(Then(Then(Then(a, b), c), d)) = Then(KindsIn(Then(Then(a, b), c)), KindsIn(d))
  BY <1>2, KindsConcat
<1>4. QED
  BY <1>1, <1>2, <1>3

LEMMA KindsOfOne ==
  /\ KindsIn(<<>>) = <<>>
  /\ \A j : KindsIn(<<j>>) = One(j.kind)
BY DEF KindsIn, One

LEMMA KindsAppend ==
  ASSUME NEW s \in Seq(Job), NEW j \in Job
  PROVE  KindsIn(Append(s, j)) = Then(KindsIn(s), One(j.kind)) /\ j.kind \in AllKinds
<1>1. <<j>> \in Seq(Job) /\ Append(s, j) = s \o <<j>> /\ j.kind \in AllKinds
  BY DEF Job, AllKinds
<1>2. KindsIn(Append(s, j)) = Then(KindsIn(s), KindsIn(<<j>>))
  BY <1>1, KindsConcat DEF Then
<1>3. QED
  BY <1>1, <1>2, KindsOfOne

LEMMA KindsSplit ==
  ASSUME NEW s \in Seq(Job), s # <<>>
  PROVE  /\ Head(s) \in Job /\ Tail(s) \in Seq(Job) /\ Head(s).kind \in AllKinds
         /\ KindsIn(Tail(s)) \in Seq(AllKinds)
         /\ KindsIn(s) = Then(One(Head(s).kind), KindsIn(Tail(s)))
<1>1. Head(s) \in Job /\ Tail(s) \in Seq(Job) /\ <<Head(s)>> \in Seq(Job) /\ s = <<Head(s)>> \o Tail(s)
  BY HeadTailProperties
<1>2. KindsIn(s) = Then(KindsIn(<<Head(s)>>), KindsIn(Tail(s)))
  BY <1>1, KindsConcat DEF Then
<1>3. QED
  BY <1>1, <1>2, KindsOfOne, KindsType DEF Job, AllKinds

(* The same channels, cut elsewhere.                                       *)
LEMMA Concats ==
  ASSUME NEW a \in Seq(AllKinds), NEW b \in Seq(AllKinds)
  PROVE  /\ Then(a, b) \in Seq(AllKinds) /\ Then(a, <<>>) = a /\ Then(<<>>, a) = a
         /\ \A c \in Seq(AllKinds) : Then(Then(a, b), c) = Then(a, Then(b, c))
BY ConcatProperties, ConcatEmptySeq, ConcatAssociative DEF Then

LEMMA Ones ==
  ASSUME NEW k \in AllKinds
  PROVE  /\ One(k) \in Seq(AllKinds)
         /\ \A a \in Seq(AllKinds) :
              /\ Append(a, k) = Then(a, One(k))
              /\ Then(One(k), a) # <<>> /\ Head(Then(One(k), a)) = k /\ Tail(Then(One(k), a)) = a
BY DEF One, Then

LEMMA CutFirst ==
  ASSUME NEW o \in Seq(AllKinds), NEW a \in Seq(AllKinds), NEW b \in Seq(AllKinds),
         NEW c \in Seq(AllKinds), NEW d \in Seq(AllKinds)
  PROVE  /\ Then(Then(Then(Then(o, a), b), c), d) = Then(o, Then(Then(Then(a, b), c), d))
         /\ Then(Then(a, b), c) \in Seq(AllKinds) /\ Then(Then(Then(a, b), c), d) \in Seq(AllKinds)
<1>1. Then(a, b) \in Seq(AllKinds) /\ Then(Then(o, a), b) = Then(o, Then(a, b))
  BY Concats
<1>2. /\ Then(Then(a, b), c) \in Seq(AllKinds)
      /\ Then(Then(o, Then(a, b)), c) = Then(o, Then(Then(a, b), c))
  BY <1>1, Concats
<1>3. /\ Then(Then(Then(a, b), c), d) \in Seq(AllKinds)
      /\ Then(Then(o, Then(Then(a, b), c)), d) = Then(o, Then(Then(Then(a, b), c), d))
  BY <1>2, Concats
<1>4. QED
  BY <1>1, <1>2, <1>3

(* The kinds of the pipeline, before a step and after it.                  *)
LEMMA Channels ==
  ASSUME IndInv, IndInv'
  PROVE  /\ KindsIn(inbox) \in Seq(AllKinds) /\ KindsIn(responses) \in Seq(AllKinds)
         /\ KindsIn(working) \in Seq(AllKinds) /\ KindsIn(requests) \in Seq(AllKinds)
         /\ Kinds \in Seq(AllKinds) /\ Kinds' \in Seq(AllKinds)
         /\ Kinds = Then(Then(Then(KindsIn(inbox), KindsIn(responses)), KindsIn(working)), KindsIn(requests))
         /\ Kinds' = Then(Then(Then(KindsIn(inbox'), KindsIn(responses')), KindsIn(working')),
                          KindsIn(requests'))
<1>1. /\ inbox \in Seq(Job) /\ responses \in Seq(Job) /\ working \in Seq(Job) /\ requests \in Seq(Job)
      /\ inbox' \in Seq(Job) /\ responses' \in Seq(Job)
      /\ working' \in Seq(Job) /\ requests' \in Seq(Job)
  BY DEF IndInv, TypeOK
<1>2. /\ Pipeline = Then(Then(Then(inbox, responses), working), requests)
      /\ Pipeline' = Then(Then(Then(inbox', responses'), working'), requests')
  BY DEF Pipeline, Then
<1>3. Kinds = KindsIn(Pipeline) /\ Kinds' = KindsIn(Pipeline')
  BY DEF Kinds
<1>4. /\ Kinds = Then(Then(Then(KindsIn(inbox), KindsIn(responses)), KindsIn(working)), KindsIn(requests))
      /\ Kinds' = Then(Then(Then(KindsIn(inbox'), KindsIn(responses')), KindsIn(working')),
                       KindsIn(requests'))
  BY <1>1, <1>2, <1>3, FourKinds
<1>5. Kinds \in Seq(AllKinds) /\ Kinds' \in Seq(AllKinds)
  BY <1>1, <1>2, <1>3, FourKinds, KindsType
<1>6. QED
  BY <1>1, <1>4, <1>5, KindsType

(* What moves a job from one channel to the next.                          *)
LEMMA MovedKinds ==
  ASSUME IndInv, IndInv',
         WorkerStarts \/ Take \/ Serve \/ Reply \/ CallFails \/ WorldTick \/ WorldRestart \/ Collect \/ Elapse
  PROVE  Kinds' = Kinds
<1> DEFINE a == KindsIn(inbox)  b == KindsIn(responses)  c == KindsIn(working)  d == KindsIn(requests)
<1>1. /\ a \in Seq(AllKinds) /\ b \in Seq(AllKinds) /\ c \in Seq(AllKinds) /\ d \in Seq(AllKinds)
      /\ Kinds = Then(Then(Then(a, b), c), d)
      /\ Kinds' = Then(Then(Then(KindsIn(inbox'), KindsIn(responses')), KindsIn(working')), KindsIn(requests'))
  BY Channels
<1>2. inbox \in Seq(Job) /\ responses \in Seq(Job) /\ requests \in Seq(Job) /\ working \in Seq(Job)
  BY DEF IndInv, TypeOK
<1>3. ASSUME UNCHANGED <<inbox, responses, requests>>, KindsIn(working') = KindsIn(working)
      PROVE  Kinds' = Kinds
  BY <1>1, <1>3
<1>4. CASE WorkerStarts \/ WorldTick \/ WorldRestart
  BY <1>3, <1>4 DEF WorkerStarts, WorldTick, WorldRestart, channels
<1>5. CASE Take
  <2>1. /\ working = <<>> /\ requests # <<>> /\ working' = <<Head(requests)>>
        /\ requests' = Tail(requests) /\ UNCHANGED <<responses, inbox>>
    BY <1>5 DEF Take
  <2> DEFINE o == One(Head(requests).kind)  t == KindsIn(Tail(requests))
  <2>2. o \in Seq(AllKinds) /\ t \in Seq(AllKinds) /\ d = Then(o, t)
    BY <1>2, <2>1, KindsSplit, Ones
  <2>3. c = <<>> /\ Kinds' = Then(Then(Then(a, b), o), t)
    BY <1>1, <2>1, KindsOfOne
  <2> HIDE DEF a, b, c, d, o, t
  <2>4. Then(a, b) \in Seq(AllKinds)
    BY <1>1, Concats
  <2>5. Then(Then(a, b), c) = Then(a, b) /\ Then(Then(Then(a, b), o), t) = Then(Then(a, b), Then(o, t))
    BY <2>2, <2>3, <2>4, Concats
  <2>6. QED
    BY <1>1, <2>2, <2>3, <2>5
<1>6. CASE Serve
  <2>1. PICK outcome \in Outcomes(working[1].kind), roster \in Rosters :
          working' = <<[working[1] EXCEPT
               !.result = outcome,
               !.roster = IF working[1].kind = "characters" THEN roster ELSE {},
               !.tick = IF working[1].kind = "sync" THEN world.tick ELSE 0]>>
    BY <1>6 DEF Serve
  <2>2. PICK r, n :
          working' = <<[working[1] EXCEPT !.result = outcome, !.roster = r, !.tick = n]>>
    BY <2>1
  <2>3. UNCHANGED <<inbox, responses, requests>> /\ working # <<>>
    BY <1>6 DEF Serve
  <2>4. working[1] \in Job /\ working = <<working[1]>>
    BY <2>3, Executing
  <2> DEFINE job == [working[1] EXCEPT !.result = outcome, !.roster = r, !.tick = n]
  <2>5. job.kind = working[1].kind /\ working' = <<job>>
    BY <2>2, <2>4 DEF Job
  <2> HIDE DEF job
  <2>6. KindsIn(working') = One(working[1].kind) /\ KindsIn(working) = One(working[1].kind)
    BY <2>4, <2>5, KindsOfOne
  <2>7. QED
    BY <1>3, <2>3, <2>6
<1>7. CASE Reply \/ CallFails
  <2>1. working # <<>> /\ working' = <<>> /\ UNCHANGED <<inbox, requests>>
    BY <1>7 DEF Reply, CallFails
  <2>2. working[1] \in Job /\ working = <<working[1]>>
    BY <2>1, Executing
  <2> DEFINE k == working[1].kind
  <2>3. PICK job \in Job : job.kind = k /\ responses' = Append(responses, job)
    <3>1. CASE Reply
      BY <2>2, <3>1 DEF Reply
    <3>2. CASE CallFails
      <4>1. [working[1] EXCEPT !.result = "error"] \in Job
        BY <2>2 DEF Job
      <4>2. [working[1] EXCEPT !.result = "error"].kind = k
        BY <2>2 DEF Job
      <4>3. QED
        BY <3>2, <4>1, <4>2 DEF CallFails
    <3>3. QED
      BY <1>7, <3>1, <3>2
  <2> DEFINE o == One(k)  e == KindsIn(working')
  <2>4. /\ KindsIn(responses') = Then(b, o) /\ c = o /\ e = <<>> /\ k \in AllKinds
    BY <1>2, <2>1, <2>2, <2>3, KindsAppend, KindsOfOne
  <2>5. Kinds' = Then(Then(Then(a, Then(b, o)), e), d)
    BY <1>1, <2>1, <2>4
  <2>6. o \in Seq(AllKinds)
    BY <2>4, Ones
  <2> HIDE DEF a, b, c, d, e, o
  <2>7. Then(a, b) \in Seq(AllKinds) /\ Then(a, Then(b, o)) = Then(Then(a, b), o)
    BY <1>1, <2>6, Concats
  <2>8. Then(Then(a, b), o) \in Seq(AllKinds)
    BY <2>6, <2>7, Concats
  <2>9. Then(Then(Then(a, b), o), e) = Then(Then(a, b), o)
    BY <2>4, <2>8, Concats
  <2>10. QED
    BY <1>1, <2>4, <2>5, <2>7, <2>9
<1>8. CASE Collect
  <2>1. inbox = <<>> /\ inbox' = responses /\ responses' = <<>> /\ UNCHANGED <<requests, working>>
    BY <1>8 DEF Collect, Collected
  <2>2. a = <<>> /\ KindsIn(responses') = <<>> /\ KindsIn(inbox') = b
    BY <2>1, KindsOfOne
  <2>3. Kinds' = Then(Then(Then(b, <<>>), c), d)
    BY <1>1, <2>1, <2>2
  <2> HIDE DEF a, b, c, d
  <2>4. Then(a, b) = b /\ Then(b, <<>>) = b
    BY <1>1, <2>2, Concats
  <2>5. QED
    BY <1>1, <2>3, <2>4
<1>9. CASE Elapse
  <2>1. working' = Aged(working) /\ UNCHANGED <<inbox, responses, requests>>
    BY <1>9 DEF Elapse
  <2>2. CASE working = <<>>
    BY <1>3, <2>1, <2>2 DEF Aged
  <2>3. CASE working # <<>>
    <3>1. working[1] \in Job /\ working = <<working[1]>>
      BY <2>3, Executing
    <3> DEFINE job == [working[1] EXCEPT !.age = @ + 1]
    <3>2. job.kind = working[1].kind
      BY <3>1 DEF Job
    <3>3. working' = <<job>>
      BY <2>1, <3>1 DEF Aged
    <3> HIDE DEF job
    <3>4. KindsIn(working') = One(working[1].kind) /\ KindsIn(working) = One(working[1].kind)
      BY <3>1, <3>2, <3>3, KindsOfOne
    <3>5. QED
      BY <1>3, <2>1, <3>4
  <2>4. QED
    BY <2>2, <2>3
<1>10. QED
  BY <1>4, <1>5, <1>6, <1>7, <1>8, <1>9

(* A request that can be sent goes behind everything else.                 *)
LEMMA SentKinds ==
  ASSUME IndInv, IndInv', UNCHANGED <<inbox, responses, working>>,
         NEW job \in Job, requests' = Queued(requests, job), worker # "gone"
  PROVE  Kinds' = Append(Kinds, job.kind) /\ job.kind \in AllKinds
<1> DEFINE a == KindsIn(inbox)  b == KindsIn(responses)  c == KindsIn(working)  d == KindsIn(requests)
           u == Then(Then(a, b), c)  o == One(job.kind)
<1>1. /\ a \in Seq(AllKinds) /\ b \in Seq(AllKinds) /\ c \in Seq(AllKinds) /\ d \in Seq(AllKinds)
      /\ Kinds \in Seq(AllKinds) /\ Kinds = Then(u, d) /\ Kinds' = Then(u, KindsIn(requests'))
  BY Channels
<1>2. requests \in Seq(Job) /\ requests' = Append(requests, job)
  BY DEF IndInv, TypeOK, Queued, Sendable
<1>3. KindsIn(requests') = Then(d, o) /\ job.kind \in AllKinds /\ o \in Seq(AllKinds)
  BY <1>2, KindsAppend, Ones
<1>4. u \in Seq(AllKinds)
  <2> HIDE DEF a, b, c, d
  <2>1. QED
    BY <1>1, <1>3, CutFirst
<1>5. Append(Kinds, job.kind) = Then(Kinds, o)
  BY <1>1, <1>3, Ones
<1> HIDE DEF u, d, o
<1>6. Then(Then(u, d), o) = Then(u, Then(d, o))
  BY <1>1, <1>3, <1>4, Concats
<1>7. QED
  BY <1>1, <1>3, <1>5, <1>6

(* The response handled comes from the front, and a request goes behind    *)
(* the rest.                                                               *)
LEMMA HandledKinds ==
  ASSUME IndInv, IndInv', inbox # <<>>, inbox' = Tail(inbox), UNCHANGED <<responses, working>>
  PROVE  /\ Kinds # <<>> /\ Head(inbox).kind = Head(Kinds)
         /\ requests' = requests => Kinds' = Tail(Kinds)
         /\ \A job \in Job :
              requests' = Append(requests, job) => /\ Kinds' = Append(Tail(Kinds), job.kind)
                                                   /\ job.kind \in AllKinds
<1> DEFINE h == Head(inbox).kind  a == KindsIn(Tail(inbox))  b == KindsIn(responses)
           c == KindsIn(working)  d == KindsIn(requests)
           u == Then(Then(a, b), c)  rest == Then(u, d)
<1>1. /\ b \in Seq(AllKinds) /\ c \in Seq(AllKinds) /\ d \in Seq(AllKinds)
      /\ Kinds = Then(Then(Then(KindsIn(inbox), b), c), d)
      /\ Kinds' = Then(u, KindsIn(requests'))
  BY Channels
<1>2. inbox \in Seq(Job) /\ requests \in Seq(Job)
  BY DEF IndInv, TypeOK
<1>3. h \in AllKinds /\ a \in Seq(AllKinds) /\ KindsIn(inbox) = Then(One(h), a) /\ One(h) \in Seq(AllKinds)
  BY <1>2, KindsSplit, Ones
<1>4. Kinds = Then(One(h), rest) /\ rest \in Seq(AllKinds) /\ u \in Seq(AllKinds)
  <2> HIDE DEF h, a, b, c, d
  <2>1. QED
    BY <1>1, <1>3, CutFirst
<1>5. Kinds # <<>> /\ Head(Kinds) = h /\ Tail(Kinds) = rest
  <2> HIDE DEF h, rest
  <2>1. QED
    BY <1>3, <1>4, Ones
<1>6. ASSUME NEW job \in Job, requests' = Append(requests, job)
      PROVE  Kinds' = Append(Tail(Kinds), job.kind) /\ job.kind \in AllKinds
  <2> DEFINE o == One(job.kind)
  <2>1. KindsIn(requests') = Then(d, o) /\ job.kind \in AllKinds /\ o \in Seq(AllKinds)
    BY <1>2, <1>6, KindsAppend, Ones
  <2>2. Append(rest, job.kind) = Then(rest, o)
    <3> HIDE DEF rest
    <3>1. QED
      BY <1>4, <2>1, Ones
  <2> HIDE DEF u, d, o
  <2>3. Then(Then(u, d), o) = Then(u, Then(d, o))
    BY <1>1, <1>4, <2>1, Concats
  <2>4. QED
    BY <1>1, <1>5, <2>1, <2>2, <2>3
<1>7. QED
  BY <1>1, <1>5, <1>6

-----------------------------------------------------------------------------
(* What each step does to the waiting. *)

(* Among fewer kinds.                                                      *)
LEMMA FewerKinds ==
  ASSUME NEW q, NEW K, NEW L, K \subseteq L
  PROVE  /\ Some(q, K) => Some(q, L)
         /\ OnlyOne(q, L) => OnlyOne(q, K)
         /\ ~Some(q, L) => OnlyOne(q, L) /\ \A a : NeverAfter(q, a, L)
BY DEF Some, OnlyOne, NeverAfter

(* What is the only one of its kinds has none of them behind it.           *)
LEMMA OneIsLast ==
  ASSUME NEW q \in Seq(AllKinds), NEW k, NEW K, k \in K, OnlyOne(q, K)
  PROVE  NeverAfter(q, k, K)
<1>1. Len(q) \in Nat
  BY LenProperties
<1>2. QED
  BY <1>1 DEF OnlyOne, NeverAfter

(* A step that moves no job of the shell or of the poll, and no flag.      *)
LEMMA QuietAwait ==
  ASSUME AwaitInv, Kinds' = Kinds,
         shell'.session = shell.session, shell'.inFlight = shell.inFlight,
         shell'.phase = shell.phase, shell'.handoff = shell.handoff,
         sync'.inFlight = sync.inFlight \/ ~InCampaign,
         clears' = clears, booted' = booted, (worker' = worker) \/ (worker # "gone"),
         booted \/ (inbox' = inbox)
  PROVE  AwaitInv'
<1>1. Starting'
  BY DEF AwaitInv, Starting
<1>2. ASSUME clears' <= 1, worker' # "gone" PROVE Waits(Kinds)'
  <2>1. Waits(Kinds)
    BY <1>2 DEF AwaitInv
  <2>2. QED
    BY <2>1 DEF Waits, ShellTold, Cleared, SyncTold, Told, InCampaign
<1>3. QED
  BY <1>1, <1>2 DEF AwaitInv

(* The shell asks for something, only while it waits for nothing.          *)
LEMMA AskAwait ==
  ASSUME AwaitInv, Kinds \in Seq(AllKinds), NEW k \in ShellKinds, Kinds' = Append(Kinds, k),
         worker # "gone", ~shell.inFlight, shell'.inFlight,
         shell'.session = shell.session, shell'.phase # "CampaignReady",
         k = "login" => shell'.phase = "Authenticating" /\ shell.phase \in {"Login", "Authenticating"},
         k # "login" => shell.session,
         Starting', clears' = clears
  PROVE  AwaitInv'
<1> SUFFICES ASSUME clears <= 1 PROVE Waits(Kinds)'
  BY DEF AwaitInv
<1>1. PICK q : q = Kinds
  OBVIOUS
<1>2. PICK t : t = Kinds'
  OBVIOUS
<1>3. ShellTold(q) /\ Cleared(q) /\ SyncTold(q)
  BY <1>1 DEF AwaitInv, Waits
<1>4. q \in Seq(AllKinds) /\ t = Append(q, k) /\ k \in AllKinds
  BY <1>1, <1>2 DEF AllKinds
<1>5. /\ \A K : Some(t, K) <=> Some(q, K) \/ k \in K
      /\ \A K : OnlyOne(q, K) /\ (k \in K => ~Some(q, K)) => OnlyOne(t, K)
      /\ \A a, K : NeverAfter(q, a, K) /\ (k \in K => ~Some(q, {a})) => NeverAfter(t, a, K)
  BY <1>4, AppendKinds
<1>6. Some(q, {"login"}) => Some(q, ShellKinds)
  BY FewerKinds DEF ShellKinds
<1>7. ShellTold(t)'
  <2>1. ASSUME shell.session \/ clears = 0
        PROVE  ~Some(q, ShellKinds) /\ OnlyOne(t, ShellKinds)
    BY <1>3, <1>5, <2>1 DEF ShellTold, Told
  <2>2. ASSUME clears = 0, Some(t, {"login"}) PROVE shell'.phase = "Authenticating"
    BY <1>5, <1>6, <2>1, <2>2
  <2>3. QED
    BY <2>1, <2>2 DEF ShellTold, Told
<1>8. Cleared(t)'
  <2> SUFFICES ASSUME clears = 1, ~shell.session
               PROVE  /\ OnlyOne(t, {"characters", "bootstrap"}) /\ OnlyOne(t, {"login"})
                      /\ NeverAfter(t, "login", ShellKinds)
    BY DEF Cleared
  <2>1. k = "login" /\ ~Some(q, {"login"})
    BY <1>3 DEF Cleared
  <2>2. QED
    BY <1>3, <1>5, <2>1 DEF Cleared
<1>9. SyncTold(t)'
  BY <1>3, <1>5 DEF SyncTold, InCampaign, ShellKinds
<1>10. QED
  BY <1>2, <1>7, <1>8, <1>9 DEF Waits

(* In the campaign the poll sends a sync, or a window sends a command.     *)
LEMMA PlayAwait ==
  ASSUME AwaitInv, Kinds \in Seq(AllKinds), NEW k \in {"sync"} \cup Lanes, Kinds' = Append(Kinds, k),
         InCampaign, UNCHANGED <<shell, clears, booted, inbox, worker>>,
         k = "sync" => ~sync.inFlight /\ sync'.inFlight,
         k # "sync" => sync'.inFlight = sync.inFlight
  PROVE  AwaitInv'
<1>1. Starting'
  BY DEF AwaitInv, Starting
<1> SUFFICES ASSUME clears <= 1, worker # "gone" PROVE Waits(Kinds)'
  BY <1>1 DEF AwaitInv
<1>2. PICK q : q = Kinds
  OBVIOUS
<1>3. PICK t : t = Kinds'
  OBVIOUS
<1>4. ShellTold(q) /\ Cleared(q) /\ SyncTold(q)
  BY <1>2 DEF AwaitInv, Waits
<1>5. q \in Seq(AllKinds) /\ t = Append(q, k) /\ k \in AllKinds /\ k \notin ShellKinds
  BY <1>2, <1>3, KindsApart DEF AllKinds, ShellKinds
<1>6. /\ \A K : Some(t, K) <=> Some(q, K) \/ k \in K
      /\ \A K : OnlyOne(q, K) /\ (k \in K => ~Some(q, K)) => OnlyOne(t, K)
      /\ \A a, K : NeverAfter(q, a, K) /\ (k \in K => ~Some(q, {a})) => NeverAfter(t, a, K)
  BY <1>5, AppendKinds
<1>7. ShellTold(t)' /\ Cleared(t)'
  BY <1>4, <1>5, <1>6 DEF ShellTold, Cleared, Told, InCampaign, ShellKinds
<1>8. SyncTold(t)'
  <2>1. ~Some(q, {"bootstrap"})
    <3>1. ~Some(q, ShellKinds)
      BY <1>4 DEF ShellTold, SyncTold, Told, InCampaign
    <3>2. QED
      BY <3>1, FewerKinds DEF ShellKinds
  <2>2. NeverAfter(t, "bootstrap", {"sync"})
    BY <1>4, <1>6, <2>1 DEF SyncTold
  <2>3. ~shell.inFlight /\ OnlyOne(q, {"sync"}) /\ (Some(q, {"sync"}) => sync.inFlight)
    BY <1>4 DEF SyncTold, Told
  <2>4. OnlyOne(t, {"sync"}) /\ (Some(t, {"sync"}) => sync'.inFlight)
    <3>1. CASE k = "sync"
      BY <1>6, <2>3, <3>1
    <3>2. CASE k # "sync"
      BY <1>6, <2>3, <3>2
    <3>3. QED
      BY <3>1, <3>2
  <2>5. QED
    BY <2>2, <2>3, <2>4 DEF SyncTold, Told
<1>9. QED
  BY <1>3, <1>7, <1>8 DEF Waits

(* Clearing the session leaves at most one answer to it on the way, and no *)
(* login, which only an authenticating shell waits for; going back to the  *)
(* selection changes nothing that is waited for.                           *)
LEMMA LeaveAwait ==
  ASSUME IndInv, AwaitInv, Kinds \in Seq(AllKinds), Kinds' = Kinds, ClickClear \/ ClickBack
  PROVE  AwaitInv'
<1>1. UNCHANGED <<sync, booted, worker, inbox>> /\ booted /\ shell \in ShellState /\ clears \in Nat
  BY DEF ClickClear, ClickBack, Draw, IndInv, TypeOK
<1>2. PICK q : q = Kinds
  OBVIOUS
<1>3. CASE ClickClear
  <2>1. /\ ~shell'.session /\ shell'.phase = "Login" /\ ~shell'.handoff /\ clears' = clears + 1
        /\ shell.phase \in {"CharacterSelect", "Bootstrapping"}
    BY <1>1, <1>3 DEF ClickClear, Selecting, ShellState
  <2>2. Starting'
    BY <1>1, <2>1 DEF Starting
  <2> SUFFICES ASSUME clears' <= 1, worker # "gone" PROVE Waits(Kinds)'
    BY <1>1, <2>2 DEF AwaitInv
  <2>3. clears = 0 /\ clears' = 1
    BY <1>1, <2>1
  <2>4. ShellTold(q) /\ SyncTold(q)
    BY <1>2, <2>3 DEF AwaitInv, Waits
  <2>5. OnlyOne(q, ShellKinds) /\ ~Some(q, {"login"})
    BY <2>1, <2>3, <2>4 DEF ShellTold, Told
  <2>6. /\ OnlyOne(q, {"characters", "bootstrap"}) /\ OnlyOne(q, {"login"})
        /\ NeverAfter(q, "login", ShellKinds)
    <3>1. /\ {"characters", "bootstrap"} \subseteq ShellKinds /\ {"login"} \subseteq ShellKinds
          /\ "login" \in ShellKinds
      BY DEF ShellKinds
    <3>2. QED
      BY <1>2, <2>5, <3>1, FewerKinds, OneIsLast
  <2>7. QED
    BY <1>2, <2>1, <2>3, <2>4, <2>5, <2>6 DEF Waits, ShellTold, Cleared, SyncTold, InCampaign
<1>4. CASE ClickBack
  <2>1. /\ shell.phase = "CampaignReady" /\ shell'.phase = "CharacterSelect" /\ clears' = clears
        /\ shell'.session = shell.session /\ shell'.inFlight = shell.inFlight
        /\ shell'.handoff = shell.handoff
    BY <1>1, <1>4 DEF ClickBack, ShellState
  <2>2. Starting'
    BY <1>1, <2>1 DEF AwaitInv, Starting
  <2> SUFFICES ASSUME clears <= 1, worker # "gone" PROVE Waits(Kinds)'
    BY <1>1, <2>1, <2>2 DEF AwaitInv
  <2>3. ShellTold(q) /\ Cleared(q) /\ SyncTold(q)
    BY <1>2 DEF AwaitInv, Waits
  <2>4. QED
    BY <1>2, <2>1, <2>3 DEF Waits, ShellTold, Cleared, SyncTold, InCampaign
<1>5. QED
  BY <1>3, <1>4

(* The answer to the poll, or to a command, is not waited for any longer.  *)
LEMMA PlayedAwait ==
  ASSUME AwaitInv, Kinds \in Seq(AllKinds), Kinds # <<>>, Kinds' = Tail(Kinds),
         UNCHANGED <<shell, clears, booted, worker>>, booted,
         Head(Kinds) = "sync" \/ sync'.inFlight = sync.inFlight
  PROVE  AwaitInv'
<1>1. Starting'
  BY DEF AwaitInv, Starting
<1> SUFFICES ASSUME clears <= 1, worker # "gone" PROVE Waits(Kinds)'
  BY <1>1 DEF AwaitInv
<1>2. PICK q : q = Kinds
  OBVIOUS
<1>3. PICK t : t = Kinds'
  OBVIOUS
<1>4. ShellTold(q) /\ Cleared(q) /\ SyncTold(q)
  BY <1>2 DEF AwaitInv, Waits
<1>5. /\ \A K : Some(t, K) => Some(q, K)
      /\ \A K : OnlyOne(q, K) => OnlyOne(t, K) /\ (Head(q) \in K => ~Some(t, K))
      /\ \A a, K : NeverAfter(q, a, K) => NeverAfter(t, a, K)
  BY <1>2, <1>3, TailKinds
<1>6. ShellTold(t)' /\ Cleared(t)'
  BY <1>4, <1>5 DEF ShellTold, Cleared, Told
<1>7. SyncTold(t)'
  BY <1>2, <1>4, <1>5 DEF SyncTold, Told, InCampaign
<1>8. QED
  BY <1>3, <1>6, <1>7 DEF Waits

(* An answer to the shell is the only one it waited for: what it asks for  *)
(* next, if anything, is the only one again.                               *)
LEMMA AnsweredAwait ==
  ASSUME AwaitInv, Kinds \in Seq(AllKinds), Kinds # <<>>, Head(Kinds) \in ShellKinds,
         NEW job \in Job, job.kind = Head(Kinds), HandleShell(job),
         shell \in ShellState, clears \in Nat, UNCHANGED <<clears, booted, worker>>, booted,
         worker # "gone" => Kinds' = IF job.kind = "login" /\ job.result = "ok"
                                     THEN Append(Tail(Kinds), "characters") ELSE Tail(Kinds)
  PROVE  AwaitInv'
<1>1. /\ sync' = sync
      /\ \/ job.kind = "login" /\ shell' = LoginHandled(job)
         \/ job.kind # "login" /\ job.result # "ok" /\ shell' = FailureHandled(job)
         \/ \E c : job.kind = "characters" /\ shell' = CharactersHandled(job, c)
         \/ job.kind = "bootstrap" /\ shell' = BootstrapHandled(job)
  BY DEF HandleShell
<1> DEFINE next == job.kind = "login" /\ job.result = "ok"
(* What the handlers leave of the shell.                                   *)
<1>2. /\ shell'.handoff => shell.handoff
      /\ next => shell'.session /\ shell'.phase = "CharacterSelect" /\ (shell'.inFlight <=> Sendable)
      /\ ~next => ~shell'.inFlight
      /\ ~next /\ shell'.session # shell.session => ~shell'.session /\ shell.handoff
      /\ job.kind = "login" /\ ~next => shell'.phase = "Login"
      /\ job.kind # "login" /\ shell'.session = shell.session
           => shell'.phase \notin {"Login", "Authenticating"} \/ shell.handoff
      /\ shell'.phase = "CampaignReady" => job.kind = "bootstrap" /\ shell'.session = shell.session
  <2>1. CASE job.kind = "login" /\ shell' = LoginHandled(job)
    <3>1. CASE job.result = "ok"
      <4> DEFINE b == Sendable
      <4>1. shell' = [shell EXCEPT !.session = TRUE, !.handoff = FALSE, !.phase = "CharacterSelect",
                                   !.inFlight = b]
        BY <2>1, <3>1 DEF LoginHandled
      <4> HIDE DEF b
      <4>2. /\ shell'.session = TRUE /\ shell'.phase = "CharacterSelect" /\ shell'.inFlight = b
            /\ shell'.handoff = FALSE
        BY <4>1 DEF ShellState
      <4>3. QED
        BY <2>1, <3>1, <4>2 DEF b
    <3>2. CASE job.result # "ok"
      BY <2>1, <3>2 DEF LoginHandled, ShellState
    <3>3. QED
      BY <3>1, <3>2
  <2>2. CASE job.kind # "login" /\ shell' = FailureHandled(job)
    BY <2>2 DEF FailureHandled, ShellState
  <2>3. CASE \E c : job.kind = "characters" /\ shell' = CharactersHandled(job, c)
    BY <2>3 DEF CharactersHandled, ShellState
  <2>4. CASE job.kind = "bootstrap" /\ shell' = BootstrapHandled(job)
    BY <2>4 DEF BootstrapHandled, ShellState
  <2>5. QED
    BY <1>1, <2>1, <2>2, <2>3, <2>4
<1>3. Starting'
  BY <1>2 DEF AwaitInv, Starting
<1> SUFFICES ASSUME clears <= 1, worker # "gone" PROVE Waits(Kinds)'
  BY <1>3 DEF AwaitInv
<1>4. PICK q : q = Kinds
  OBVIOUS
<1>5. PICK t : t = Tail(Kinds)
  OBVIOUS
<1>6. ShellTold(q) /\ Cleared(q) /\ SyncTold(q) /\ (clears # 0 => ~shell.handoff)
  BY <1>4 DEF AwaitInv, Waits, Starting
<1>7. /\ t \in Seq(AllKinds)
      /\ \A K : Some(t, K) => Some(q, K)
      /\ \A K : OnlyOne(q, K) => OnlyOne(t, K) /\ (job.kind \in K => ~Some(t, K))
      /\ \A a, K : NeverAfter(q, a, K) => NeverAfter(t, a, K) /\ (job.kind = a => ~Some(t, K))
  BY <1>4, <1>5, TailKinds
(* There is no other, unless a session was cleared and the answer is one   *)
(* to that session.                                                        *)
<1>8. shell.session \/ clears = 0 \/ job.kind = "login" => ~Some(t, ShellKinds)
  <2>1. CASE shell.session \/ clears = 0
    BY <1>6, <1>7, <2>1 DEF ShellTold, Told
  <2>2. CASE ~(shell.session \/ clears = 0) /\ job.kind = "login"
    <3>1. clears = 1
      BY <2>2
    <3>2. QED
      BY <1>6, <1>7, <2>2, <3>1 DEF Cleared
  <2>3. QED
    BY <2>1, <2>2
<1>9. ~Some(t, ShellKinds) => OnlyOne(t, ShellKinds) /\ ~Some(t, {"login"})
  BY FewerKinds DEF ShellKinds
<1>10. CASE next
  <2>1. PICK u : u = Kinds'
    OBVIOUS
  <2>2. u = Append(t, "characters") /\ "characters" \in AllKinds
    BY <1>5, <1>10, <2>1 DEF AllKinds, ShellKinds
  <2>3. /\ Some(u, {"login"}) => Some(t, {"login"})
        /\ ~Some(t, ShellKinds) /\ OnlyOne(t, ShellKinds) => OnlyOne(u, ShellKinds)
        /\ NeverAfter(t, "bootstrap", {"sync"}) => NeverAfter(u, "bootstrap", {"sync"})
    <3>1. "characters" \in ShellKinds /\ "characters" \notin {"login"} /\ "characters" \notin {"sync"}
      BY DEF ShellKinds
    <3>2. /\ \A K : Some(u, K) <=> Some(t, K) \/ "characters" \in K
          /\ \A K : OnlyOne(t, K) /\ ("characters" \in K => ~Some(t, K)) => OnlyOne(u, K)
          /\ \A a, K : NeverAfter(t, a, K) /\ ("characters" \in K => ~Some(t, {a})) => NeverAfter(u, a, K)
      BY <1>7, <2>2, AppendKinds
    <3>3. QED
      BY <3>1, <3>2
  <2>4. ShellTold(u)' /\ Cleared(u)'
    BY <1>2, <1>8, <1>9, <1>10, <2>3 DEF ShellTold, Cleared, Told, Sendable
  <2>5. SyncTold(u)'
    BY <1>2, <1>6, <1>7, <1>10, <2>3 DEF SyncTold, InCampaign
  <2>6. QED
    BY <2>1, <2>4, <2>5 DEF Waits
<1>11. CASE ~next
  <2>1. t = Kinds'
    BY <1>5, <1>11
  <2>2. ShellTold(t)'
    <3>1. shell'.session \/ clears = 0 => shell.session \/ clears = 0
      BY <1>2, <1>11
    <3>2. QED
      BY <1>8, <1>9, <3>1 DEF ShellTold, Told
  <2>3. Cleared(t)'
    <3> SUFFICES ASSUME clears = 1, ~shell'.session PROVE Cleared(t)'
      BY DEF Cleared
    <3>1. ~shell.session
      BY <1>2, <1>6, <1>11
    <3>2. /\ OnlyOne(t, {"characters", "bootstrap"}) /\ OnlyOne(t, {"login"})
          /\ NeverAfter(t, "login", ShellKinds)
      BY <1>6, <1>7, <3>1 DEF Cleared
    <3>3. Some(t, {"login"}) => shell'.phase \notin {"Login", "Authenticating"}
      BY <1>2, <1>6, <1>8, <1>9, <3>1
    <3>4. QED
      BY <3>2, <3>3 DEF Cleared
  <2>4. SyncTold(t)'
    <3>1. NeverAfter(t, "bootstrap", {"sync"}) /\ (job.kind = "bootstrap" => ~Some(t, {"sync"}))
      BY <1>6, <1>7 DEF SyncTold
    <3>2. ~Some(t, {"sync"}) => OnlyOne(t, {"sync"})
      BY FewerKinds
    <3>3. QED
      BY <1>2, <1>11, <3>1, <3>2 DEF SyncTold, Told, InCampaign
  <2>5. QED
    BY <2>1, <2>2, <2>3, <2>4 DEF Waits
<1>12. QED
  BY <1>10, <1>11

-----------------------------------------------------------------------------
(* The steps. *)

LEMMA InitAwait == Init => AwaitInv
<1> SUFFICES ASSUME Init PROVE AwaitInv
  OBVIOUS
<1>1. PICK handoff \in BOOLEAN, c \in Characters \cup {NoCharacter} :
        shell = [phase |-> IF handoff THEN "CharacterSelect" ELSE "Login",
                 inFlight |-> FALSE, handoff |-> handoff, session |-> handoff, roster |-> {},
                 selected |-> c, bootstrap |-> NoCharacter]
  BY DEF Init
<1>2. shell.phase # "CampaignReady" /\ ~shell.inFlight
  BY <1>1
<1>3. inbox = <<>> /\ responses = <<>> /\ working = <<>> /\ requests = <<>> /\ clears = 0
  BY DEF Init
<1>4. Kinds = <<>>
  BY <1>3 DEF Kinds, Pipeline, KindsIn
<1>5. \A K : ~Some(<<>>, K) /\ OnlyOne(<<>>, K) /\ \A a : NeverAfter(<<>>, a, K)
  BY DEF Some, OnlyOne, NeverAfter
<1>6. QED
  BY <1>2, <1>3, <1>4, <1>5 DEF AwaitInv, Starting, Waits, ShellTold, Cleared, SyncTold, Told, InCampaign

(* Once the worker is gone nothing is asked of the backend any more.       *)
LEMMA GoneAwait ==
  ASSUME Starting', worker' = "gone" PROVE AwaitInv'
BY DEF AwaitInv

LEMMA WorkerAwait ==
  ASSUME IndInv, IndInv', AwaitInv,
         \/ WorkerStarts \/ WorkerFails \/ Take \/ Serve \/ Reply \/ CallFails
         \/ WorldTick \/ WorldRestart \/ Elapse \/ Collect
  PROVE  AwaitInv'
<1>1. shell \in ShellState
  BY DEF IndInv, TypeOK
<1>2. CASE WorkerFails
  <2>1. UNCHANGED <<shell, booted, inbox, clears>> /\ worker' = "gone"
    BY <1>2 DEF WorkerFails
  <2>2. Starting'
    BY <2>1 DEF AwaitInv, Starting
  <2>3. QED
    BY <2>1, <2>2, GoneAwait
<1>3. CASE Collect
  <2>1. /\ shell' = [shell EXCEPT !.inFlight = @ /\ worker # "gone"] /\ booted
        /\ UNCHANGED <<sync, clears, booted, worker>>
    BY <1>3 DEF Collect
  <2>2. CASE worker = "gone"
    <3>1. Starting'
      BY <1>1, <2>1 DEF AwaitInv, Starting, ShellState
    <3>2. QED
      BY <2>1, <2>2, <3>1, GoneAwait
  <2>3. CASE worker # "gone"
    <3>1. /\ shell'.session = shell.session /\ shell'.inFlight = shell.inFlight
          /\ shell'.phase = shell.phase /\ shell'.handoff = shell.handoff
      BY <1>1, <2>1, <2>3 DEF ShellState
    <3>2. QED
      BY <1>3, <2>1, <3>1, MovedKinds, QuietAwait
  <2>4. QED
    BY <2>2, <2>3
<1>4. CASE Elapse
  <2>1. sync'.inFlight = sync.inFlight
    <3>1. sync \in SyncState /\ \E a, b, c : sync' = [sync EXCEPT !.wait = a, !.since = b, !.shown = c]
      BY <1>4 DEF Elapse, IndInv, TypeOK
    <3>2. QED
      BY <3>1 DEF SyncState
  <2>2. UNCHANGED <<shell, clears, booted, worker, inbox>>
    BY <1>4 DEF Elapse
  <2>3. QED
    BY <1>4, <2>1, <2>2, MovedKinds, QuietAwait
<1>5. CASE WorkerStarts \/ Take \/ Serve \/ Reply \/ CallFails \/ WorldTick \/ WorldRestart
  <2>1. Kinds' = Kinds
    BY <1>5, MovedKinds
  <2>2. UNCHANGED <<shell, sync, clears, booted, inbox>> /\ (worker' = worker \/ worker # "gone")
    BY <1>5 DEF WorkerStarts, Take, Serve, Reply, CallFails, WorldTick, WorldRestart, channels
  <2>3. QED
    BY <2>1, <2>2, QuietAwait
<1>6. QED
  BY <1>2, <1>3, <1>4, <1>5

LEMMA StartupAwait ==
  ASSUME IndInv, IndInv', AwaitInv, Startup PROVE AwaitInv'
<1>1. /\ ~booted /\ booted' /\ UNCHANGED <<sync, working, responses, inbox, worker, clears>>
      /\ shell \in ShellState /\ Kinds \in Seq(AllKinds)
  BY Channels DEF Startup, IndInv, TypeOK
<1>2. ~shell.inFlight /\ shell.phase # "CampaignReady" /\ clears = 0
  BY <1>1 DEF AwaitInv, Starting
<1>3. Starting'
  BY <1>1, <1>2 DEF Starting
<1>4. CASE ~shell.session
  <2>1. UNCHANGED <<shell, requests>>
    BY <1>4 DEF Startup
  <2>2. Kinds' = Kinds
    BY <1>1, <2>1 DEF Kinds, Pipeline
  <2>3. ASSUME clears' <= 1, worker' # "gone" PROVE Waits(Kinds)'
    <3>1. Waits(Kinds)
      BY <1>1, <2>3 DEF AwaitInv
    <3>2. QED
      BY <1>1, <2>1, <2>2, <3>1 DEF Waits, ShellTold, Cleared, SyncTold, Told, InCampaign
  <2>4. QED
    BY <1>3, <2>3 DEF AwaitInv
<1>5. CASE shell.session /\ worker = "gone"
  BY <1>1, <1>3, <1>5, GoneAwait
<1>6. CASE shell.session /\ worker # "gone"
  <2> DEFINE job == Request("characters", NoCharacter)
  <2>1. job \in Job /\ job.kind = "characters" /\ "characters" \in ShellKinds
    BY RequestFields DEF ShellKinds
  <2>2. requests' = Queued(requests, job) /\ shell' = [shell EXCEPT !.inFlight = TRUE]
    BY <1>6 DEF Startup, Sendable
  <2> HIDE DEF job
  <2>3. Kinds' = Append(Kinds, "characters")
    BY <1>1, <1>6, <2>1, <2>2, SentKinds
  <2>4. shell'.inFlight /\ shell'.session = shell.session /\ shell'.phase = shell.phase
    BY <1>1, <2>2 DEF ShellState
  <2>5. QED
    BY <1>1, <1>2, <1>3, <1>6, <2>1, <2>3, <2>4, AskAwait
<1>7. QED
  BY <1>4, <1>5, <1>6

LEMMA HandleAwait ==
  ASSUME IndInv, IndInv', AwaitInv, Handle PROVE AwaitInv'
<1> DEFINE job == Head(inbox)
<1>1. /\ inbox # <<>> /\ inbox' = Tail(inbox)
      /\ UNCHANGED <<working, responses, worker, booted, clears>>
      /\ HandleShell(job) \/ HandleSync(job) \/ HandleCommand(job)
  BY DEF Handle
<1>2. /\ shell \in ShellState /\ clears \in Nat /\ booted /\ job \in Job /\ sync \in SyncState
      /\ Kinds \in Seq(AllKinds)
  BY <1>1, Handling, Channels DEF AwaitInv, Starting, IndInv, TypeOK
<1>3. /\ Kinds # <<>> /\ job.kind = Head(Kinds)
      /\ requests' = requests => Kinds' = Tail(Kinds)
      /\ \A j \in Job : requests' = Append(requests, j) => Kinds' = Append(Tail(Kinds), j.kind)
  BY <1>1, HandledKinds
<1> HIDE DEF job
<1>4. CASE HandleShell(job)
  <2> DEFINE next == Request("characters", NoCharacter)
  <2>1. next \in Job /\ next.kind = "characters"
    BY RequestFields DEF ShellKinds
  <2>2. /\ job.kind \in ShellKinds
        /\ requests' = IF job.kind = "login" /\ job.result = "ok" THEN Queued(requests, next) ELSE requests
    BY <1>4 DEF HandleShell
  <2> HIDE DEF next
  <2>3. worker # "gone" => Kinds' = IF job.kind = "login" /\ job.result = "ok"
                                    THEN Append(Tail(Kinds), "characters") ELSE Tail(Kinds)
    BY <1>3, <2>1, <2>2 DEF Queued, Sendable
  <2>4. QED
    BY <1>1, <1>2, <1>3, <1>4, <2>2, <2>3, AnsweredAwait
<1>5. CASE HandleSync(job) \/ HandleCommand(job)
  <2>1. /\ UNCHANGED <<shell, requests>>
        /\ job.kind = "sync" \/ sync' = sync
    BY <1>5 DEF HandleSync, HandleCommand
  <2>2. QED
    BY <1>1, <1>2, <1>3, <2>1, PlayedAwait
<1>6. QED
  BY <1>1, <1>4, <1>5

LEMMA DriveAwait ==
  ASSUME IndInv, IndInv', AwaitInv, Drive PROVE AwaitInv'
<1>1. /\ booted /\ UNCHANGED <<shell, working, responses, inbox, worker, booted, clears>>
      /\ shell \in ShellState /\ sync \in SyncState /\ Kinds \in Seq(AllKinds)
  BY Channels DEF Drive, IndInv, TypeOK
<1>2. CASE InCampaign /\ PollDue
  <2> DEFINE job == Request("sync", SyncCharacter)
  <2>1. SyncCharacter \in Characters \cup {NoCharacter} /\ ~sync.inFlight
    BY <1>1, <1>2 DEF ShellState, SyncCharacter, PollDue
  <2>2. job \in Job /\ job.kind = "sync"
    BY <2>1, RequestFields
  <2>3. worker # "gone"
    BY <1>2 DEF IndInv, WorkerCoherent, InCampaign
  <2>4. requests' = Queued(requests, job) /\ sync' = [sync EXCEPT !.inFlight = TRUE]
    BY <1>2, <2>3 DEF Drive, Sendable
  <2> HIDE DEF job
  <2>5. Kinds' = Append(Kinds, "sync")
    BY <1>1, <2>2, <2>3, <2>4, SentKinds
  <2>6. sync'.inFlight
    BY <1>1, <2>4 DEF SyncState
  <2>7. QED
    BY <1>1, <1>2, <2>1, <2>5, <2>6, PlayAwait
<1>3. CASE ~(InCampaign /\ PollDue)
  <2>1. requests' = requests /\ (sync' = sync \/ ~InCampaign)
    BY <1>3 DEF Drive
  <2>2. Kinds' = Kinds
    BY <1>1, <2>1 DEF Kinds, Pipeline
  <2>3. QED
    BY <1>1, <2>1, <2>2, QuietAwait
<1>4. QED
  BY <1>2, <1>3

LEMMA ClickAwait ==
  ASSUME IndInv, IndInv', AwaitInv, Click PROVE AwaitInv'
<1>1. /\ booted /\ UNCHANGED <<sync, working, responses, inbox, worker, booted>>
      /\ shell \in ShellState /\ Kinds \in Seq(AllKinds)
  BY Channels DEF Click, ClickLogin, ClickCharacter, ClickEnter, ClickRefresh, ClickClear, ClickBack,
     ClickStart, ClickOrder, ClickPanel, Command, Draw, IndInv, TypeOK
<1>2. requests' = requests => Kinds' = Kinds
  BY <1>1 DEF Kinds, Pipeline
(* A request of the shell.                                                 *)
<1>3. ASSUME NEW kind \in ShellKinds, NEW c \in Characters \cup {NoCharacter}, NEW phase, NEW sent,
             sent = [shell EXCEPT !.phase = phase, !.inFlight = TRUE],
             Dispatch(Request(kind, c), sent), ~shell.inFlight, phase # "CampaignReady",
             kind = "login" => phase = "Authenticating" /\ shell.phase \in {"Login", "Authenticating"},
             kind # "login" => shell.session
      PROVE  AwaitInv'
  <2> DEFINE job == Request(kind, c)
  <2>1. job \in Job /\ job.kind = kind
    BY RequestFields
  <2>2. /\ requests' = Queued(requests, job) /\ clears' = clears
        /\ shell' = IF worker # "gone" THEN sent ELSE shell
    BY <1>3 DEF Dispatch, Sendable
  <2> HIDE DEF job
  <2>3. /\ sent.inFlight /\ sent.session = shell.session /\ sent.phase = phase
        /\ sent.handoff = shell.handoff
    BY <1>1, <1>3 DEF ShellState
  <2>4. Starting'
    BY <1>1, <2>2, <2>3 DEF AwaitInv, Starting
  <2>5. CASE worker = "gone"
    BY <1>1, <2>4, <2>5, GoneAwait
  <2>6. CASE worker # "gone"
    <3>1. Kinds' = Append(Kinds, kind)
      BY <1>1, <2>1, <2>2, <2>6, SentKinds
    <3>2. QED
      BY <1>1, <1>3, <2>2, <2>3, <2>4, <2>6, <3>1, AskAwait
  <2>7. QED
    BY <2>5, <2>6
<1>4. CASE ClickLogin
  BY <1>3, <1>4 DEF ClickLogin, ShellKinds
<1>5. CASE ClickEnter
  <2> DEFINE sent == [shell EXCEPT !.phase = "Bootstrapping", !.inFlight = TRUE]
  <2>1. /\ Dispatch(Request("bootstrap", shell.selected), sent) /\ ~shell.inFlight /\ shell.session
        /\ shell.selected \in Characters \cup {NoCharacter}
    BY <1>1, <1>5 DEF ClickEnter, ShellState
  <2>2. PICK p, x : p = "Bootstrapping" /\ x = [shell EXCEPT !.phase = p, !.inFlight = TRUE] /\ x = sent
    OBVIOUS
  <2> HIDE DEF sent
  <2>3. /\ "bootstrap" \in ShellKinds /\ "bootstrap" # "login" /\ p # "CampaignReady"
        /\ Dispatch(Request("bootstrap", shell.selected), x)
    BY <2>1, <2>2 DEF ShellKinds
  <2>4. QED
    BY <1>3, <2>1, <2>2, <2>3
<1>6. CASE ClickRefresh
  <2> DEFINE phase == IF shell.phase = "CampaignReady" THEN "CharacterSelect" ELSE shell.phase
             sent == [shell EXCEPT !.phase = phase, !.inFlight = TRUE]
  <2>1. Dispatch(Request("characters", NoCharacter), sent) /\ ~shell.inFlight /\ shell.session
    BY <1>6 DEF ClickRefresh
  <2>2. phase # "CampaignReady"
    OBVIOUS
  <2>3. PICK p, x : p = phase /\ x = [shell EXCEPT !.phase = p, !.inFlight = TRUE] /\ x = sent
    OBVIOUS
  <2> HIDE DEF phase, sent
  <2>4. QED
    BY <1>3, <2>1, <2>2, <2>3 DEF ShellKinds
<1>7. CASE ClickCharacter
  <2>1. /\ requests' = requests /\ clears' = clears
        /\ \E c : shell' = [shell EXCEPT !.selected = c]
    BY <1>7 DEF ClickCharacter
  <2>2. /\ shell'.session = shell.session /\ shell'.inFlight = shell.inFlight
        /\ shell'.phase = shell.phase /\ shell'.handoff = shell.handoff
    BY <1>1, <2>1 DEF ShellState
  <2>3. QED
    BY <1>1, <1>2, <2>1, <2>2, QuietAwait
<1>8. CASE ClickClear \/ ClickBack
  <2>1. requests' = requests
    BY <1>8 DEF ClickClear, ClickBack
  <2>2. QED
    BY <1>1, <1>2, <1>8, <2>1, LeaveAwait
<1>9. ASSUME NEW lane, Command(lane) PROVE AwaitInv'
  <2> DEFINE job == Request(lane, shell.bootstrap)
  <2>1. /\ InCampaign /\ lane \in Lanes /\ requests' = Queued(requests, job)
        /\ UNCHANGED <<shell, clears>>
    BY <1>9 DEF Command
  <2>2. job \in Job /\ job.kind = lane /\ lane # "sync"
    BY <1>1, <2>1, RequestFields, KindsApart DEF ShellState
  <2>3. worker # "gone"
    BY <2>1 DEF IndInv, WorkerCoherent, InCampaign
  <2> HIDE DEF job
  <2>4. Kinds' = Append(Kinds, lane)
    BY <1>1, <2>1, <2>2, <2>3, SentKinds
  <2>5. QED
    BY <1>1, <2>1, <2>2, <2>4, PlayAwait
<1>10. QED
  BY <1>4, <1>5, <1>6, <1>7, <1>8, <1>9 DEF Click, ClickStart, ClickOrder, ClickPanel

(* In the campaign the worker runs, and one sync or none is under way.     *)
LEMMA AwaitedSyncs ==
  ASSUME IndInv, AwaitInv PROVE SyncsAwaited
<1> SUFFICES ASSUME clears <= 1, InCampaign
             PROVE  Cardinality(Syncs) <= IF sync.inFlight THEN 1 ELSE 0
  BY DEF SyncsAwaited
<1>1. worker = "running"
  BY DEF IndInv, WorkerCoherent, InCampaign
<1>2. OnlyOne(Kinds, {"sync"}) /\ (Some(Kinds, {"sync"}) => sync.inFlight)
  BY <1>1 DEF AwaitInv, Waits, SyncTold, Told
<1>3. Pipeline \in Seq(Job)
  <2>1. inbox \in Seq(Job) /\ responses \in Seq(Job) /\ working \in Seq(Job) /\ requests \in Seq(Job)
    BY DEF IndInv, TypeOK
  <2>2. QED
    BY <2>1, FourKinds DEF Pipeline, Then
<1>4. Len(Kinds) = Len(Pipeline) /\ \A i \in 1..Len(Pipeline) : Kinds[i] = Pipeline[i].kind
  BY <1>3, KindsType DEF Kinds
<1>5. CASE Syncs = {}
  BY <1>5, FS_EmptySet
<1>6. CASE Syncs # {}
  <2>1. PICK i : i \in Syncs
    BY <1>6
  <2>2. Some(Kinds, {"sync"})
    BY <1>4, <2>1 DEF Syncs, Some
  <2>3. Syncs = {i}
    BY <1>2, <1>4, <2>1 DEF Syncs, OnlyOne
  <2>4. Cardinality(Syncs) = 1
    BY <2>3, FS_Singleton
  <2>5. QED
    BY <1>2, <2>2, <2>4
<1>7. QED
  BY <1>5, <1>6

(* A client in the campaign awaits every world sync under way, and there   *)
(* is one at most, whatever it has left, entered or asked for before.      *)
THEOREM Awaited == Spec => []SyncsAwaited
<1>1. ASSUME IndInv, IndInv', AwaitInv, [Next]_vars PROVE AwaitInv'
  <2>1. CASE Next
    BY <1>1, <2>1, WorkerAwait, StartupAwait, HandleAwait, DriveAwait, ClickAwait DEF Next
  <2>2. CASE UNCHANGED vars
    <3>1. UNCHANGED <<shell, sync, clears, booted, worker, inbox>> /\ Kinds' = Kinds
      BY <2>2 DEF vars, channels, Kinds, Pipeline
    <3>2. QED
      BY <1>1, <3>1, QuietAwait
  <2>3. QED
    BY <1>1, <2>1, <2>2
<1>2. IndInv /\ AwaitInv => SyncsAwaited
  BY AwaitedSyncs
<1>3. QED
  BY <1>1, <1>2, InitAwait, Coherence, PTL DEF Spec

-----------------------------------------------------------------------------
(* Entering the world: the inductive invariant.                            *)

(* The xp that a character's level and experience stand for.               *)
Worth(row) == (row.level - 1) * XpToLevelup + row.experience

(* A character that a request may write was there, and is its user's.      *)
Theirs(c, s) == chars[c] # None /\ (Exists(c) => chars[c].user = UserOf[s])

(* What the columns and the step of a request have to do with each other.  *)
StepSound(w) ==
  /\ w.step # "create" => Theirs(w.char, w.session)
  /\ \A c \in w.deselect : Theirs(c, w.session)
  /\ w.step \notin {"select", "bootstrap", "selected"}
       => "selected" \notin DOMAIN w.columns /\ w.deselect = {}
  /\ w.step # "action" => {"level", "experience"} \cap DOMAIN w.columns = {} /\ w.xp = 0
  /\ w.step = "action" => w.nonce \in Nonces
  /\ w.step \in {"bootstrap", "selected"} => w.level \in Levels
  /\ w.step # "enter" => DOMAIN w.inst = {}

(* A request that nothing has crossed would leave its user with one        *)
(* selected character, its character with the xp granted, and no instance  *)
(* expired before its time.                                                *)
SelectionSound(w) ==
  ~w.crossed /\ w.step \in {"select", "bootstrap"}
    => SelectedOf(UserOf[w.session]) \subseteq w.deselect \cup {w.char}
RewardSound(w) ==
  ~w.crossed /\ w.step = "action" /\ Exists(w.char) /\ w.char \notin torn
    => Worth(Over(chars[w.char], w.columns)) = earned[w.char] + w.xp
ExpirySound(w) ==
  ~w.crossed => \A i \in DOMAIN w.inst : LET row == Over(instances[i], w.inst[i])
                                         IN row.status = "expired" => row.due

Sound(w) == StepSound(w) /\ SelectionSound(w) /\ RewardSound(w) /\ ExpirySound(w)
RequestsSound == \A r \in Requests : req[r] # None => Sound(req[r])

(* A rewarded action has its row, as long as its character is there; a     *)
(* character that never was has earned nothing.                            *)
RewardsKnown == \A a \in DOMAIN rewards : rewards[a] # 0 => a \in actions \/ chars[a.char] = Deleted
NothingEarned == \A c \in Names : chars[c] = None => earned[c] = 0

EntryInv ==
  /\ EntryTypeOK /\ RequestsSound /\ RewardsKnown /\ NothingEarned
  /\ OneSelected /\ ExpiredIsDue /\ RewardedOnce /\ EarnedIsKept

(* What a row is after the columns of a request are written.               *)
LEMMA OverFacts ==
  ASSUME NEW row \in Character, NEW x, CharacterColumns(x)
  PROVE  /\ Over(row, x) \in Character /\ Over(row, x).user = row.user
         /\ "selected" \notin DOMAIN x => Over(row, x).selected = row.selected
         /\ {"level", "experience"} \cap DOMAIN x = {}
              => Over(row, x).level = row.level /\ Over(row, x).experience = row.experience
<1>1. Over(row, x) = [user |-> row.user,
                      level_id |-> IF "level_id" \in DOMAIN x THEN x["level_id"] ELSE row.level_id,
                      selected |-> IF "selected" \in DOMAIN x THEN x["selected"] ELSE row.selected,
                      level |-> IF "level" \in DOMAIN x THEN x["level"] ELSE row.level,
                      experience |-> IF "experience" \in DOMAIN x THEN x["experience"] ELSE row.experience]
  <2>1. DOMAIN row = {"user", "level_id", "selected", "level", "experience"}
    BY DEF Character
  <2>2. "user" \notin DOMAIN x
    BY DEF CharacterColumns
  <2>3. QED
    BY <2>1, <2>2 DEF Over
<1>2. Over(row, x) \in Character
  BY <1>1 DEF Character, CharacterColumns
<1>3. QED
  BY <1>1, <1>2

(* What a row is worth after some columns are written depends on what it   *)
(* was worth alone.                                                        *)
LEMMA OverWorth ==
  ASSUME NEW row \in Character, NEW new \in Character, row.level = new.level, row.experience = new.experience, NEW x
  PROVE  Worth(Over(row, x)) = Worth(Over(new, x))
<1>1. DOMAIN row = DOMAIN new /\ {"level", "experience"} \subseteq DOMAIN row
  BY DEF Character
<1>2. Over(row, x).level = Over(new, x).level /\ Over(row, x).experience = Over(new, x).experience
  BY <1>1 DEF Over
<1>3. QED
  BY <1>2 DEF Worth

LEMMA OverSession ==
  ASSUME NEW s \in Sessions, EntryTypeOK, NEW x, SessionColumns(x)
  PROVE  Over(sessions[s], x) \in [char : Names \cup {None}, level : Levels \cup {None},
                                   instance : Instances \cup {None}, party : PartyIds \cup {None}]
<1>1. PICK row : row = sessions[s]
  OBVIOUS
<1>2. row \in [char : Names \cup {None}, level : Levels \cup {None},
               instance : Instances \cup {None}, party : PartyIds \cup {None}]
  BY <1>1 DEF EntryTypeOK
<1>3. Over(row, x) = [char |-> IF "char" \in DOMAIN x THEN x["char"] ELSE row.char,
                      level |-> IF "level" \in DOMAIN x THEN x["level"] ELSE row.level,
                      instance |-> IF "instance" \in DOMAIN x THEN x["instance"] ELSE row.instance,
                      party |-> IF "party" \in DOMAIN x THEN x["party"] ELSE row.party]
  BY <1>2 DEF Over
<1>4. QED
  BY <1>1, <1>2, <1>3 DEF SessionColumns

LEMMA OverInstance ==
  ASSUME NEW row \in WorldInstance, NEW x, InstanceColumns(x)
  PROVE  /\ Over(row, x) \in WorldInstance
         /\ Over(row, x).status = IF "status" \in DOMAIN x THEN x["status"] ELSE row.status
         /\ "due" \notin DOMAIN x => Over(row, x).due = row.due
<1>1. Over(row, x) = [status |-> IF "status" \in DOMAIN x THEN x["status"] ELSE row.status,
                      due |-> IF "due" \in DOMAIN x THEN x["due"] ELSE row.due]
  BY DEF Over, WorldInstance
<1>2. "due" \in DOMAIN x => x["due"] = FALSE
  BY DEF InstanceColumns
<1>3. Over(row, x) = [status |-> IF "status" \in DOMAIN x THEN x["status"] ELSE row.status,
                      due |-> IF "due" \in DOMAIN x THEN FALSE ELSE row.due]
  BY <1>1, <1>2, Zenon
<1>4. row.status \in {"none", "active", "expired"} /\ row.due \in BOOLEAN
  BY DEF WorldInstance
<1>5. (IF "status" \in DOMAIN x THEN x["status"] ELSE row.status) \in {"none", "active", "expired"}
  BY <1>4 DEF InstanceColumns
<1>6. (IF "due" \in DOMAIN x THEN FALSE ELSE row.due) \in BOOLEAN
  BY <1>4, Zenon
<1>7. ASSUME NEW st \in {"none", "active", "expired"}, NEW du \in BOOLEAN
      PROVE  [status |-> st, due |-> du] \in WorldInstance
  BY DEF WorldInstance
<1>8. QED
  <2>1. Over(row, x) \in WorldInstance
    BY <1>3, <1>5, <1>6, <1>7, Zenon
  <2>2. QED
    BY <1>1, <2>1

-----------------------------------------------------------------------------
(* Requests are prepared.                                                  *)

LEMMA ReplaceSound ==
  ASSUME EntryInv, NEW r \in Requests, NEW w, w # None => EntryRequest(w) /\ Sound(w),
         req' = [req EXCEPT ![r] = w], begun' \in 0..MaxRequests,
         UNCHANGED <<chars, sessions, instances, members, actions, party, rewards, earned, torn, elapsed>>
  PROVE  EntryInv'
<1>1. \A q \in Requests : req'[q] = IF q = r THEN w ELSE req[q]
  BY DEF EntryInv, EntryTypeOK
<1>2. EntryTypeOK'
  <2>1. req' = [q \in Requests |-> req'[q]]
    BY DEF EntryInv, EntryTypeOK
  <2>2. \A q \in Requests : req'[q] # None => EntryRequest(req'[q])
    BY <1>1 DEF EntryInv, EntryTypeOK
  <2>3. QED
    BY <2>1, <2>2 DEF EntryInv, EntryTypeOK, EntryRequest
<1>3. RequestsSound'
  <2> SUFFICES ASSUME NEW q \in Requests, req'[q] # None PROVE Sound(req[q])'
    BY DEF RequestsSound
  <2>1. PICK v : v = req'[q]
    OBVIOUS
  <2>2. Sound(v)
    BY <1>1, <2>1 DEF EntryInv, RequestsSound
  <2>3. QED
    BY <2>1, <2>2 DEF Sound, StepSound, SelectionSound, RewardSound, ExpirySound, Theirs, Exists,
                      SelectedOf, Owned
<1>4. QED
  BY <1>2, <1>3 DEF EntryInv, RewardsKnown, NothingEarned, OneSelected, ExpiredIsDue, RewardedOnce,
                    EarnedIsKept, Exists, SelectedOf, Owned

LEMMA PrepareSound ==
  ASSUME EntryInv, NEW w, EntryRequest(w), Sound(w), Prepare(w)
  PROVE  EntryInv'
<1>1. PICK r \in Requests : /\ begun < MaxRequests /\ begun' = begun + 1 /\ req' = [req EXCEPT ![r] = w]
                            /\ UNCHANGED <<chars, sessions, instances, members, actions, party, rewards,
                                           earned, torn, elapsed>>
  BY DEF Prepare
<1>2. begun' \in 0..MaxRequests
  BY <1>1, WorldEntryAssumption DEF EntryInv, EntryTypeOK
<1>3. QED
  BY <1>1, <1>2, ReplaceSound

(* Each request as it is prepared. *)

LEMMA MineFacts ==
  ASSUME EntryInv, NEW s \in Sessions, NEW c \in Names, Mine(s, c)
  PROVE  Exists(c) /\ chars[c] \in Character /\ Theirs(c, s) /\ UserOf[s] = chars[c].user
<1>1. Exists(c) /\ chars[c].user = UserOf[s]
  BY DEF Mine, Owned
<1>2. QED
  BY <1>1 DEF Exists, Theirs, EntryInv, EntryTypeOK

(* The columns that differ from those of the row read: once written over   *)
(* it they give the row that was meant.                                    *)
LEMMA DiffFacts ==
  ASSUME NEW row, NEW new
  PROVE  /\ DOMAIN Diff(row, new) \subseteq DOMAIN new
         /\ \A f \in DOMAIN Diff(row, new) : Diff(row, new)[f] = new[f]
         /\ \A f \in DOMAIN new : f \notin DOMAIN Diff(row, new) => new[f] = row[f]
BY DEF Diff

LEMMA CreateSound ==
  ASSUME EntryInv, NEW s \in Sessions, NEW c \in Names, CreateCharacter(s, c)
  PROVE  EntryInv'
<1> DEFINE w == [Nothing("create", s, c) EXCEPT !.insert = c]
<1>1. EntryRequest(w)
  BY DEF Nothing, Same, EntryRequest, CharacterColumns, SessionColumns
<1>2. Sound(w)
  BY DEF Nothing, Same, Sound, StepSound, SelectionSound, RewardSound, ExpirySound
<1>3. Prepare(w)
  BY DEF CreateCharacter
<1>4. QED
  BY <1>1, <1>2, <1>3, PrepareSound

LEMMA DeleteSound ==
  ASSUME EntryInv, NEW s \in Sessions, NEW c \in Names, DeleteCharacter(s, c)
  PROVE  EntryInv'
<1> DEFINE w == Nothing("delete", s, c)
<1>1. EntryRequest(w)
  BY DEF Nothing, Same, EntryRequest, CharacterColumns, SessionColumns
<1>2. Sound(w)
  BY MineFacts DEF DeleteCharacter, Nothing, Same, Sound, StepSound, SelectionSound, RewardSound, ExpirySound
<1>3. Prepare(w)
  BY DEF DeleteCharacter
<1>4. QED
  BY <1>1, <1>2, <1>3, PrepareSound

LEMMA AssignSound ==
  ASSUME EntryInv, NEW s \in Sessions, NEW c \in Names, NEW l \in Levels \cup {None}, AssignLevel(s, c, l)
  PROVE  EntryInv'
<1> DEFINE w == [Nothing("level", s, c) EXCEPT !.columns = Diff(chars[c], [level_id |-> l])]
<1>1. DOMAIN w.columns \subseteq {"level_id"} /\ ("level_id" \in DOMAIN w.columns => w.columns["level_id"] = l)
  BY DEF Nothing, Diff
<1>2. EntryRequest(w)
  BY <1>1 DEF Nothing, Same, EntryRequest, CharacterColumns, SessionColumns
<1>3. Sound(w)
  BY <1>1, MineFacts DEF AssignLevel, Nothing, Same, Sound, StepSound, SelectionSound, RewardSound, ExpirySound
<1>4. Prepare(w)
  BY DEF AssignLevel
<1>5. QED
  BY <1>2, <1>3, <1>4, PrepareSound

LEMMA LocationSound ==
  ASSUME EntryInv, NEW s \in Sessions, NEW c \in Names, NEW l \in Levels \cup {None}, UpdateLocation(s, c, l)
  PROVE  EntryInv'
<1> DEFINE w == [Nothing("location", s, c) EXCEPT
                   !.columns = Diff(chars[c], [level_id |-> l]),
                   !.current = Diff(sessions[s], [level |-> l, char |-> c])]
<1>1. DOMAIN w.columns \subseteq {"level_id"} /\ ("level_id" \in DOMAIN w.columns => w.columns["level_id"] = l)
  BY DEF Nothing, Diff
<1>2. SessionColumns(w.current)
  BY DEF Nothing, Diff, SessionColumns
<1>3. EntryRequest(w)
  BY <1>1, <1>2 DEF Nothing, Same, EntryRequest, CharacterColumns
<1>4. Sound(w)
  BY <1>1, MineFacts DEF UpdateLocation, Nothing, Same, Sound, StepSound, SelectionSound, RewardSound, ExpirySound
<1>5. Prepare(w)
  BY DEF UpdateLocation
<1>6. QED
  BY <1>3, <1>4, <1>5, PrepareSound

(* Selecting a character, alone or as the first half of entering.          *)
LEMMA SelectedSound ==
  ASSUME EntryInv, NEW s \in Sessions, NEW c \in Names, NEW v, NEW step \in {"select", "bootstrap"},
         NEW l \in Levels \cup {None}, step = "bootstrap" => l \in Levels,
         v = [Nothing(step, s, c) EXCEPT !.level = l], Mine(s, c), NEW new,
         DOMAIN new \subseteq {"level_id", "selected"}, new["selected"] = TRUE,
         "level_id" \in DOMAIN new => new["level_id"] \in Levels, Prepare(ApplySelected(v, c, new))
  PROVE  EntryInv'
<1> DEFINE w == ApplySelected(v, c, new)
<1>0. /\ v.step = step /\ v.session = s /\ v.char = c /\ v.level = l
      /\ v.current = Same /\ v.inst = Same /\ v.xp = 0 /\ ~v.crossed
      /\ v \in [step : {step}, session : {s}, char : {c}, level : {l}, columns : {Same}, deselect : {{}},
                current : {Same}, insert : {None}, inst : {Same}, join : {None}, nonce : {None}, xp : {0},
                missing : BOOLEAN, crossed : BOOLEAN]
  BY DEF Nothing
<1>1. /\ w.step = step /\ w.session = s /\ w.char = c /\ w.level = l
      /\ w.columns = Diff(chars[c], new) /\ w.deselect = SelectedOf(chars[c].user) \ {c}
      /\ w.current = Same /\ w.inst = Same /\ w.xp = 0 /\ ~w.crossed
      /\ w \in [step : {step}, session : {s}, char : {c}, level : {l}, columns : {w.columns},
                deselect : {w.deselect}, current : {Same}, insert : {None}, inst : {Same}, join : {None},
                nonce : {None}, xp : {0}, missing : BOOLEAN, crossed : BOOLEAN]
  BY <1>0 DEF ApplySelected
<1> HIDE DEF w
<1>2. CharacterColumns(w.columns) /\ DOMAIN w.columns \subseteq {"level_id", "selected"}
  <2>1. DOMAIN w.columns \subseteq DOMAIN new /\ \A f \in DOMAIN w.columns : w.columns[f] = new[f]
    BY <1>1, DiffFacts
  <2>2. QED
    BY <2>1 DEF CharacterColumns
<1>3. w.deselect \in SUBSET Names
  BY <1>1 DEF SelectedOf, Owned
<1>4. EntryRequest(w)
  <2>1. DOMAIN Same = {} /\ SessionColumns(Same)
    BY DEF Same, SessionColumns
  <2>2. w \in [step : {"create", "select", "delete", "level", "location", "bootstrap", "selected", "enter",
                       "action"},
               session : Sessions, char : Names, level : Levels \cup {None}, columns : {w.columns},
               deselect : SUBSET Names, current : {w.current}, insert : Names \cup Instances \cup {None},
               inst : {w.inst}, join : Instances \cup {None}, nonce : Nonces \cup {None}, xp : Nat,
               missing : BOOLEAN, crossed : BOOLEAN]
    BY <1>1, <1>3
  <2>3. QED
    BY <1>1, <1>2, <2>1, <2>2 DEF EntryRequest
<1>5. StepSound(w)
  <2>1. \A d \in w.deselect : Theirs(d, s)
    BY <1>1, MineFacts, RowOrNone DEF SelectedOf, Owned, Theirs, Exists
  <2>2. QED
    BY <1>1, <1>2, <2>1, MineFacts DEF StepSound, Same
<1>6. Sound(w)
  BY <1>1, <1>5, MineFacts DEF Sound, Same, SelectionSound, RewardSound, ExpirySound
<1>7. QED
  BY <1>4, <1>6, PrepareSound DEF w

LEMMA SelectSound ==
  ASSUME EntryInv, NEW s \in Sessions, NEW c \in Names, SelectCharacter(s, c)
  PROVE  EntryInv'
<1> DEFINE new == [selected |-> TRUE]
           v == Nothing("select", s, c)
<1>1. v = [v EXCEPT !.level = None]
  <2>1. v.level = None /\ v = [f \in DOMAIN v |-> v[f]]
    BY DEF Nothing
  <2>2. \A f \in DOMAIN v : [v EXCEPT !.level = None][f] = v[f]
    BY <2>1
  <2>3. QED
    BY <2>1, <2>2
<1>2. Mine(s, c) /\ Prepare(ApplySelected(v, c, new))
  BY DEF SelectCharacter
<1>3. DOMAIN new \subseteq {"level_id", "selected"} /\ new["selected"] = TRUE /\ "level_id" \notin DOMAIN new
  OBVIOUS
<1> HIDE DEF new
<1>4. QED
  BY <1>1, <1>2, <1>3, SelectedSound

LEMMA BootstrapOverSound ==
  ASSUME EntryInv, NEW s \in Sessions, NEW c \in Names, NEW l \in Levels, BootstrapOver(s, c, l)
  PROVE  EntryInv'
<1> DEFINE new == [selected |-> TRUE]
           v == [Nothing("bootstrap", s, c) EXCEPT !.level = l]
<1>1. Mine(s, c) /\ Prepare(ApplySelected(v, c, new))
  BY DEF BootstrapOver
<1>2. DOMAIN new \subseteq {"level_id", "selected"} /\ new["selected"] = TRUE /\ "level_id" \notin DOMAIN new
  OBVIOUS
<1> HIDE DEF new
<1>3. QED
  BY <1>1, <1>2, SelectedSound

LEMMA BootstrapSound ==
  ASSUME EntryInv, NEW s \in Sessions, NEW c \in Names, Bootstrap(s, c)
  PROVE  EntryInv'
<1>1. TargetLevel(c) \in Levels
  BY MineFacts, WorldEntryAssumption DEF Bootstrap, TargetLevel, Character
<1>2. PICK l \in Levels : l = TargetLevel(c)
  BY <1>1
<1> DEFINE new == [selected |-> TRUE, level_id |-> l]
           v == [Nothing("bootstrap", s, c) EXCEPT !.level = l]
<1>3. Mine(s, c) /\ Prepare(ApplySelected(v, c, new))
  BY <1>2 DEF Bootstrap
<1>4. DOMAIN new \subseteq {"level_id", "selected"} /\ new["selected"] = TRUE /\ new["level_id"] = l
  OBVIOUS
<1> HIDE DEF new
<1>5. QED
  BY <1>3, <1>4, SelectedSound

(* A reward adds to what the character is worth.                           *)
LEMMA Euclid ==
  ASSUME NEW a \in Nat, NEW b \in Nat \ {0}
  PROVE  a = b * (a \div b) + (a % b) /\ a \div b \in Nat /\ a % b \in Nat
OBVIOUS

LEMMA Distribute ==
  ASSUME NEW l \in Nat, NEW x \in Nat, NEW q \in Nat, NEW m \in Nat
  PROVE  ((l + q) - 1) * x + m = (l - 1) * x + (x * q + m)
OBVIOUS

LEMMA ProgressionFacts ==
  ASSUME NEW row \in Character, NEW xp \in Nat, NEW total, total = row.experience + xp, NEW new,
         new.level = row.level + (total \div XpToLevelup), new.experience = total % XpToLevelup
  PROVE  new.level \in Nat /\ new.experience \in Nat /\ Worth(new) = Worth(row) + xp
<1>1. XpToLevelup \in Nat /\ XpToLevelup # 0 /\ total \in Nat /\ row.level \in Nat /\ row.experience \in Nat
  BY WorldEntryAssumption DEF Character
<1>2. /\ total = XpToLevelup * (total \div XpToLevelup) + (total % XpToLevelup)
      /\ total \div XpToLevelup \in Nat /\ total % XpToLevelup \in Nat
  BY <1>1, Euclid
<1>3. PICK l \in Nat, x \in Nat, q \in Nat, m \in Nat :
        /\ l = row.level /\ x = XpToLevelup /\ q = total \div XpToLevelup /\ m = total % XpToLevelup
        /\ total = x * q + m
  BY <1>1, <1>2
<1>4. new.level = l + q /\ new.experience = m
  BY <1>3
<1>5. ((l + q) - 1) * x + m = (l - 1) * x + (x * q + m)
  BY Distribute
<1>6. Worth(new) = ((l + q) - 1) * x + m /\ Worth(row) = (l - 1) * x + row.experience
  BY <1>3, <1>4, Zenon DEF Worth
<1>7. (l - 1) * x \in Int
  OBVIOUS
<1>8. new.level \in Nat /\ new.experience \in Nat
  BY <1>4
<1>9. QED
  BY <1>1, <1>3, <1>5, <1>6, <1>7, <1>8

LEMMA OverDiff ==
  ASSUME NEW row \in Character, NEW new, DOMAIN new = {"level", "experience"}
  PROVE  /\ Over(row, Diff(row, new)).level = new["level"]
         /\ Over(row, Diff(row, new)).experience = new["experience"]
<1>1. {"level", "experience"} \subseteq DOMAIN row
  BY DEF Character
<1>2. QED
  BY <1>1 DEF Over, Diff

LEMMA ResolveSound ==
  ASSUME EntryInv, NEW s \in Sessions, NEW c \in Names, NEW n \in Nonces, NEW xp \in Grants,
         ResolveAction(s, c, n, xp)
  PROVE  EntryInv'
<1>1. PICK row, new : row = chars[c] /\ new = Progression(c, xp)
  OBVIOUS
<1>2. row \in Character /\ xp \in Nat
  BY <1>1, MineFacts, WorldEntryAssumption DEF ResolveAction
<1>3. DOMAIN new = {"level", "experience"}
  BY <1>1 DEF Progression
<1>4. PICK total : total = row.experience + xp
  OBVIOUS
<1>5. new.level = row.level + (total \div XpToLevelup) /\ new.experience = total % XpToLevelup
  BY <1>1, <1>4 DEF Progression
<1>6. new.level \in Nat /\ new.experience \in Nat /\ Worth(new) = Worth(row) + xp
  BY <1>2, <1>4, <1>5, ProgressionFacts
<1>7. PICK diff : diff = Diff(row, new)
  OBVIOUS
<1>8. DOMAIN diff \subseteq {"level", "experience"} /\ \A f \in DOMAIN diff : diff[f] = new[f]
  BY <1>3, <1>7, DiffFacts
<1>9. Worth(Over(row, diff)) = Worth(row) + xp
  BY <1>2, <1>3, <1>6, <1>7, OverDiff DEF Worth
<1> DEFINE w == [Nothing("action", s, c) EXCEPT !.columns = diff, !.current = Diff(sessions[s], [char |-> c]),
                                                !.nonce = n, !.xp = xp]
<1>10. SessionColumns(w.current)
  BY DEF Nothing, Diff, SessionColumns
<1>11. CharacterColumns(diff)
  BY <1>6, <1>8 DEF CharacterColumns
<1>12. EntryRequest(w)
  BY <1>2, <1>10, <1>11 DEF Nothing, Same, EntryRequest
<1>13. StepSound(w)
  BY <1>8, MineFacts DEF ResolveAction, Nothing, Same, StepSound
<1>14. RewardSound(w)
  <2> SUFFICES ASSUME Exists(c), c \notin torn
               PROVE  Worth(Over(chars[c], diff)) = earned[c] + xp
    BY DEF RewardSound, Nothing
  <2>1. Worth(chars[c]) = earned[c]
    BY MineFacts DEF EntryInv, EarnedIsKept, Worth, ResolveAction
  <2>2. QED
    BY <1>1, <1>9, <2>1
<1>15. Sound(w)
  BY <1>13, <1>14 DEF Nothing, Same, Sound, SelectionSound, ExpirySound
<1>16. Prepare(w)
  BY <1>1, <1>7 DEF ResolveAction
<1>17. QED
  BY <1>12, <1>15, <1>16, PrepareSound

-----------------------------------------------------------------------------
(* The second half of entering, and requests that end.                     *)

LEMMA AssignedFacts ==
  ASSUME EntryInv, NEW i \in Instances, NEW inst, inst = Assigned(i)
  PROVE  /\ DOMAIN inst \subseteq Instances /\ \A j \in DOMAIN inst : InstanceColumns(inst[j])
         /\ \A j \in DOMAIN inst : LET row == Over(instances[j], inst[j])
                                  IN row.status = "expired" => row.due
<1>1. DOMAIN inst = Stale \cup {i} /\ DOMAIN inst \subseteq Instances
  BY DEF Assigned, Stale
<1>2. SUFFICES ASSUME NEW j \in DOMAIN inst
               PROVE  /\ InstanceColumns(inst[j])
                      /\ Over(instances[j], inst[j]).status = "expired" => Over(instances[j], inst[j]).due
  BY <1>1
<1>3. PICK row \in WorldInstance : row = instances[j]
  BY <1>1 DEF EntryInv, EntryTypeOK
<1>4. CASE j # i
  <2>1. inst[j] = [status |-> "expired"] /\ row.due = TRUE
    BY <1>1, <1>3, <1>4 DEF Assigned, Stale
  <2>2. InstanceColumns(inst[j])
    BY <2>1 DEF InstanceColumns
  <2>3. "due" \notin DOMAIN inst[j]
    BY <2>1
  <2>4. Over(row, inst[j]).due = row.due
    BY <2>2, <2>3, OverInstance
  <2>5. QED
    BY <1>3, <2>1, <2>2, <2>4
<1>5. CASE j = i /\ row.status = "active" /\ i \notin Stale
  <2>1. inst[j] = [due |-> FALSE]
    BY <1>1, <1>3, <1>5 DEF Assigned
  <2>2. InstanceColumns(inst[j]) /\ "status" \notin DOMAIN inst[j]
    BY <2>1 DEF InstanceColumns
  <2>3. Over(row, inst[j]).status = "active"
    BY <1>5, <2>2, OverInstance
  <2>4. QED
    BY <1>3, <2>2, <2>3
<1>6. CASE j = i /\ ~(row.status = "active" /\ i \notin Stale)
  <2>1. inst[j] = [status |-> "active", due |-> FALSE]
    BY <1>1, <1>3, <1>6 DEF Assigned
  <2>2. InstanceColumns(inst[j]) /\ "status" \in DOMAIN inst[j] /\ inst[j]["status"] = "active"
    BY <2>1 DEF InstanceColumns
  <2>3. Over(row, inst[j]).status = "active"
    BY <2>2, OverInstance
  <2>4. QED
    BY <1>3, <2>2, <2>3
<1>7. QED
  BY <1>4, <1>5, <1>6

LEMMA DescriptorFacts ==
  ASSUME NEW l \in Levels, NEW c \in Names, NEW p \in PartyIds \cup {None}
  PROVE  InstanceDescriptor(l, c, p) \in Instances
<1>1. CASE l \in Hubs
  BY <1>1 DEF InstanceDescriptor, Instances
<1>2. CASE l \notin Hubs /\ p # None
  BY <1>2 DEF InstanceDescriptor, Instances
<1>3. CASE l \notin Hubs /\ p = None
  BY <1>3 DEF InstanceDescriptor, Instances
<1>4. QED
  BY <1>1, <1>2, <1>3

LEMMA EnterSound ==
  ASSUME EntryInv, NEW r \in Requests, Enter(r)
  PROVE  EntryInv'
<1>1. PICK v : v = req[r] /\ v # None /\ v.step = "selected"
  BY DEF Enter
<1>2. PICK s, c, l : s = v.session /\ c = v.char /\ l = v.level
  OBVIOUS
<1>3. EntryRequest(v) /\ StepSound(v)
  BY <1>1 DEF EntryInv, EntryTypeOK, RequestsSound, Sound
<1>4. s \in Sessions /\ c \in Names /\ l \in Levels /\ Theirs(c, s) /\ begun \in 0..MaxRequests
  BY <1>1, <1>2, <1>3 DEF EntryRequest, StepSound, EntryInv, EntryTypeOK
<1>5. UNCHANGED <<chars, sessions, instances, members, actions, party, rewards, earned, torn, elapsed, begun>>
  BY DEF Enter
<1>6. CASE Exists(c) /\ party[UserOf[s]] # "two"
  <2>1. req' = [req EXCEPT ![r] = AssignInstance(s, c, l)]
    BY <1>1, <1>2, <1>6 DEF Enter
  <2>2. PICK p, i : p = party[UserOf[s]] /\ i = InstanceDescriptor(l, c, p)
    OBVIOUS
  <2>3. p \in PartyIds \cup {None}
    BY <1>4, <1>6, <2>2, WorldEntryAssumption DEF EntryInv, EntryTypeOK
  <2>4. i \in Instances
    BY <1>4, <2>2, <2>3, DescriptorFacts
  <2>5. PICK inst, current : /\ inst = Assigned(i)
                             /\ current = Diff(sessions[s], [party |-> p, instance |-> i, char |-> c, level |-> l])
    OBVIOUS
  <2>6. SessionColumns(current)
    BY <1>4, <2>3, <2>4, <2>5 DEF Diff, SessionColumns
  <2> DEFINE w == [Nothing("enter", s, c) EXCEPT
                     !.inst = inst,
                     !.insert = IF instances[i].status = "none" THEN i ELSE None,
                     !.join = IF UserOf[s] \in members[i] THEN None ELSE i,
                     !.current = current]
  <2>7. w = AssignInstance(s, c, l)
    BY <2>2, <2>5 DEF AssignInstance
  <2>8. EntryRequest(w)
    BY <1>4, <2>4, <2>5, <2>6, AssignedFacts DEF Nothing, Same, EntryRequest, CharacterColumns
  <2>9. Sound(w)
    BY <1>4, <2>4, <2>5, AssignedFacts DEF Nothing, Same, Sound, StepSound, SelectionSound, RewardSound,
                                           ExpirySound
  <2>10. QED
    BY <1>4, <1>5, <2>1, <2>7, <2>8, <2>9, ReplaceSound
<1>7. CASE ~(Exists(c) /\ party[UserOf[s]] # "two")
  <2>1. req' = [req EXCEPT ![r] = None]
    BY <1>1, <1>2, <1>7 DEF Enter
  <2>2. QED
    BY <1>4, <1>5, <2>1, ReplaceSound
<1>8. QED
  BY <1>6, <1>7

LEMMA RollbackSound ==
  ASSUME EntryInv, NEW r \in Requests, Rollback(r)
  PROVE  EntryInv'
BY ReplaceSound DEF Rollback, EntryInv, EntryTypeOK

-----------------------------------------------------------------------------
(* Time and the parties.                                                   *)

LEMMA ExpiresSound ==
  ASSUME EntryInv, NEW i \in Instances, Expires(i)
  PROVE  EntryInv'
<1>1. /\ elapsed' \in 0..MaxChanges /\ instances[i].status = "active"
      /\ instances' = [instances EXCEPT ![i].due = TRUE]
      /\ UNCHANGED <<chars, sessions, members, actions, party, req, rewards, earned, torn, begun>>
  BY WorldEntryAssumption DEF Expires, EntryInv, EntryTypeOK
<1>2. instances \in [Instances -> WorldInstance]
  BY DEF EntryInv, EntryTypeOK
<1>3. instances' \in [Instances -> WorldInstance]
  BY <1>1, <1>2 DEF WorldInstance
<1>4. \A j \in Instances : instances'[j].status = instances[j].status
                          /\ (instances'[j] = instances[j] \/ instances'[j].due = TRUE)
  BY <1>1, <1>2 DEF WorldInstance
<1>5. EntryTypeOK'
  BY <1>1, <1>3 DEF EntryInv, EntryTypeOK, EntryRequest
<1>6. ExpiredIsDue'
  BY <1>1, <1>4 DEF EntryInv, ExpiredIsDue
<1>7. RequestsSound'
  <2> SUFFICES ASSUME NEW q \in Requests, req'[q] # None PROVE Sound(req[q])'
    BY DEF RequestsSound
  <2>1. PICK v : v = req[q]
    OBVIOUS
  <2>2. Sound(v) /\ EntryRequest(v)
    BY <1>1, <2>1 DEF EntryInv, RequestsSound, EntryTypeOK
  <2>3. ExpirySound(v)'
    <3> SUFFICES ASSUME ~v.crossed, NEW j \in DOMAIN v.inst, Over(instances'[j], v.inst[j]).status = "expired"
                 PROVE  Over(instances'[j], v.inst[j]).due
      BY DEF ExpirySound
    <3>1. PICK x : x = v.inst[j]
      OBVIOUS
    <3>2. j \in Instances /\ InstanceColumns(x)
      BY <2>2, <3>1 DEF EntryRequest
    <3>3. PICK row \in WorldInstance, new \in WorldInstance : row = instances[j] /\ new = instances'[j]
      BY <1>2, <1>3, <3>2
    <3>4. Over(row, x).status = Over(new, x).status
      BY <1>4, <3>2, <3>3, OverInstance
    <3>5. Over(row, x).due
      BY <2>2, <3>1, <3>3, <3>4 DEF Sound, ExpirySound
    <3>6. CASE row = new
      BY <3>1, <3>3, <3>5, <3>6
    <3>7. CASE new.due = TRUE
      <4>1. "due" \notin DOMAIN x
        BY <3>2, <3>3, <3>5 DEF Over, InstanceColumns, WorldInstance
      <4>2. Over(new, x).due = TRUE
        BY <3>2, <3>7, <4>1, OverInstance
      <4>3. QED
        BY <3>1, <3>3, <4>2
    <3>8. QED
      BY <1>4, <3>2, <3>3, <3>6, <3>7
  <2>4. QED
    BY <1>1, <2>1, <2>2, <2>3 DEF Sound, StepSound, SelectionSound, RewardSound, Theirs, Exists, SelectedOf, Owned
<1>8. QED
  BY <1>1, <1>5, <1>6, <1>7 DEF EntryInv, RewardsKnown, NothingEarned, OneSelected, RewardedOnce, EarnedIsKept,
                                Exists, SelectedOf, Owned

LEMMA PartySound ==
  ASSUME EntryInv, NEW u \in Users, PartyChanges(u)
  PROVE  EntryInv'
<1>1. /\ elapsed' \in 0..MaxChanges /\ party' \in [Users -> PartyIds \cup {None, "two"}]
      /\ UNCHANGED <<chars, sessions, instances, members, actions, req, rewards, earned, torn, begun>>
  BY WorldEntryAssumption DEF PartyChanges, EntryInv, EntryTypeOK
<1>2. EntryTypeOK'
  BY <1>1 DEF EntryInv, EntryTypeOK, EntryRequest
<1>3. RequestsSound'
  <2> SUFFICES ASSUME NEW q \in Requests, req'[q] # None PROVE Sound(req[q])'
    BY DEF RequestsSound
  <2>1. PICK v : v = req[q]
    OBVIOUS
  <2>2. Sound(v)
    BY <1>1, <2>1 DEF EntryInv, RequestsSound
  <2>3. QED
    BY <1>1, <2>1, <2>2 DEF Sound, StepSound, SelectionSound, RewardSound, ExpirySound, Theirs, Exists, SelectedOf,
                            Owned
<1>4. QED
  BY <1>1, <1>2, <1>3 DEF EntryInv, RewardsKnown, NothingEarned, OneSelected, ExpiredIsDue, RewardedOnce,
                          EarnedIsKept, Exists, SelectedOf, Owned

-----------------------------------------------------------------------------
(* A request commits.                                                      *)

(* The rows of the characters, before and after.                           *)
LEMMA WrittenFacts ==
  ASSUME EntryInv, NEW w, EntryRequest(w), StepSound(w), Fits(w), chars' = Written(w), NEW c \in Names
  PROVE  /\ chars'[c] \in Character \cup {None, Deleted}
         /\ w.step = "delete" /\ c = w.char => chars'[c] = Deleted
         /\ chars[c] = Deleted => chars'[c] = Deleted
         /\ chars'[c] = None => chars[c] = None
         /\ Exists(c)' /\ ~Exists(c)
              => /\ w.step = "create" /\ c = w.char /\ chars[c] = None
                 /\ chars'[c] = NewCharacter(UserOf[w.session])
         /\ Exists(c)' /\ Exists(c)
              => /\ chars'[c].user = chars[c].user
                 /\ c = w.char => chars'[c] = Over(chars[c], w.columns)
                 /\ c # w.char \/ w.step # "action" => /\ chars'[c].level = chars[c].level
                                                       /\ chars'[c].experience = chars[c].experience
                 /\ chars[c].user # UserOf[w.session] => chars'[c] = chars[c]
                 /\ c # w.char => /\ chars'[c].selected => chars[c].selected
                                  /\ c \in w.deselect => ~chars'[c].selected
<1>1. w.char \in Names /\ w.session \in Sessions /\ CharacterColumns(w.columns)
  BY DEF EntryRequest
<1>2. NewCharacter(UserOf[w.session]) \in Character
  BY <1>1, WorldEntryAssumption DEF NewCharacter, Character
<1>3. chars[c] \in Character \cup {None, Deleted}
  BY DEF EntryInv, EntryTypeOK
<1>4. CASE w.step = "delete" /\ c = w.char
  <2>1. chars'[c] = Deleted
    BY <1>4 DEF Written
  <2>2. QED
    BY <1>3, <1>4, <2>1, RowOrNone DEF Exists
<1>5. CASE w.step = "create" /\ c = w.char
  <2>1. chars'[c] = NewCharacter(UserOf[w.session]) /\ chars[c] = None
    BY <1>5 DEF Written, Fits
  <2>2. QED
    BY <1>2, <1>5, <2>1, RowOrNone DEF Exists
<1>6. CASE c # w.char \/ w.step \notin {"delete", "create"}
  <2>1. CASE ~Exists(c)
    <3>1. chars'[c] = chars[c]
      BY <1>6, <2>1 DEF Written
    <3>2. QED
      BY <1>3, <1>6, <2>1, <3>1 DEF Exists
  <2>2. CASE Exists(c)
    <3>1. PICK row \in Character : row = chars[c]
      BY <1>3, <2>2 DEF Exists
    <3>2. CASE c = w.char
      <4>1. chars'[c] = Over(row, w.columns)
        BY <1>6, <2>2, <3>1, <3>2 DEF Written
      <4>2. Over(row, w.columns) \in Character /\ Over(row, w.columns).user = row.user
        BY <1>1, OverFacts
      <4>3. w.step # "action" => /\ Over(row, w.columns).level = row.level
                                 /\ Over(row, w.columns).experience = row.experience
        BY <1>1, OverFacts DEF StepSound
      <4>4. row.user = UserOf[w.session]
        BY <1>6, <2>2, <3>1, <3>2 DEF StepSound, Theirs
      <4>5. QED
        BY <1>6, <2>2, <3>1, <3>2, <4>1, <4>2, <4>3, <4>4, RowOrNone DEF Exists
    <3>3. CASE c # w.char /\ c \in w.deselect
      <4>1. chars'[c] = [row EXCEPT !.selected = FALSE]
        BY <2>2, <3>1, <3>3 DEF Written
      <4>2. /\ chars'[c] \in Character /\ chars'[c].user = row.user /\ ~chars'[c].selected
            /\ chars'[c].level = row.level /\ chars'[c].experience = row.experience
        BY <4>1 DEF Character
      <4>3. row.user = UserOf[w.session]
        BY <2>2, <3>1, <3>3 DEF StepSound, Theirs
      <4>4. QED
        BY <2>2, <3>1, <3>3, <4>2, <4>3, RowOrNone DEF Exists
    <3>4. CASE c # w.char /\ c \notin w.deselect
      <4>1. chars'[c] = row
        BY <2>2, <3>1, <3>4 DEF Written
      <4>2. QED
        BY <2>2, <3>1, <3>4, <4>1, RowOrNone DEF Exists
    <3>5. QED
      BY <3>2, <3>3, <3>4
  <2>3. QED
    BY <2>1, <2>2
<1>7. QED
  BY <1>4, <1>5, <1>6

(* What a request contests goes by its step. *)
LEMMA ContestedFacts ==
  ASSUME NEW w, StepSound(w)
  PROVE  /\ w.step \in {"select", "bootstrap"} => Contested(w) = {UserOf[w.session]}
         /\ w.step = "enter" => Contested(w) = DOMAIN w.inst
         /\ w.step = "action" => Contested(w) = {w.char}
         /\ w.step \notin {"select", "bootstrap", "enter", "action"} => Contested(w) = {}
         /\ DOMAIN w.inst \subseteq Contested(w)
BY DEF Contested, StepSound

(* The other requests: those it crosses are marked, and what the rest      *)
(* would write is as sound as it was.                                      *)
LEMMA OvertakenFacts ==
  ASSUME NEW v, EntryRequest(v), NEW w, NEW o, o = Overtaken(v, w)
  PROVE  /\ EntryRequest(o) /\ (o.crossed <=> v.crossed \/ Contested(v) \cap Contested(w) # {})
         /\ o.step = v.step /\ o.session = v.session /\ o.char = v.char /\ o.level = v.level
         /\ o.columns = v.columns /\ o.deselect = v.deselect /\ o.inst = v.inst /\ o.nonce = v.nonce
         /\ o.xp = v.xp /\ o.current = v.current
<1>1. v \in [step : {"create", "select", "delete", "level", "location", "bootstrap", "selected", "enter",
                     "action"},
             session : Sessions, char : Names, level : Levels \cup {None}, columns : {v.columns},
             deselect : SUBSET Names, current : {v.current}, insert : Names \cup Instances \cup {None},
             inst : {v.inst}, join : Instances \cup {None}, nonce : Nonces \cup {None}, xp : Nat,
             missing : BOOLEAN, crossed : BOOLEAN]
  BY DEF EntryRequest
<1>2. PICK x \in BOOLEAN, m \in BOOLEAN : /\ x <=> v.crossed \/ Contested(v) \cap Contested(w) # {}
                                          /\ o = [v EXCEPT !.crossed = x, !.missing = m]
  BY <1>1 DEF Overtaken
<1>3. /\ o.crossed = x
      /\ o.step = v.step /\ o.session = v.session /\ o.char = v.char /\ o.level = v.level
      /\ o.columns = v.columns /\ o.deselect = v.deselect /\ o.inst = v.inst /\ o.nonce = v.nonce
      /\ o.xp = v.xp /\ o.current = v.current
      /\ o \in [step : {"create", "select", "delete", "level", "location", "bootstrap", "selected", "enter",
                        "action"},
                session : Sessions, char : Names, level : Levels \cup {None}, columns : {v.columns},
                deselect : SUBSET Names, current : {v.current}, insert : Names \cup Instances \cup {None},
                inst : {v.inst}, join : Instances \cup {None}, nonce : Nonces \cup {None}, xp : Nat,
                missing : BOOLEAN, crossed : BOOLEAN]
  BY <1>1, <1>2
<1>4. QED
  BY <1>2, <1>3 DEF EntryRequest

(* A character that is a request's user's stays that.                      *)
LEMMA TheirsStay ==
  ASSUME EntryInv, NEW w, EntryRequest(w), StepSound(w), Fits(w), chars' = Written(w), NEW c \in Names, NEW s,
         Theirs(c, s)
  PROVE  Theirs(c, s)'
BY WrittenFacts DEF Theirs

LEMMA StepStays ==
  ASSUME EntryInv, NEW w, EntryRequest(w), StepSound(w), Fits(w), chars' = Written(w), NEW v, EntryRequest(v), StepSound(v)
  PROVE  StepSound(v)'
BY TheirsStay DEF StepSound, EntryRequest

(* A user's selected characters are no more than they were when a request  *)
(* of somebody else commits, or one that does not select.                  *)
LEMMA SelectionStays ==
  ASSUME EntryInv, NEW w, EntryRequest(w), StepSound(w), Fits(w), chars' = Written(w), NEW u,
         u # UserOf[w.session] \/ w.step \notin {"select", "bootstrap", "selected"}
  PROVE  SelectedOf(u)' \subseteq SelectedOf(u)
<1> SUFFICES ASSUME NEW c \in SelectedOf(u)' PROVE c \in SelectedOf(u)
  OBVIOUS
<1>1. c \in Names /\ Exists(c)' /\ chars'[c].user = u /\ chars'[c].selected
  BY DEF SelectedOf, Owned
<1>2. Exists(c)
  <2>1. ~NewCharacter(UserOf[w.session]).selected
    BY DEF NewCharacter
  <2>2. SUFFICES ASSUME ~Exists(c) PROVE chars'[c] = NewCharacter(UserOf[w.session])
    BY <1>1, <2>1
  <2>3. QED
    BY <1>1, <2>2, WrittenFacts
<1>3. chars[c].user = u
  BY <1>1, <1>2, WrittenFacts
<1>4. chars[c].selected
  <2>1. CASE c # w.char \/ u # UserOf[w.session]
    BY <1>1, <1>2, <1>3, <2>1, WrittenFacts
  <2>2. CASE c = w.char /\ w.step \notin {"select", "bootstrap", "selected"}
    <3>1. chars'[c] = Over(chars[c], w.columns)
      BY <1>1, <1>2, <2>2, WrittenFacts
    <3>2. chars[c] \in Character
      BY <1>1, <1>2 DEF EntryInv, EntryTypeOK, Exists
    <3>3. "selected" \notin DOMAIN w.columns /\ CharacterColumns(w.columns)
      BY <2>2 DEF StepSound, EntryRequest
    <3>4. QED
      BY <1>1, <3>1, <3>2, <3>3, OverFacts
  <2>3. QED
    BY <2>1, <2>2
<1>5. QED
  BY <1>1, <1>2, <1>3, <1>4 DEF SelectedOf, Owned

LEMMA CommitSound ==
  ASSUME EntryInv, NEW r \in Requests, Commit(r)
  PROVE  EntryInv'
<1>1. PICK w : w = req[r]
  OBVIOUS
<1>2. /\ w # None /\ w.step # "selected" /\ Fits(w)
      /\ chars' = Written(w)
      /\ sessions' = Sessions2(w)
      /\ instances' = [i \in Instances |-> IF i \in DOMAIN w.inst THEN Over(instances[i], w.inst[i])
                                           ELSE instances[i]]
      /\ members' = IF w.step = "enter" /\ w.join # None
                    THEN [members EXCEPT ![w.join] = @ \cup {UserOf[w.session]}] ELSE members
      /\ actions' = Actions2(w)
      /\ rewards' = IF w.step = "action" THEN [rewards EXCEPT ![Audit(w)] = @ + 1] ELSE rewards
      /\ earned' = [earned EXCEPT ![w.char] = @ + w.xp]
      /\ torn' = IF w.crossed THEN torn \cup Contested(w) ELSE torn \ (Contested(w) \ Names)
      /\ req' = [Overlapped(w) EXCEPT ![r] = IF w.step = "bootstrap" THEN [w EXCEPT !.step = "selected"] ELSE None]
      /\ UNCHANGED <<party, elapsed, begun>>
  BY <1>1 DEF Commit
<1>3. EntryRequest(w) /\ Sound(w)
  BY <1>1, <1>2 DEF EntryInv, EntryTypeOK, RequestsSound
<1>4. /\ w.session \in Sessions /\ w.char \in Names /\ w.xp \in Nat /\ UserOf[w.session] \in Users
      /\ DOMAIN w.inst \subseteq Instances /\ StepSound(w)
  BY <1>3, WorldEntryAssumption DEF EntryRequest, Sound
<1>5. PICK u : u = UserOf[w.session]
  OBVIOUS
<1>6. /\ torn' \subseteq Users \cup Instances \cup Names
      /\ w.crossed => Contested(w) \subseteq torn'
      /\ \A x : x \in torn /\ x \notin torn' => ~w.crossed /\ x \in Contested(w) /\ x \notin Names
  <2>1. torn \subseteq Users \cup Instances \cup Names
    BY DEF EntryInv, EntryTypeOK
  <2>2. Contested(w) \subseteq Users \cup Instances \cup Names
    BY <1>4 DEF Contested
  <2>3. w.crossed => torn' = torn \cup Contested(w)
    BY <1>2, Zenon
  <2>4. ~w.crossed => torn' = torn \ (Contested(w) \ Names)
    BY <1>2, Zenon
  <2>5. PICK x : x = Contested(w)
    OBVIOUS
  <2>6. QED
    BY <2>1, <2>2, <2>3, <2>4, <2>5
<1>7. \A c \in Names : earned'[c] = IF c = w.char THEN earned[c] + w.xp ELSE earned[c]
  BY <1>2 DEF EntryInv, EntryTypeOK
<1>8. \A q \in Requests \ {r} : req[q] = None => req'[q] = None
  BY <1>2 DEF Overlapped
<1>9. \A q \in Requests \ {r} : req[q] # None => req'[q] = Overtaken(req[q], w)
  BY <1>2 DEF Overlapped
<1>10. req' = [q \in Requests |-> req'[q]]
       /\ req'[r] = IF w.step = "bootstrap" THEN [w EXCEPT !.step = "selected"] ELSE None
  BY <1>2 DEF Overlapped
<1>11. EntryTypeOK'
  <2>1. chars' \in [Names -> Character \cup {None, Deleted}]
    <3>1. chars' = [c \in Names |-> chars'[c]]
      BY <1>2 DEF Written
    <3>2. QED
      BY <1>2, <1>3, <1>4, <3>1, WrittenFacts
  <2>2. sessions' \in [Sessions -> [char : Names \cup {None}, level : Levels \cup {None},
                                   instance : Instances \cup {None}, party : PartyIds \cup {None}]]
    <3> DEFINE Row == [char : Names \cup {None}, level : Levels \cup {None},
                       instance : Instances \cup {None}, party : PartyIds \cup {None}]
    <3>1. sessions \in [Sessions -> Row] /\ SessionColumns(w.current)
      BY <1>3 DEF EntryInv, EntryTypeOK, EntryRequest
    <3>2. ASSUME NEW s \in Sessions
          PROVE  [sessions[s] EXCEPT !.char = None] \in Row /\ Over(sessions[s], w.current) \in Row
      <4>1. PICK row \in Row : row = sessions[s]
        BY <3>1
      <4>2. [row EXCEPT !.char = None] \in Row
        OBVIOUS
      <4>3. QED
        BY <3>1, <4>1, <4>2, OverSession DEF EntryInv
    <3>3. sessions' = Sessions2(w)
      BY <1>2
    <3> HIDE DEF Row
    <3>4. QED
      BY <3>1, <3>2, <3>3 DEF Sessions2, Row
  <2>3. instances' \in [Instances -> WorldInstance]
    <3>1. instances \in [Instances -> WorldInstance] /\ \A i \in DOMAIN w.inst : InstanceColumns(w.inst[i])
      BY <1>3 DEF EntryInv, EntryTypeOK, EntryRequest
    <3>2. \A i \in DOMAIN w.inst : Over(instances[i], w.inst[i]) \in WorldInstance
      BY <1>4, <3>1, OverInstance
    <3>3. QED
      BY <1>2, <3>1, <3>2
  <2>4. members' \in [Instances -> SUBSET Users]
    BY <1>2, <1>3, <1>4 DEF EntryInv, EntryTypeOK, EntryRequest
  <2>5. actions' \subseteq [session : Sessions, nonce : Nonces, char : Names]
    BY <1>2, <1>4 DEF Actions2, Audit, StepSound, EntryInv, EntryTypeOK
  <2>6. rewards' \in [[session : Sessions, nonce : Nonces, char : Names] -> Nat]
    <3>1. PICK b : b = Audit(w)
      OBVIOUS
    <3>2. PICK Audits : Audits = [session : Sessions, nonce : Nonces, char : Names]
      OBVIOUS
    <3>3. rewards \in [Audits -> Nat]
      BY <3>2 DEF EntryInv, EntryTypeOK
    <3>4. rewards' = IF w.step = "action" THEN [rewards EXCEPT ![b] = @ + 1] ELSE rewards
      BY <1>2, <3>1
    <3>5. w.step = "action" => b \in Audits
      BY <1>4, <3>1, <3>2 DEF Audit, StepSound
    <3>6. rewards' \in [Audits -> Nat]
      BY <3>3, <3>4, <3>5
    <3>7. QED
      BY <3>2, <3>6
  <2>7. earned' \in [Names -> Nat]
    BY <1>2, <1>4 DEF EntryInv, EntryTypeOK
  <2>8. \A q \in Requests : req'[q] # None => EntryRequest(req'[q])
    <3>1. CASE w.step = "bootstrap"
      <4>1. PICK o : o = [w EXCEPT !.step = "selected"]
        OBVIOUS
      <4>2. EntryRequest(o)
        BY <1>3, <4>1 DEF EntryRequest
      <4>3. QED
        BY <1>8, <1>9, <1>10, <3>1, <4>1, <4>2, OvertakenFacts DEF EntryInv, EntryTypeOK
    <3>2. CASE w.step # "bootstrap"
      BY <1>8, <1>9, <1>10, <3>2, OvertakenFacts DEF EntryInv, EntryTypeOK
    <3>3. QED
      BY <3>1, <3>2
  <2>9. QED
    BY <1>2, <1>6, <1>10, <2>1, <2>2, <2>3, <2>4, <2>5, <2>6, <2>7, <2>8 DEF EntryInv, EntryTypeOK, EntryRequest
<1>12. RequestsSound'
  <2> SUFFICES ASSUME NEW q \in Requests, req'[q] # None PROVE Sound(req[q])'
    BY DEF RequestsSound
  <2>1. PICK o : o = req'[q]
    OBVIOUS
  <2>2. CASE q = r
    <3>1. w.step = "bootstrap" /\ o = [w EXCEPT !.step = "selected"]
      BY <1>10, <2>1, <2>2
    <3>2. /\ o.step = "selected" /\ o.session = w.session /\ o.char = w.char /\ o.deselect = w.deselect
          /\ o.columns = w.columns /\ o.xp = w.xp /\ o.level = w.level /\ o.inst = w.inst
      BY <1>3, <3>1 DEF EntryRequest
    <3>3. StepSound(w)'
      BY <1>2, <1>3, <1>4, StepStays
    <3>4. StepSound(o)'
      BY <3>1, <3>2, <3>3 DEF StepSound
    <3>5. QED
      BY <1>4, <2>1, <3>1, <3>2, <3>4 DEF Sound, StepSound, SelectionSound, RewardSound, ExpirySound
  <2>3. CASE q # r
    <3>1. PICK v : v = req[q] /\ v # None /\ EntryRequest(v) /\ Sound(v)
      BY <1>8, <2>3 DEF EntryInv, EntryTypeOK, RequestsSound
    <3>2. StepSound(v)'
      BY <1>2, <1>3, <1>4, <3>1, StepStays DEF Sound
    <3>3. o = Overtaken(v, w)
      BY <1>9, <2>1, <2>3, <3>1
    <3>4. /\ o.crossed <=> v.crossed \/ Contested(v) \cap Contested(w) # {}
          /\ o.step = v.step /\ o.session = v.session /\ o.char = v.char /\ o.level = v.level
          /\ o.columns = v.columns /\ o.deselect = v.deselect /\ o.inst = v.inst /\ o.nonce = v.nonce
          /\ o.xp = v.xp
      BY <3>1, <3>3, OvertakenFacts
    <3>5. StepSound(o)'
      BY <3>2, <3>4 DEF StepSound
    <3>6. CASE o.crossed
      BY <2>1, <3>5, <3>6 DEF Sound, SelectionSound, RewardSound, ExpirySound
    <3>7. CASE ~o.crossed
      <4>1. /\ ~v.crossed /\ Contested(v) \cap Contested(w) = {} /\ StepSound(v)
            /\ DOMAIN v.inst \subseteq Instances /\ v.char \in Names
        BY <3>1, <3>4, <3>7 DEF Sound, EntryRequest
      <4>2. SelectionSound(o)'
        <5> SUFFICES ASSUME v.step \in {"select", "bootstrap"}
                     PROVE  SelectedOf(UserOf[v.session])' \subseteq v.deselect \cup {v.char}
          BY <3>4 DEF SelectionSound
        <5>1. UserOf[v.session] # u \/ w.step \notin {"select", "bootstrap", "selected"}
          BY <1>2, <1>4, <1>5, <4>1, ContestedFacts
        <5>2. SelectedOf(UserOf[v.session])' \subseteq SelectedOf(UserOf[v.session])
          BY <1>2, <1>3, <1>4, <1>5, <5>1, SelectionStays
        <5>3. QED
          BY <3>1, <4>1, <5>2 DEF Sound, SelectionSound
      <4>3. ExpirySound(o)'
        <5>1. DOMAIN v.inst \cap DOMAIN w.inst = {}
          BY <1>4, <4>1, ContestedFacts
        <5>2. \A i \in DOMAIN v.inst : instances'[i] = instances[i]
          BY <1>2, <4>1, <5>1
        <5>3. QED
          BY <3>1, <3>4, <4>1, <5>2 DEF Sound, ExpirySound
      <4>4. RewardSound(o)'
        <5> SUFFICES ASSUME v.step = "action", Exists(v.char)', v.char \notin torn'
                     PROVE  Worth(Over(chars'[v.char], v.columns)) = earned'[v.char] + v.xp
          BY <3>4 DEF RewardSound
        <5>1. v.char \notin torn /\ (w.step = "action" => v.char # w.char)
          BY <1>4, <1>6, <4>1, ContestedFacts
        <5>2. Exists(v.char)
          BY <1>2, <1>3, <1>4, <4>1, WrittenFacts DEF StepSound, Theirs
        <5>3. Worth(Over(chars[v.char], v.columns)) = earned[v.char] + v.xp
          BY <3>1, <4>1, <5>1, <5>2 DEF Sound, RewardSound
        <5>4. chars[v.char] \in Character /\ chars'[v.char] \in Character
          BY <1>11, <4>1, <5>2 DEF EntryInv, EntryTypeOK, Exists
        <5>5. /\ chars'[v.char].level = chars[v.char].level
              /\ chars'[v.char].experience = chars[v.char].experience
          BY <1>2, <1>3, <1>4, <4>1, <5>1, <5>2, WrittenFacts
        <5>6. earned'[v.char] = earned[v.char]
          BY <1>4, <1>7, <4>1, <5>1 DEF StepSound, EntryInv, EntryTypeOK
        <5>7. QED
          BY <5>3, <5>4, <5>5, <5>6, OverWorth
      <4>5. QED
        BY <2>1, <3>5, <4>2, <4>3, <4>4 DEF Sound
    <3>8. QED
      BY <3>6, <3>7
  <2>4. QED
    BY <2>2, <2>3
<1>13. RewardsKnown' /\ RewardedOnce'
  <2>1. PICK b : b = Audit(w)
    OBVIOUS
  <2>2. rewards \in [[session : Sessions, nonce : Nonces, char : Names] -> Nat] /\ DOMAIN rewards' = DOMAIN rewards
    BY <1>2 DEF EntryInv, EntryTypeOK
  <2>3. ASSUME NEW a \in DOMAIN rewards, chars[a.char] = Deleted PROVE chars'[a.char] = Deleted
    <3>1. a.char \in Names
      <4>1. DOMAIN rewards = [session : Sessions, nonce : Nonces, char : Names]
        BY <2>2
      <4>2. a \in [session : Sessions, nonce : Nonces, char : Names]
        BY <4>1
      <4>3. QED
        BY <4>2
    <3>2. QED
      BY <1>2, <1>3, <1>4, <2>3, <3>1, WrittenFacts
  <2>4. ASSUME NEW a \in DOMAIN rewards, a \in actions PROVE a \in actions' \/ chars'[a.char] = Deleted
    <3>1. CASE w.step = "delete" /\ a.char = w.char
      BY <1>2, <1>3, <1>4, <3>1, WrittenFacts
    <3>2. CASE w.step # "delete" \/ a.char # w.char
      BY <1>2, <2>4, <3>2 DEF Actions2
    <3>3. QED
      BY <3>1, <3>2
  <2>5. ASSUME w.step = "action" PROVE b \in DOMAIN rewards /\ rewards[b] = 0 /\ b \in actions'
    <3>1. b \in DOMAIN rewards
      BY <1>4, <2>1, <2>2, <2>5 DEF Audit, StepSound
    <3>2. b \notin actions /\ chars[b.char] # Deleted
      BY <1>2, <2>1, <2>5 DEF Audit, Fits, Fresh, Exists
    <3>3. b \in actions'
      BY <1>2, <2>1, <2>5 DEF Actions2
    <3>4. QED
      BY <3>1, <3>2, <3>3 DEF EntryInv, RewardsKnown
  <2>6. ASSUME NEW a \in DOMAIN rewards
        PROVE  rewards'[a] = rewards[a] \/ (w.step = "action" /\ a = b /\ rewards'[a] = rewards[a] + 1)
    BY <1>2, <2>1, <2>2
  <2>7. RewardsKnown'
    <3> SUFFICES ASSUME NEW a \in DOMAIN rewards, rewards'[a] # 0
                 PROVE  a \in actions' \/ chars'[a.char] = Deleted
      BY <2>2 DEF RewardsKnown
    <3>1. CASE rewards'[a] = rewards[a]
      BY <2>3, <2>4, <3>1 DEF EntryInv, RewardsKnown
    <3>2. CASE rewards'[a] # rewards[a]
      BY <2>5, <2>6, <3>2
    <3>3. QED
      BY <3>1, <3>2
  <2>8. RewardedOnce'
    <3> SUFFICES ASSUME NEW a \in DOMAIN rewards PROVE rewards'[a] <= 1
      BY <2>2 DEF RewardedOnce
    <3>1. CASE rewards'[a] = rewards[a]
      BY <3>1 DEF EntryInv, RewardedOnce
    <3>2. CASE rewards'[a] # rewards[a]
      BY <2>5, <2>6, <3>2
    <3>3. QED
      BY <3>1, <3>2
  <2>9. QED
    BY <2>7, <2>8
<1>14. NothingEarned'
  <2> SUFFICES ASSUME NEW c \in Names, chars'[c] = None PROVE earned'[c] = 0
    BY DEF NothingEarned
  <2>1. chars[c] = None /\ earned[c] = 0
    BY <1>2, <1>3, <1>4, WrittenFacts DEF EntryInv, NothingEarned
  <2>2. c = w.char => w.xp = 0
    BY <1>2, <1>4, <2>1 DEF StepSound, Fits, Exists
  <2>3. QED
    BY <1>7, <2>1, <2>2
<1>15. OneSelected'
  <2> SUFFICES ASSUME NEW v \in Users \ torn', NEW c \in SelectedOf(v)', NEW d \in SelectedOf(v)'
               PROVE  c = d
    BY DEF OneSelected
  <2>1. v \in torn => v = u /\ w.step \in {"select", "bootstrap"}
    <3>1. SUFFICES ASSUME v \in Contested(w) PROVE v = u /\ w.step \in {"select", "bootstrap"}
      BY <1>6
    <3>2. v \notin Instances /\ v \notin Names
      BY TornApart
    <3>3. QED
      BY <1>4, <1>5, <3>1, <3>2, ContestedFacts
  <2>2. CASE v # u \/ w.step \notin {"select", "bootstrap", "selected"}
    <3>1. \A a, b \in SelectedOf(v) : a = b
      BY <2>1, <2>2 DEF EntryInv, OneSelected
    <3>2. QED
      BY <1>2, <1>3, <1>4, <1>5, <2>2, <3>1, SelectionStays
  <2>3. CASE v = u /\ w.step \in {"select", "bootstrap"}
    <3>1. SelectedOf(v) \subseteq w.deselect \cup {w.char}
      BY <1>3, <1>4, <1>5, <1>6, <2>3, ContestedFacts DEF Sound, SelectionSound
    <3>2. ASSUME NEW a \in SelectedOf(v)' PROVE a = w.char
      <4>1. a \in Names /\ Exists(a)' /\ chars'[a].user = v /\ chars'[a].selected
        BY DEF SelectedOf, Owned
      <4>2. Exists(a)
        BY <1>2, <1>3, <1>4, <2>3, <4>1, WrittenFacts
      <4>3. SUFFICES ASSUME a # w.char PROVE FALSE
        OBVIOUS
      <4>4. chars[a].user = v /\ chars[a].selected /\ a \notin w.deselect
        BY <1>2, <1>3, <1>4, <4>1, <4>2, <4>3, WrittenFacts
      <4>5. a \in SelectedOf(v)
        BY <4>1, <4>2, <4>4 DEF SelectedOf, Owned
      <4>6. QED
        BY <3>1, <4>3, <4>4, <4>5
    <3>3. QED
      BY <3>2
  <2>4. QED
    BY <1>2, <2>2, <2>3
<1>16. ExpiredIsDue'
  <2> SUFFICES ASSUME NEW i \in Instances, i \notin torn', instances'[i].status = "expired"
               PROVE  instances'[i].due
    BY DEF ExpiredIsDue
  <2>1. CASE i \in DOMAIN w.inst
    <3>1. ~w.crossed
      BY <1>4, <1>6, <2>1, ContestedFacts
    <3>2. QED
      BY <1>2, <1>3, <2>1, <3>1 DEF Sound, ExpirySound
  <2>2. CASE i \notin DOMAIN w.inst
    <3>1. i \notin Users /\ i \notin Names
      BY TornApart
    <3>2. i \notin torn
      BY <1>4, <1>6, <2>2, <3>1, ContestedFacts
    <3>3. QED
      BY <1>2, <2>2, <3>2 DEF EntryInv, ExpiredIsDue
  <2>3. QED
    BY <2>1, <2>2
<1>17. EarnedIsKept'
  <2> SUFFICES ASSUME NEW c \in Names, Exists(c)', c \notin torn'
               PROVE  Worth(chars'[c]) = earned'[c]
    BY DEF EarnedIsKept, Worth
  <2>0. c \notin torn
    BY <1>6
  <2>1. CASE ~Exists(c)
    <3>1. w.step = "create" /\ c = w.char /\ chars[c] = None /\ chars'[c] = NewCharacter(u)
      BY <1>2, <1>3, <1>4, <1>5, <2>1, WrittenFacts
    <3>2. earned'[c] = 0
      BY <1>4, <1>7, <3>1 DEF StepSound, EntryInv, NothingEarned
    <3>3. Worth(NewCharacter(u)) = 0
      BY WorldEntryAssumption DEF Worth, NewCharacter
    <3>4. QED
      BY <3>1, <3>2, <3>3
  <2>2. CASE Exists(c) /\ (c # w.char \/ w.step # "action")
    <3>1. Worth(chars'[c]) = Worth(chars[c])
      BY <1>2, <1>3, <1>4, <2>2, WrittenFacts DEF Worth
    <3>2. Worth(chars[c]) = earned[c]
      BY <2>0, <2>2 DEF EntryInv, EarnedIsKept, Worth
    <3>3. earned'[c] = earned[c]
      BY <1>4, <1>7, <2>2 DEF StepSound, EntryInv, EntryTypeOK
    <3>4. QED
      BY <3>1, <3>2, <3>3
  <2>3. CASE Exists(c) /\ c = w.char /\ w.step = "action"
    <3>1. chars'[c] = Over(chars[c], w.columns)
      BY <1>2, <1>3, <1>4, <2>3, WrittenFacts
    <3>2. ~w.crossed
      BY <1>4, <1>6, <2>3, ContestedFacts
    <3>3. Worth(Over(chars[c], w.columns)) = earned[c] + w.xp
      BY <1>3, <2>0, <2>3, <3>2 DEF Sound, RewardSound
    <3>4. QED
      BY <1>7, <2>3, <3>1, <3>3
  <2>4. QED
    BY <2>1, <2>2, <2>3
<1>18. QED
  BY <1>11, <1>12, <1>13, <1>14, <1>15, <1>16, <1>17 DEF EntryInv

-----------------------------------------------------------------------------
(* The theorems.                                                           *)

LEMMA EntryStarts == EntryInit => EntryInv
<1> SUFFICES ASSUME EntryInit PROVE EntryInv
  OBVIOUS
<1>1. EntryTypeOK
  BY WorldEntryAssumption DEF EntryInit, EntryTypeOK, WorldInstance
<1>2. \A c \in Names : ~Exists(c)
  BY DEF EntryInit, Exists
<1>3. OneSelected /\ EarnedIsKept
  BY <1>2 DEF OneSelected, EarnedIsKept, SelectedOf, Owned
<1>4. ExpiredIsDue /\ RewardedOnce /\ RewardsKnown /\ NothingEarned /\ RequestsSound
  BY DEF EntryInit, ExpiredIsDue, RewardedOnce, RewardsKnown, NothingEarned, RequestsSound
<1>5. QED
  BY <1>1, <1>3, <1>4 DEF EntryInv

LEMMA EntryStep == EntryInv /\ [EntryNext]_entryVars => EntryInv'
<1> SUFFICES ASSUME EntryInv, [EntryNext]_entryVars PROVE EntryInv'
  OBVIOUS
<1>1. ASSUME NEW s \in Sessions, NEW c \in Names,
             \/ CreateCharacter(s, c) \/ SelectCharacter(s, c) \/ DeleteCharacter(s, c) \/ Bootstrap(s, c)
             \/ \E l \in Levels : BootstrapOver(s, c, l)
             \/ \E l \in Levels \cup {None} : AssignLevel(s, c, l) \/ UpdateLocation(s, c, l)
             \/ \E n \in Nonces, xp \in Grants : ResolveAction(s, c, n, xp)
      PROVE  EntryInv'
  BY <1>1, CreateSound, SelectSound, DeleteSound, BootstrapSound, BootstrapOverSound, AssignSound, LocationSound, ResolveSound
<1>2. ASSUME NEW r \in Requests, Enter(r) \/ Commit(r) \/ Rollback(r)
      PROVE  EntryInv'
  BY <1>2, EnterSound, CommitSound, RollbackSound
<1>3. ASSUME NEW i \in Instances, Expires(i)
      PROVE  EntryInv'
  BY <1>3, ExpiresSound
<1>4. ASSUME NEW u \in Users, PartyChanges(u)
      PROVE  EntryInv'
  BY <1>4, PartySound
<1>5. CASE UNCHANGED entryVars
  <2>1. /\ begun' \in 0..MaxRequests
        /\ UNCHANGED <<chars, sessions, instances, members, actions, party, rewards, earned, torn, elapsed>>
    BY <1>5 DEF entryVars, EntryInv, EntryTypeOK
  <2>2. req' = req
    BY <1>5 DEF entryVars
  <2>3. EntryTypeOK'
    BY <1>5 DEF EntryInv, EntryTypeOK, EntryRequest, entryVars
  <2>4. RequestsSound'
    <3> SUFFICES ASSUME NEW q \in Requests, req'[q] # None PROVE Sound(req[q])'
      BY DEF RequestsSound
    <3>1. PICK v : v = req[q]
      OBVIOUS
    <3>2. Sound(v)
      BY <2>2, <3>1 DEF EntryInv, RequestsSound
    <3>3. QED
      BY <2>1, <2>2, <3>1, <3>2 DEF Sound, StepSound, SelectionSound, RewardSound, ExpirySound, Theirs, Exists,
                                    SelectedOf, Owned
  <2>5. QED
    BY <2>1, <2>3, <2>4 DEF EntryInv, RewardsKnown, NothingEarned, OneSelected, ExpiredIsDue, RewardedOnce,
                            EarnedIsKept, Exists, SelectedOf, Owned
<1>6. QED
  BY <1>1, <1>2, <1>3, <1>4, <1>5 DEF EntryNext

(* The inductive invariant of characters and of the entry into the world:  *)
(* types, what the commit of each request would leave, the audit rows of   *)
(* what was rewarded, and the four properties.                             *)
THEOREM EntryCoherent == EntrySpec => []EntryInv
BY EntryStarts, EntryStep, PTL DEF EntrySpec

(* A user has one selected character at most, though a selection deselects *)
(* only the characters it read: two of theirs must cross for a second one  *)
(* to stay, and it goes with the next selection that crosses none.         *)
THEOREM SelectedAlone == EntrySpec => []OneSelected
<1>1. EntryInv => OneSelected
  BY DEF EntryInv
<1>2. QED
  BY <1>1, EntryCoherent, PTL

(* An instance whose time has not passed is expired by nobody, unless two  *)
(* entries that wrote it crossed.                                          *)
THEOREM ExpiredInTime == EntrySpec => []ExpiredIsDue
<1>1. EntryInv => ExpiredIsDue
  BY DEF EntryInv
<1>2. QED
  BY <1>1, EntryCoherent, PTL

(* An action is rewarded once, whatever overlaps.                          *)
THEOREM RewardedAtMostOnce == EntrySpec => []RewardedOnce
<1>1. EntryInv => RewardedOnce
  BY DEF EntryInv
<1>2. QED
  BY <1>1, EntryCoherent, PTL

(* The rewards of a character are in its level and experience, unless two  *)
(* of its actions crossed.                                                 *)
THEOREM RewardsAdd == EntrySpec => []EarnedIsKept
<1>1. EntryInv => EarnedIsKept
  BY DEF EntryInv
<1>2. QED
  BY <1>1, EntryCoherent, PTL
=============================================================================
