--------------------------- MODULE ContentProofs ---------------------------
(* The safety properties of Content, and after them those of Promotion,    *)
(* proved for any domains, payloads, editors, releases, packs, designers   *)
(* and bounds.                                                             *)
EXTENDS Content, Promotion, TLAPS

-----------------------------------------------------------------------------
(* Definitions. *)

LEMMA Constants_ ==
  /\ Idle \in Request /\ LoopIdle \in Coroutine /\ NoSnapshot \in Snapshot
  /\ Empty \in Bundles /\ NoVersion \in VersionRow /\ Boot \in Ids
  /\ Ids \subseteq Nat \ {0} /\ AnyDomain \in Domains
<1>1. Boot \in Ids /\ Ids \subseteq Nat \ {0}
  <2>1. MaxVersions \in Nat \ {0}
    BY ContentAssumption, Zenon
  <2>2. QED
    BY <2>1 DEF Boot, Ids
<1>2. AnyDomain \in Domains
  BY ContentAssumption DEF AnyDomain
<1>3. Empty \in Bundles
  BY DEF Empty, Bundles
<1>4. QED
  BY <1>1, <1>2, <1>3 DEF Idle, Request, LoopIdle, Coroutine, NoSnapshot, Snapshot, NoVersion, VersionRow,
     States, Payloads

(* A repair leaves bundles, and takes no domain from a complete version.   *)
LEMMA RestoredFacts ==
  ASSUME NEW b \in Bundles
  PROVE  Restored(b) \in Bundles /\ (Issues(b) = {} => Issues(Restored(b)) = {})
<1>1. Restored(b) \in Bundles
  BY DEF Restored, Bundles, Payloads
<1>2. \A d \in Domains : Restored(b)[d] \in {b[d], Default}
  BY DEF Restored
<1>3. ~PayloadIssues(Default) /\ Default # Absent
  BY DEF PayloadIssues, Flaws, Default, Absent
<1>4. QED
  BY <1>1, <1>2, <1>3 DEF Issues

(* The newest of the only active version is that one. *)
LEMMA NewestOnly ==
  ASSUME NEW x, NEW V, V # {}, V \subseteq {x}
  PROVE  Newest(V) = x
<1>1. V = {x}
  OBVIOUS
<1>2. \A w \in V \ {x} : Newer(x, w)
  BY <1>1
<1>3. QED
  BY <1>1, <1>2 DEF Newest

LEMMA NewestActive ==
  ASSUME OneActive, Active # {}
  PROVE  Newest(Active) \in Active /\ Active = {Newest(Active)} /\ Newest(Active) \in Ids
<1>1. PICK x \in Active : TRUE
  OBVIOUS
<1>2. Active = {x}
  BY <1>1 DEF OneActive
<1>3. QED
  BY <1>2, NewestOnly DEF Active

-----------------------------------------------------------------------------
(* Types. *)

LEMMA TypeInit == Init => TypeOK
<1> SUFFICES ASSUME Init PROVE TypeOK
  OBVIOUS
<1>1. policy \in PolicyRow
  BY Constants_ DEF Init, PolicyRow
<1>2. /\ versions \in [Ids -> VersionRow] /\ bundles \in [Ids -> Bundles]
      /\ cached \in Snapshot /\ loop \in Coroutine /\ req \in [Threads -> Request]
  BY Constants_ DEF Init
<1>3. QED
  BY <1>1, <1>2 DEF Init, TypeOK

LEMMA ThreadRests ==
  ASSUME TypeOK, NEW t \in Threads, Done(t)
  PROVE  req' \in [Threads -> Request] /\ begun' \in Nat
BY Constants_ DEF TypeOK, Done

LEMMA EditType == ASSUME TypeOK, OneActive, Edit PROVE TypeOK'
<1> USE Constants_
<1>1. ASSUME NEW t \in Threads, CreateDraft(t) PROVE TypeOK'
  <2>1. PICK v \in Ids :
          /\ versions' = [versions EXCEPT ![v] = [state |-> "draft", at |-> 0]]
          /\ req' = [req EXCEPT ![t] = [Idle EXCEPT !.step = "copy", !.id = v, !.from = Newest(Active)]]
    BY <1>1 DEF CreateDraft
  <2>2. Newest(Active) \in Ids
    BY <1>1, NewestActive DEF CreateDraft
  <2>3. [Idle EXCEPT !.step = "copy", !.id = v, !.from = Newest(Active)] \in Request
    BY <2>2 DEF Request
  <2>4. [state |-> "draft", at |-> 0] \in VersionRow
    BY DEF VersionRow, States
  <2>5. versions' \in [Ids -> VersionRow] /\ req' \in [Threads -> Request]
    BY <2>1, <2>3, <2>4 DEF TypeOK
  <2>6. QED
    BY <1>1, <2>5 DEF TypeOK, CreateDraft, Editing, OnThread
<1>2. ASSUME NEW t \in Threads, CopyBundles(t) PROVE TypeOK'
  <2>1. req[t].id \in Ids /\ req[t].from \in Ids
    BY DEF TypeOK, Request
  <2>2. bundles' \in [Ids -> Bundles]
    BY <1>2, <2>1 DEF TypeOK, CopyBundles
  <2>3. req' \in [Threads -> Request] /\ begun' \in Nat
    BY <1>2, ThreadRests DEF CopyBundles
  <2>4. QED
    BY <1>2, <2>2, <2>3 DEF TypeOK, CopyBundles, OnThread
<1>3. ASSUME NEW t \in Threads, UpsertRead(t) PROVE TypeOK'
  <2>1. PICK v \in Ids, d \in Domains, p \in Edits \cup Flaws :
          /\ ~PayloadIssues(p)
          /\ req' = [req EXCEPT ![t] = [Idle EXCEPT !.step = "upsert", !.id = v, !.domain = d, !.payload = p,
                                                    !.seen = versions[v].state]]
    BY <1>3 DEF UpsertRead
  <2>2. p \in Payloads /\ versions[v].state \in States
    BY <2>1 DEF PayloadIssues, Payloads, TypeOK, VersionRow
  <2>3. [Idle EXCEPT !.step = "upsert", !.id = v, !.domain = d, !.payload = p,
                     !.seen = versions[v].state] \in Request
    BY <2>2 DEF Request
  <2>4. req' \in [Threads -> Request]
    BY <2>1, <2>3 DEF TypeOK
  <2>5. QED
    BY <1>3, <2>4 DEF TypeOK, UpsertRead, Editing, OnThread
<1>4. ASSUME NEW t \in Threads, UpsertCommit(t) PROVE TypeOK'
  <2>1. req[t].id \in Ids /\ req[t].domain \in Domains /\ req[t].payload \in Payloads
    BY DEF TypeOK, Request
  <2>2. bundles' \in [Ids -> Bundles]
    <3>1. [bundles[req[t].id] EXCEPT ![req[t].domain] = req[t].payload] \in Bundles
      BY <2>1 DEF TypeOK, Bundles
    <3>2. QED
      BY <1>4, <2>1, <3>1 DEF TypeOK, UpsertCommit
  <2>3. versions' \in [Ids -> VersionRow]
    BY <1>4, <2>1 DEF TypeOK, UpsertCommit, VersionRow, States
  <2>4. req' \in [Threads -> Request] /\ begun' \in Nat
    BY <1>4, ThreadRests DEF UpsertCommit
  <2>5. QED
    BY <1>4, <2>2, <2>3, <2>4 DEF TypeOK, UpsertCommit, OnThread
<1>5. ASSUME NEW t \in Threads, ValidateRead(t) PROVE TypeOK'
  <2>1. PICK v \in Ids :
          req' = [req EXCEPT ![t] = [Idle EXCEPT !.step = "validate", !.id = v, !.seen = versions[v].state]]
    BY <1>5 DEF ValidateRead
  <2>2. [Idle EXCEPT !.step = "validate", !.id = v, !.seen = versions[v].state] \in Request
    BY DEF Request, TypeOK, VersionRow
  <2>3. req' \in [Threads -> Request]
    BY <2>1, <2>2 DEF TypeOK
  <2>4. QED
    BY <1>5, <2>3 DEF TypeOK, ValidateRead, Editing, OnThread
<1>6. ASSUME NEW t \in Threads, ValidateCommit(t) PROVE TypeOK'
  <2>1. req[t].id \in Ids
    BY DEF TypeOK, Request
  <2>2. versions' \in [Ids -> VersionRow]
    BY <1>6, <2>1 DEF TypeOK, ValidateCommit, Validated, VersionRow, States
  <2>3. req' \in [Threads -> Request] /\ begun' \in Nat
    BY <1>6, ThreadRests DEF ValidateCommit
  <2>4. QED
    BY <1>6, <2>2, <2>3 DEF TypeOK, ValidateCommit, OnThread
<1>7. QED
  BY <1>1, <1>2, <1>3, <1>4, <1>5, <1>6 DEF Edit

LEMMA LoadType ==
  ASSUME TypeOK, NEW v \in Ids, Load(v)
  PROVE  cached' \in Snapshot /\ cached'.id = v /\ cached'.domains = bundles[v]
BY DEF Load, Snapshot, TypeOK

(* A repair of the bundles of a version.                                   *)
LEMMA RepairType ==
  ASSUME TypeOK, NEW v \in Ids, bundles' = [bundles EXCEPT ![v] = Restored(@)]
  PROVE  /\ bundles' \in [Ids -> Bundles]
         /\ \A w \in Ids : Issues(bundles[w]) = {} => Issues(bundles'[w]) = {}
BY RestoredFacts DEF TypeOK

LEMMA ReadType ==
  ASSUME TypeOK, NEW v \in Ids, ActivateRead(v)
  PROVE  TypeOK'
BY DEF TypeOK, ActivateRead, Coroutine, VersionRow

LEMMA PublishType == ASSUME TypeOK, OneActive, Publish PROVE TypeOK'
<1> USE Constants_
<1>1. CASE Activate
  BY <1>1, ReadType DEF Activate
<1>2. CASE Rollback
  BY <1>2, ReadType DEF Rollback
<1>3. CASE ActivateCommit
  <2>1. \A v \in Ids : versions[v] \in VersionRow /\ Retire(v) \in States
    BY DEF TypeOK, VersionRow, Retire, States
  <2>2. versions' \in [Ids -> VersionRow]
    BY <1>3, <2>1 DEF ActivateCommit, TypeOK, VersionRow, States
  <2>3. loop' \in Coroutine
    BY <1>3 DEF ActivateCommit, TypeOK, Coroutine
  <2>4. clock' \in Nat
    BY <1>3 DEF ActivateCommit, TypeOK
  <2>5. UNCHANGED <<bundles, policy, draining, up, cached, req, begun>>
    BY <1>3 DEF ActivateCommit
  <2>6. QED
    BY <2>2, <2>3, <2>4, <2>5 DEF TypeOK
<1>4. CASE Refresh
  <2>1. loop' \in Coroutine
    BY <1>4 DEF Refresh, TypeOK, Coroutine
  <2>2. bundles' \in [Ids -> Bundles] /\ cached' \in Snapshot
    BY <1>4, NewestActive, LoadType, RepairType DEF Refresh, TypeOK
  <2>3. QED
    BY <1>4, <2>1, <2>2 DEF Refresh, TypeOK
<1>5. CASE Release
  <2>1. loop.id \in Ids
    BY DEF TypeOK, Coroutine
  <2>2. policy' \in PolicyRow
    <3>1. policy \in [latest : Nat, min : Nat, content : Ids, minContent : Ids,
                      enforce : {"never", "pending", "due"}]
      BY DEF TypeOK, PolicyRow
    <3>2. policy' = [policy EXCEPT !.latest = @ + 1, !.content = loop.id, !.minContent = loop.id,
                                   !.enforce = "pending"]
      BY <1>5 DEF Release, ContentRelease, NextBuild
    <3>3. policy' = [latest |-> policy.latest + 1, min |-> policy.min, content |-> loop.id,
                     minContent |-> loop.id, enforce |-> "pending"]
      BY <3>1, <3>2
    <3>4. policy.latest + 1 \in Nat /\ policy.min \in Nat
      BY <3>1
    <3>5. QED
      BY <2>1, <3>3, <3>4 DEF PolicyRow
  <2>3. QED
    BY <1>5, <2>2 DEF Release, TypeOK
<1>6. CASE OpsActivate
  <2>1. ActiveKey \in Ids
    BY NewestActive DEF ActiveKey
  <2>2. PICK r \in Releases :
          LET content == Default0(r.content, ActiveKey) IN
          policy' = [latest |-> r.latest, min |-> Default0(r.min, r.latest), content |-> content,
                     minContent |-> Default0(r.minContent, content), enforce |-> "pending"]
    BY <1>6 DEF OpsActivate
  <2>3. r.latest \in Nat /\ r.min \in Nat /\ r.content \in Ids \cup {0} /\ r.minContent \in Ids \cup {0}
    <3>1. r \in [latest : Nat, min : Nat, content : 0..MaxVersions, minContent : 0..MaxVersions,
                  regression : BOOLEAN] /\ MaxVersions \in Nat \ {0}
      BY ContentAssumption, Zenon
    <3>2. QED
      BY <3>1 DEF Ids
  <2>4. policy' \in PolicyRow
    BY <2>1, <2>2, <2>3 DEF PolicyRow, Default0
  <2>5. QED
    BY <1>6, <2>4 DEF OpsActivate, TypeOK
<1>7. QED
  BY <1>1, <1>2, <1>3, <1>4, <1>5, <1>6 DEF Publish

LEMMA EnvironmentType == ASSUME TypeOK, OneActive, Environment PROVE TypeOK'
<1> USE Constants_
<1>1. CASE Startup
  <2>1. cached' \in Snapshot
    BY <1>1, NewestActive, LoadType DEF Startup
  <2>2. QED
    BY <1>1, <2>1 DEF Startup, TypeOK
<1>2. CASE Crash
  BY <1>2 DEF Crash, TypeOK
<1>3. CASE GraceEnds
  BY <1>3 DEF GraceEnds, TypeOK, PolicyRow
<1>4. CASE DrainEnds
  BY <1>4 DEF DrainEnds, TypeOK
<1>5. CASE SeedVersion
  <2>1. versions' \in [Ids -> VersionRow] /\ clock' \in Nat
    BY <1>5 DEF SeedVersion, TypeOK, VersionRow, States
  <2>2. QED
    BY <1>5, <2>1 DEF SeedVersion, TypeOK
<1>6. CASE SeedBundles
  <2>1. bundles' \in [Ids -> Bundles]
    BY <1>6, NewestActive, RepairType DEF SeedBundles
  <2>2. QED
    BY <1>6, <2>1 DEF SeedBundles, TypeOK
<1>7. QED
  BY <1>1, <1>2, <1>3, <1>4, <1>5, <1>6 DEF Environment

LEMMA TypeStep == ASSUME IndInv, [Next]_vars PROVE TypeOK'
<1>1. CASE UNCHANGED vars
  BY <1>1 DEF vars, IndInv, TypeOK
<1>2. QED
  BY <1>1, EditType, PublishType, EnvironmentType DEF Next, IndInv

-----------------------------------------------------------------------------
(* What each step does to the versions that are active. *)

Kept == up' = up /\ cached' = cached /\ loop' = loop

LEMMA EditActive ==
  ASSUME IndInv, Edit
  PROVE  /\ Active' \subseteq Active /\ Kept
         /\ \A v \in Ids : Issues(bundles[v]) = {} => Issues(bundles'[v]) = {}
<1> USE Constants_ DEF IndInv
<1>0. /\ versions \in [Ids -> VersionRow] /\ bundles \in [Ids -> Bundles]
      /\ \A t \in Threads : /\ req[t].id \in Ids /\ req[t].domain \in Domains
                            /\ req[t].payload \in Payloads
  BY DEF TypeOK, Request
<1>1. ASSUME NEW t \in Threads, CreateDraft(t) PROVE Active' \subseteq Active /\ Kept /\ bundles' = bundles
  BY <1>0, <1>1 DEF CreateDraft, Active, OnThread, Kept
<1>2. ASSUME NEW t \in Threads, CopyBundles(t)
      PROVE  /\ Active' \subseteq Active /\ Kept
             /\ \A v \in Ids : Issues(bundles[v]) = {} => Issues(bundles'[v]) = {}
  <2>1. Issues(Empty) # {}
    BY DEF Issues, Empty
  <2>2. \A v \in Ids : Issues(bundles[v]) = {} => bundles'[v] = bundles[v]
    BY <1>0, <1>2, <2>1 DEF CopyBundles
  <2>3. QED
    BY <1>2, <2>2 DEF CopyBundles, OnThread, Active, Kept
<1>3. ASSUME NEW t \in Threads, UpsertRead(t) PROVE Active' \subseteq Active /\ Kept /\ bundles' = bundles
  BY <1>3 DEF UpsertRead, Active, OnThread, Kept
<1>4. ASSUME NEW t \in Threads, UpsertCommit(t)
      PROVE  /\ Active' \subseteq Active /\ Kept
             /\ \A v \in Ids : Issues(bundles[v]) = {} => Issues(bundles'[v]) = {}
  <2>1. Active' \subseteq Active /\ Kept
    BY <1>0, <1>4 DEF UpsertCommit, Active, OnThread, Kept
  <2>2. req[t].payload # Absent /\ req[t].payload \notin Flaws
    <3>1. Edits \cap {"absent", "bad entry", "bad equipment"} = {}
      BY ContentAssumption, Zenon
    <3>2. QED
      BY <1>0, <3>1 DEF Payloads, Default, Absent, Flaws
  <2>3. ASSUME NEW v \in Ids, Issues(bundles[v]) = {} PROVE Issues(bundles'[v]) = {}
    <3>1. \A d \in Domains : bundles'[v][d] = bundles[v][d] \/ bundles'[v][d] = req[t].payload
      BY <1>0, <1>4 DEF UpsertCommit, Bundles
    <3>2. QED
      BY <2>2, <2>3, <3>1 DEF Issues, PayloadIssues
  <2>4. QED
    BY <2>1, <2>3
<1>5. ASSUME NEW t \in Threads, ValidateRead(t) PROVE Active' \subseteq Active /\ Kept /\ bundles' = bundles
  BY <1>5 DEF ValidateRead, Active, OnThread, Kept
<1>6. ASSUME NEW t \in Threads, ValidateCommit(t) PROVE Active' \subseteq Active /\ Kept /\ bundles' = bundles
  BY <1>0, <1>6 DEF ValidateCommit, Validated, Active, OnThread, Kept
<1>7. QED
  BY <1>1, <1>2, <1>3, <1>4, <1>5, <1>6 DEF Edit

(* Of the steps of the event loop, only the commit of an activation adds   *)
(* to the active versions, and it leaves no other.                         *)
LEMMA ActivateStep ==
  ASSUME IndInv, ActivateCommit
  PROVE  Active' \subseteq {loop.id} /\ loop'.step = "refresh" /\ loop'.id = loop.id /\ loop.step = "activate"
<1>1. loop.id \in Ids /\ versions \in [Ids -> VersionRow]
  BY DEF IndInv, TypeOK, Coroutine
<1>2. \A v \in Ids \ {loop.id} : versions'[v].state # "active"
  BY <1>1 DEF ActivateCommit, Retire, VersionRow
<1>3. loop'.step = "refresh" /\ loop'.id = loop.id /\ loop.step = "activate"
  BY DEF ActivateCommit, IndInv, TypeOK, Coroutine
<1>4. QED
  BY <1>2, <1>3 DEF Active

LEMMA RefreshStep ==
  ASSUME IndInv, Refresh, Active # {}
  PROVE  /\ Active' = Active /\ Active = {loop.id} /\ loop'.id = loop.id /\ up' = up
         /\ \A v \in Ids : Issues(bundles[v]) = {} => Issues(bundles'[v]) = {}
         /\ cached'.id = loop.id /\ Issues(cached'.domains) = {} /\ loop'.step = "release"
<1>1. /\ Active = {loop.id} /\ loop.id \in Ids /\ loop \in Coroutine /\ TypeOK
      /\ Issues(bundles[loop.id]) = {}
  BY DEF IndInv, CacheFollows, Refresh, TypeOK, Coroutine, UnderWay
<1>2. Newest(Active) = loop.id
  BY <1>1, NewestOnly
<1>3. Load(loop.id) /\ UNCHANGED bundles /\ loop' = [loop EXCEPT !.step = "release"]
  BY <1>1, <1>2 DEF Refresh
<1>4. cached'.id = loop.id /\ Issues(cached'.domains) = {}
  BY <1>1, <1>3, LoadType
<1>5. QED
  BY <1>1, <1>3, <1>4 DEF Refresh, Active, Coroutine

(* Nothing is served between the commits of a seed, and the version that   *)
(* a process then serves is complete.                                      *)
LEMMA SeedStep ==
  ASSUME IndInv, SeedVersion \/ SeedBundles
  PROVE  OneActive' /\ ~up' /\ loop' = loop /\ loop.step = "idle"
<1>1. loop.step = "idle" /\ Boot \in Ids /\ versions \in [Ids -> VersionRow]
  BY Constants_ DEF IndInv, UnderWay, TypeOK, SeedVersion, SeedBundles
<1>2. CASE SeedVersion
  BY <1>1, <1>2 DEF SeedVersion, Active, OneActive
<1>3. CASE SeedBundles
  BY <1>1, <1>3 DEF SeedBundles, Active, OneActive, IndInv
<1>4. QED
  BY <1>2, <1>3

LEMMA StartupStep ==
  ASSUME IndInv, Startup
  PROVE  /\ Active' \subseteq {cached'.id} /\ Issues(cached'.domains) = {}
         /\ ActiveComplete' /\ OneActive' /\ up' = TRUE /\ loop' = loop /\ loop.step = "idle"
<1>1. loop.step = "idle" /\ TypeOK /\ OneActive
  BY DEF IndInv, UnderWay, Startup
<1>2. /\ Active = {Newest(Active)} /\ Newest(Active) \in Ids
      /\ Issues(bundles[Newest(Active)]) = {} /\ Active' = Active
  BY <1>1, NewestActive DEF Startup, Active
<1>3. cached'.id = Newest(Active) /\ Issues(cached'.domains) = {}
  BY <1>1, <1>2, LoadType DEF Startup
<1>4. QED
  BY <1>1, <1>2, <1>3 DEF Startup, OneActive, ActiveComplete

-----------------------------------------------------------------------------
(* The invariant. *)

Rest == OneActive /\ ActiveComplete /\ UnderWay /\ CacheComplete /\ CacheFollows

LEMMA RestEdit == ASSUME IndInv, Edit PROVE Rest'
<1>1. /\ Active' \subseteq Active /\ Kept
      /\ \A v \in Ids : Issues(bundles[v]) = {} => Issues(bundles'[v]) = {}
  BY EditActive
<1>2. loop.id \in Ids /\ Active \subseteq Ids
  BY DEF IndInv, TypeOK, Coroutine, Active
<1>3. QED
  BY <1>1, <1>2 DEF IndInv, Rest, Kept, OneActive, ActiveComplete, UnderWay, CacheComplete, CacheFollows

LEMMA RestPublish == ASSUME IndInv, Publish PROVE Rest'
<1>0. loop.id \in Ids /\ Active \subseteq Ids /\ loop \in Coroutine
  BY DEF IndInv, TypeOK, Coroutine, Active
<1>1. ASSUME NEW v \in Ids, LoopFree, ActivateRead(v) PROVE Rest'
  <2>1. Active' = Active /\ loop'.id = v /\ loop'.step = "activate" /\ loop.step = "idle" /\ up
    BY <1>1 DEF ActivateRead, LoopFree, LoopIdle, Active
  <2>2. QED
    BY <1>1, <2>1 DEF ActivateRead, IndInv, Rest, OneActive, ActiveComplete, UnderWay, CacheComplete, CacheFollows
<1>2. CASE Activate \/ Rollback
  BY <1>1, <1>2 DEF Activate, Rollback
<1>3. CASE ActivateCommit
  <2>1. Active' \subseteq {loop.id} /\ loop'.step = "refresh" /\ loop'.id = loop.id /\ loop.step = "activate"
    BY <1>3, ActivateStep
  <2>2. Issues(bundles[loop.id]) = {} /\ up
    BY <2>1 DEF IndInv, UnderWay
  <2>3. UNCHANGED <<bundles, up, cached>>
    BY <1>3 DEF ActivateCommit
  <2>4. QED
    BY <2>1, <2>2, <2>3 DEF IndInv, Rest, OneActive, ActiveComplete, UnderWay, CacheComplete, CacheFollows
<1>4. CASE Refresh /\ Active # {}
  <2>1. /\ Active' = Active /\ Active = {loop.id} /\ loop'.id = loop.id /\ up' = up
        /\ \A v \in Ids : Issues(bundles[v]) = {} => Issues(bundles'[v]) = {}
        /\ cached'.id = loop.id /\ Issues(cached'.domains) = {} /\ loop'.step = "release"
    BY <1>4, RefreshStep
  <2>2. loop.step = "refresh"
    BY <1>4 DEF Refresh
  <2>3. QED
    BY <1>0, <2>1, <2>2 DEF IndInv, Rest, OneActive, ActiveComplete, UnderWay, CacheComplete, CacheFollows
<1>5. CASE Refresh /\ Active = {}
  <2>1. Active' = {} /\ loop'.step = "idle" /\ UNCHANGED <<bundles, cached, up>>
    BY <1>5 DEF Refresh, Active, LoopIdle
  <2>2. QED
    BY <2>1 DEF IndInv, Rest, OneActive, ActiveComplete, UnderWay, CacheComplete, CacheFollows
<1>6. CASE Release
  <2>1. Active' = Active /\ loop'.step = "idle" /\ loop.step = "release" /\ UNCHANGED <<bundles, cached, up>>
    BY <1>6 DEF Release, Active, LoopIdle
  <2>2. QED
    BY <2>1 DEF IndInv, Rest, OneActive, ActiveComplete, UnderWay, CacheComplete, CacheFollows
<1>7. CASE OpsActivate
  <2>1. Active' = Active /\ UNCHANGED <<loop, bundles, cached, up>>
    BY <1>7 DEF OpsActivate, Active
  <2>2. QED
    BY <2>1 DEF IndInv, Rest, OneActive, ActiveComplete, UnderWay, CacheComplete, CacheFollows
<1>8. QED
  BY <1>2, <1>3, <1>4, <1>5, <1>6, <1>7 DEF Publish

LEMMA RestEnvironment == ASSUME IndInv, Environment PROVE Rest'
<1>1. CASE Startup
  <2>1. /\ Active' \subseteq {cached'.id} /\ Issues(cached'.domains) = {}
        /\ ActiveComplete' /\ OneActive' /\ up' = TRUE /\ loop' = loop /\ loop.step = "idle"
    BY <1>1, StartupStep
  <2>2. QED
    BY <2>1 DEF Rest, UnderWay, CacheComplete, CacheFollows
<1>2. CASE Crash
  <2>1. Active' = Active /\ bundles' = bundles /\ up' = FALSE /\ loop'.step = "idle"
    BY <1>2 DEF Crash, Active, LoopIdle
  <2>2. QED
    BY <2>1 DEF IndInv, Rest, OneActive, ActiveComplete, UnderWay, CacheComplete, CacheFollows
<1>3. CASE GraceEnds \/ DrainEnds
  <2>1. Active' = Active /\ UNCHANGED <<loop, bundles, cached, up>>
    BY <1>3 DEF GraceEnds, DrainEnds, Active
  <2>2. QED
    BY <2>1 DEF IndInv, Rest, OneActive, ActiveComplete, UnderWay, CacheComplete, CacheFollows
<1>4. CASE SeedVersion \/ SeedBundles
  <2>1. OneActive' /\ ~up' /\ loop' = loop /\ loop.step = "idle"
    BY <1>4, SeedStep
  <2>2. QED
    BY <2>1 DEF Rest, ActiveComplete, UnderWay, CacheComplete, CacheFollows
<1>5. QED
  BY <1>1, <1>2, <1>3, <1>4 DEF Environment

(* At most one version is active, what is active and served is complete,   *)
(* also when a process died between the commits of its seed, and the cache *)
(* follows the activation under way.                                       *)
THEOREM ContentCoherent == Spec => []IndInv
<1>1. Init => IndInv
  <2> SUFFICES ASSUME Init PROVE IndInv
    OBVIOUS
  <2>1. Active = {} /\ ~up /\ loop.step = "idle"
    BY DEF Init, Active, NoVersion, LoopIdle
  <2>2. QED
    BY <2>1, TypeInit DEF IndInv, OneActive, ActiveComplete, UnderWay, CacheComplete, CacheFollows
<1>2. IndInv /\ [Next]_vars => IndInv'
  <2> SUFFICES ASSUME IndInv, [Next]_vars PROVE IndInv'
    OBVIOUS
  <2>1. CASE UNCHANGED vars
    BY <2>1, TypeStep DEF vars, IndInv, OneActive, ActiveComplete, UnderWay, CacheComplete, CacheFollows, Active
  <2>2. CASE Next
    BY <2>2, TypeStep, RestEdit, RestPublish, RestEnvironment DEF Next, IndInv, Rest
  <2>3. QED
    BY <2>1, <2>2
<1>3. QED
  BY <1>1, <1>2, PTL DEF Spec

(* When no activation is under way, the active version is the one served.  *)
THEOREM ActiveIsServed == Spec => []ServedIsActive
<1>1. IndInv => ServedIsActive
  BY DEF IndInv, CacheFollows, ServedIsActive, LoopIdle
<1>2. QED
  BY <1>1, ContentCoherent, PTL

(* No other step releases content. *)
LEMMA OnlyRelease == ASSUME IndInv, [Next]_vars, ReleaseStep PROVE Release
<1>0. loop.step = "release" /\ loop # LoopIdle /\ policy' # policy /\ policy'.enforce = "pending"
  BY DEF ReleaseStep, LoopIdle
<1>1. ~Edit
  BY <1>0 DEF Edit, OnThread, CreateDraft, CopyBundles, UpsertRead, UpsertCommit, ValidateRead, ValidateCommit
<1>2. ~Activate /\ ~Rollback /\ ~OpsActivate
  BY <1>0 DEF Activate, Rollback, OpsActivate, LoopFree
<1>3. ~ActivateCommit /\ ~Refresh
  BY <1>0 DEF ActivateCommit, Refresh
<1>4. ~GraceEnds
  <2>1. policy \in PolicyRow
    BY DEF IndInv, TypeOK
  <2>2. GraceEnds => policy'.enforce = "due"
    BY <2>1 DEF GraceEnds, PolicyRow
  <2>3. QED
    BY <1>0, <2>2
<1>5. ~SeedVersion /\ ~SeedBundles /\ ~Startup /\ ~Crash /\ ~DrainEnds
  BY <1>0 DEF SeedVersion, SeedBundles, Startup, Crash, DrainEnds
<1>6. QED
  BY <1>0, <1>1, <1>2, <1>3, <1>4, <1>5 DEF Next, Publish, Environment, vars

(* A content release demands the version that the process serves.          *)
THEOREM ReleasesServed == Spec => ReleasedIsServed
<1>1. IndInv /\ [Next]_vars => [ServesRelease]_vars
  <2> SUFFICES ASSUME IndInv, [Next]_vars, ReleaseStep PROVE policy'.minContent = cached'.id
    BY DEF ServesRelease
  <2>1. CASE Release
    BY <2>1 DEF Release, ContentRelease, IndInv, CacheFollows, TypeOK, PolicyRow, Coroutine
  <2>2. QED
    BY <2>1, OnlyRelease
<1>2. QED
  BY <1>1, ContentCoherent, PTL DEF Spec, ReleasedIsServed

(* A content release makes no client update available and forces none.     *)
THEOREM BinaryKept == Spec => ContentKeepsBinary
<1>1. IndInv /\ [Next]_vars => [KeepsBinary]_vars
  <2> SUFFICES ASSUME IndInv, [Next]_vars, ReleaseStep, policy.min <= policy.latest, NEW client \in 0..MaxBuild
               PROVE  /\ BuildUpdateAvailable(policy', client) => BuildUpdateAvailable(policy, client)
                      /\ client >= policy.min => ~ForceUpdate(policy', client, policy'.minContent)
    BY DEF KeepsBinary
  <2>0. policy.latest \in Nat /\ policy.min \in Nat /\ MaxBuild \in Nat
    BY ContentAssumption DEF IndInv, TypeOK, PolicyRow
  <2>1. CASE Release
    <3>1. policy'.latest = policy.latest + 1 /\ policy'.min = policy.min /\ policy'.enforce = "pending"
      BY <2>1 DEF Release, ContentRelease, NextBuild, IndInv, TypeOK, PolicyRow
    <3>2. QED
      BY <2>0, <3>1 DEF BuildUpdateAvailable, ForceUpdate
  <2>2. QED
    BY <2>1, OnlyRelease
<1>2. QED
  BY <1>1, ContentCoherent, PTL DEF Spec, ContentKeepsBinary

-----------------------------------------------------------------------------
(* Promotions: the inductive invariant.                                    *)

DoneTyped == done \in [promotions : 0..MaxPromotions, stages : Nat, pushes : Nat]

(* What a promotion has decided has one active version too, and an         *)
(* activation has a key and a pack.                                        *)
JobsCoherent ==
  \A d \in Designers :
    /\ Promoting(d) => OneVersionActive(job[d].manifest)
    /\ Activating(d) => job[d].key \in Keys /\ job[d].pack \in Packs

(* The manifest the repository stands for: while it has none, that of the  *)
(* files that ship with the backend.                                       *)
Published == IF repo.versions # None THEN repo.versions ELSE Disk

LatestFollows == repo.latest = Pointed(Published) /\ OneVersionActive(Published)

(* Every version of a manifest has its pack.                               *)
Stored(m, packs) == \A k \in DOMAIN m.versions : k \in DOMAIN packs /\ packs[k] = m.versions[k].pack
PacksAfter(d) == IF job[d].kind = "activate" THEN With(repo.packs, job[d].key, job[d].pack) ELSE repo.packs

(* What has gone wrong, and what is known of the runtime file and of the   *)
(* repository as long as it has not: while promotions do not overlap,      *)
(* there is a single one, and where it is says what the runtime file       *)
(* holds; while nothing is apart, that is between publishes what the       *)
(* repository has; and while nothing is lost, every pack is there.         *)
OneAtATime == \A d, e \in Designers : Promoting(d) /\ Promoting(e) => d = e
Between == \A d \in Designers : job[d].step \notin {"opened", "persisted", "built"}
PacksKept ==
  /\ Stored(Published, repo.packs)
  /\ \A d \in Designers :
       job[d].step \in {"decided", "opened", "persisted", "built"} => Stored(job[d].manifest, PacksAfter(d))

AmissOrdered ==
  /\ "overlapped" \in amiss => "apart" \in amiss
  /\ "apart" \in amiss => "lost" \in amiss
AloneCoherent ==
  "overlapped" \notin amiss =>
    /\ OneAtATime
    /\ \A d \in Designers : job[d].step = "opened" => runtime = Truncated
    /\ \A d \in Designers : job[d].step \in {"persisted", "built"} => runtime = job[d].manifest
TogetherCoherent == "apart" \notin amiss /\ Between => runtime = repo.versions
PacksCoherent == "lost" \notin amiss => PacksKept

(* While nothing was staged during them, the activations under way carry   *)
(* the staged pack, and one that is published has it in the repository.    *)
StageCoherent ==
  "restaged" \notin amiss =>
    \A d \in Designers : Activating(d) =>
      /\ stage \in {job[d].pack, None}
      /\ \A e \in Designers : Activating(e) => job[e].pack = job[d].pack
      /\ job[d].step = "published" => \E k \in DOMAIN repo.packs : repo.packs[k] = job[d].pack

PromotionInv ==
  /\ PromotionTypeOK /\ DoneTyped /\ StoresCoherent /\ JobsCoherent /\ LatestFollows
  /\ AmissOrdered /\ AloneCoherent /\ TogetherCoherent /\ PacksCoherent /\ StageCoherent

-----------------------------------------------------------------------------
(* Manifests.                                                              *)

LEMMA WithFacts ==
  ASSUME NEW f, NEW k, NEW x
  PROVE  /\ DOMAIN With(f, k, x) = DOMAIN f \cup {k} /\ With(f, k, x)[k] = x
         /\ \A j \in DOMAIN f \ {k} : With(f, k, x)[j] = f[j]
BY DEF With

LEMMA WithTyped ==
  ASSUME NEW S, NEW f \in UNION {[K -> S] : K \in SUBSET Keys}, NEW k \in Keys, NEW x \in S
  PROVE  With(f, k, x) \in UNION {[K -> S] : K \in SUBSET Keys}
<1>1. DOMAIN f \in SUBSET Keys /\ \A j \in DOMAIN f : f[j] \in S
  OBVIOUS
<1>2. With(f, k, x) \in [DOMAIN f \cup {k} -> S]
  BY <1>1 DEF With
<1>3. DOMAIN f \cup {k} \in SUBSET Keys
  BY <1>1
<1>4. QED
  BY <1>2, <1>3

LEMMA KeysAreKeys == None \notin Keys
BY PromotionAssumption DEF Keys

(* No version stays active, and the packs are the same.                    *)
LEMMA DeactivateFacts ==
  ASSUME NEW m \in Manifest, OneVersionActive(m)
  PROVE  LET n == DeactivateActive(m)
         IN /\ n \in Manifest /\ n.active = None
            /\ DOMAIN n.versions = DOMAIN m.versions
            /\ \A k \in DOMAIN m.versions :
                 ~n.versions[k].active /\ n.versions[k].pack = m.versions[k].pack
<1>1. /\ m.active \in Keys \cup {None} /\ DOMAIN m.versions \in SUBSET Keys
      /\ m.versions \in [DOMAIN m.versions -> Entry] /\ m = [active |-> m.active, versions |-> m.versions]
  BY DEF Manifest
<1>2. CASE m.active = None
  BY <1>1, <1>2, KeysAreKeys DEF DeactivateActive, OneVersionActive, Entry
<1>3. CASE m.active # None
  <2> DEFINE vs == [m.versions EXCEPT ![m.active].active = FALSE]
  <2>1. m.active \in DOMAIN m.versions
    BY <1>3 DEF OneVersionActive
  <2>2. /\ vs \in [DOMAIN m.versions -> Entry]
        /\ \A k \in DOMAIN m.versions : ~vs[k].active /\ vs[k].pack = m.versions[k].pack
    BY <1>1, <2>1 DEF Entry, OneVersionActive
  <2>3. DeactivateActive(m) = [active |-> None, versions |-> vs]
    BY <1>3 DEF DeactivateActive
  <2> HIDE DEF vs
  <2>4. DeactivateActive(m) \in Manifest
    BY <1>1, <2>2, <2>3 DEF Manifest
  <2>5. QED
    BY <2>2, <2>3, <2>4
<1>4. QED
  BY <1>2, <1>3

(* One version is active, a new one or one that was there.                 *)
LEMMA ActivatedFacts ==
  ASSUME NEW m \in Manifest, OneVersionActive(m), NEW k \in Keys, NEW pack \in Packs,
         NEW now \in 0..MaxPromotions
  PROVE  LET n == Activated(m, k, pack, now)
         IN /\ n \in Manifest /\ OneVersionActive(n)
            /\ DOMAIN n.versions = DOMAIN m.versions \cup {k} /\ n.versions[k].pack = pack
            /\ \A j \in DOMAIN m.versions \ {k} : n.versions[j].pack = m.versions[j].pack
<1> DEFINE off == DeactivateActive(m).versions
           entry == [pack |-> pack, active |-> TRUE, at |-> now]
           vs == With(off, k, entry)
<1>1. /\ off \in UNION {[K -> Entry] : K \in SUBSET Keys} /\ DOMAIN off = DOMAIN m.versions
      /\ \A j \in DOMAIN off : ~off[j].active /\ off[j].pack = m.versions[j].pack
  BY DeactivateFacts DEF Manifest
<1>2. entry \in Entry /\ entry.active /\ entry.pack = pack
  BY DEF Entry
<1> HIDE DEF off, entry
<1>3. vs \in UNION {[K -> Entry] : K \in SUBSET Keys}
  BY <1>1, <1>2, WithTyped
<1>4. /\ DOMAIN vs = DOMAIN off \cup {k} /\ vs[k] = entry
      /\ \A j \in DOMAIN off \ {k} : vs[j] = off[j]
  BY DEF With
<1>5. Activated(m, k, pack, now) = [active |-> k, versions |-> vs]
  BY DEF Activated, off, entry
<1> HIDE DEF vs
<1>6. Activated(m, k, pack, now) \in Manifest
  BY <1>3, <1>5 DEF Manifest
<1>7. OneVersionActive([active |-> k, versions |-> vs])
  BY <1>1, <1>2, <1>4 DEF OneVersionActive
<1>8. QED
  BY <1>1, <1>2, <1>4, <1>5, <1>6, <1>7

LEMMA DeactivatedOne ==
  ASSUME NEW m \in Manifest, OneVersionActive(m)
  PROVE  OneVersionActive(DeactivateActive(m))
BY DeactivateFacts, KeysAreKeys DEF OneVersionActive, Manifest

LEMMA DiskFacts == Disk \in Manifest /\ OneVersionActive(Disk)
<1>1. CASE Legacy = None
  <2>1. Disk = EmptyManifest
    BY <1>1 DEF Disk, FromPointer
  <2>2. [k \in {} |-> None] \in [{} -> Entry]
    OBVIOUS
  <2>3. EmptyManifest \in Manifest
    BY <2>2 DEF EmptyManifest, Manifest
  <2>4. QED
    BY <2>1, <2>3 DEF EmptyManifest, OneVersionActive
<1>2. CASE Legacy # None
  <2> DEFINE vs == [k \in {1} |-> Synthetic(Legacy)]
  <2>1. 1 \in Keys /\ Legacy \in Packs /\ None # 1 /\ 0 \in 0..MaxPromotions
    BY <1>2, PromotionAssumption DEF Keys
  <2>2. Disk = [active |-> 1, versions |-> vs]
    BY <1>2, <2>1 DEF Disk, FromPointer
  <2>3. Synthetic(Legacy) \in Entry /\ Synthetic(Legacy).active
    BY <2>1 DEF Synthetic, Entry
  <2>4. vs \in UNION {[K -> Entry] : K \in SUBSET Keys}
    <3>1. vs \in [{1} -> Entry] /\ {1} \in SUBSET Keys
      BY <2>1, <2>3
    <3>2. QED
      BY <3>1
  <2>5. OneVersionActive([active |-> 1, versions |-> vs])
    BY <2>3 DEF OneVersionActive
  <2> HIDE DEF vs
  <2>6. QED
    BY <2>1, <2>2, <2>4, <2>5 DEF Manifest
<1>3. QED
  BY <1>1, <1>2

LEMMA Loaded ==
  ASSUME PromotionInv, Loadable
  PROVE  LoadManifest \in Manifest /\ OneVersionActive(LoadManifest)
BY DiskFacts DEF Loadable, Unreadable, PromotionInv, PromotionTypeOK, StoresCoherent, LoadManifest

(* The key and pack of the pointer.                                        *)
LEMMA PointedFacts ==
  ASSUME NEW m \in Manifest, OneVersionActive(m)
  PROVE  /\ Pointed(m) \in Pointer /\ Pointed(m).key = m.active
         /\ m.active # None => Pointed(m).pack = m.versions[m.active].pack
BY DEF Pointed, Pointer, Manifest, Entry, OneVersionActive

-----------------------------------------------------------------------------
(* The steps.                                                              *)

Job == [step : {"idle", "decided", "opened", "persisted", "built", "published"},
        kind : {"none", "activate", "deactivate", "rollback"}, manifest : Manifest,
        key : Keys \cup {None}, pack : Packs \cup {None}, head : Nat]

LEMMA NoPromotionTyped == NoPromotion \in Job
<1>1. [k \in {} |-> None] \in [{} -> Entry]
  OBVIOUS
<1>2. EmptyManifest \in Manifest
  BY <1>1 DEF EmptyManifest, Manifest
<1>3. QED
  BY <1>2 DEF NoPromotion, Job

(* A promotion that begins: a manifest with one active version whose packs *)
(* will all be there if those of the manifest it was decided from are.     *)
LEMMA BeginSound ==
  ASSUME PromotionInv, NEW d \in Designers, NEW kind \in {"activate", "deactivate", "rollback"},
         NEW m \in Manifest, OneVersionActive(m), NEW key \in Keys \cup {None},
         NEW pack \in Packs \cup {None}, Begin(d, kind, m, key, pack),
         kind = "activate" => key \in Keys /\ pack \in Packs /\ stage = pack,
         Stored(LoadManifest, repo.packs) =>
           Stored(m, IF kind = "activate" THEN With(repo.packs, key, pack) ELSE repo.packs)
  PROVE  PromotionInv'
<1> DEFINE new == [step |-> "decided", kind |-> kind, manifest |-> m, key |-> key, pack |-> pack, head |-> 0]
<1>1. /\ ~Promoting(d) /\ done.promotions < MaxPromotions /\ done' = [done EXCEPT !.promotions = @ + 1]
      /\ job' = [job EXCEPT ![d] = new]
      /\ (\E e \in Designers : Promoting(e)) => {"overlapped", "apart", "lost"} \subseteq amiss'
      /\ (\A e \in Designers : ~Promoting(e))
           => "overlapped" \notin amiss' /\ \A x \in {"apart", "lost"} : x \in amiss' <=> x \in amiss
      /\ (\E e \in Designers : Activating(e)) /\ "restaged" \in amiss => "restaged" \in amiss'
      /\ amiss' \subseteq amiss \cup {"overlapped", "apart", "lost"}
      /\ UNCHANGED <<stage, runtime, staging, repo>>
  BY DEF Begin, Free, Overlapping, Activating
<1>2. new \in Job
  BY DEF Job
<1>3. job \in [Designers -> Job] /\ job'[d] = new /\ \A e \in Designers \ {d} : job'[e] = job[e]
  BY <1>1 DEF PromotionInv, PromotionTypeOK, Job
<1>4. PromotionTypeOK' /\ DoneTyped'
  BY <1>1, <1>2, PromotionAssumption DEF PromotionInv, PromotionTypeOK, DoneTyped, Job
<1>5. StoresCoherent' /\ LatestFollows'
  BY <1>1 DEF PromotionInv, StoresCoherent, LatestFollows, Published
<1>6. JobsCoherent'
  BY <1>3 DEF PromotionInv, JobsCoherent, Promoting, Activating
<1>7. AmissOrdered' /\ AloneCoherent' /\ TogetherCoherent' /\ PacksCoherent'
  <2>1. CASE \E e \in Designers : Promoting(e)
    BY <1>1, <2>1 DEF AmissOrdered, AloneCoherent, TogetherCoherent, PacksCoherent
  <2>2. CASE \A e \in Designers : ~Promoting(e)
    <3>1. \A e \in Designers \ {d} : job'[e].step = "idle"
      BY <1>3, <2>2 DEF Promoting
    <3>2. AmissOrdered' /\ AloneCoherent'
      BY <1>1, <1>3, <2>2, <3>1 DEF PromotionInv, AmissOrdered, AloneCoherent, OneAtATime, Promoting
    <3>3. "apart" \notin amiss => runtime = repo.versions
      BY <2>2 DEF PromotionInv, TogetherCoherent, Between, Promoting
    <3>4. TogetherCoherent'
      BY <1>1, <2>2, <3>3 DEF TogetherCoherent
    <3>5. PacksCoherent'
      <4> SUFFICES ASSUME "lost" \notin amiss PROVE PacksKept'
        BY <1>1, <2>2 DEF PacksCoherent
      <4>1. Stored(Published, repo.packs) /\ LoadManifest = Published
        BY <3>3 DEF PromotionInv, AmissOrdered, PacksCoherent, PacksKept, LoadManifest, Published
      <4>2. Stored(m, PacksAfter(d)')
        BY <1>1, <1>3, <4>1 DEF PacksAfter
      <4>3. QED
        BY <1>1, <1>3, <3>1, <4>1, <4>2 DEF PacksKept, Stored, Published
    <3>6. QED
      BY <3>2, <3>4, <3>5
  <2>3. QED
    BY <2>1, <2>2
<1>8. StageCoherent'
  <2> SUFFICES ASSUME "restaged" \notin amiss', NEW e \in Designers, Activating(e)'
               PROVE  /\ stage \in {job'[e].pack, None} /\ (job'[e].step = "published" => e # d)
                      /\ e # d => Activating(e) /\ "restaged" \notin amiss
                      /\ stage \in Packs => job'[e].pack = stage
    BY <1>1, <1>3, PromotionAssumption DEF PromotionInv, StageCoherent, Activating, Promoting
  <2>1. CASE e = d
    BY <1>3, <2>1 DEF Activating
  <2>2. CASE e # d
    <3>1. job'[e] = job[e] /\ Activating(e)
      BY <1>3, <2>2 DEF Activating, Promoting
    <3>2. "restaged" \notin amiss
      BY <1>1, <3>1
    <3>3. QED
      BY <2>2, <3>1, <3>2, PromotionAssumption DEF PromotionInv, StageCoherent
  <2>3. QED
    BY <2>1, <2>2
<1>9. QED
  BY <1>4, <1>5, <1>6, <1>7, <1>8 DEF PromotionInv

LEMMA ActivateSound ==
  ASSUME PromotionInv, NEW d \in Designers, ActivateStaged(d)
  PROVE  PromotionInv'
<1>1. PICK k \in NextKeys(LoadManifest) :
        Begin(d, "activate", Activated(LoadManifest, k, stage, Now), k, stage)
  BY DEF ActivateStaged
<1>0. Loadable /\ stage \in Packs
  BY DEF ActivateStaged
<1> DEFINE m == Activated(LoadManifest, k, stage, Now)
<1>2. /\ k \in Keys /\ k \notin DOMAIN LoadManifest.versions /\ stage \in Packs
      /\ Now \in 0..MaxPromotions
  <2>1. k \in Keys /\ \A j \in DOMAIN LoadManifest.versions : k > j
    BY DEF NextKeys
  <2>2. k \notin DOMAIN LoadManifest.versions
    BY <2>1 DEF Keys
  <2>3. done.promotions < MaxPromotions
    BY <1>1 DEF Begin
  <2>4. QED
    BY <1>0, <2>1, <2>2, <2>3, PromotionAssumption DEF Now, PromotionInv, DoneTyped
<1>3. /\ m \in Manifest /\ OneVersionActive(m)
      /\ DOMAIN m.versions = DOMAIN LoadManifest.versions \cup {k} /\ m.versions[k].pack = stage
      /\ \A j \in DOMAIN LoadManifest.versions \ {k} :
           m.versions[j].pack = LoadManifest.versions[j].pack
  BY <1>0, <1>2, Loaded, ActivatedFacts
<1> HIDE DEF m
<1>4. Stored(LoadManifest, repo.packs) => Stored(m, With(repo.packs, k, stage))
  BY <1>2, <1>3 DEF Stored, With
<1>5. QED
  BY <1>1, <1>2, <1>3, <1>4, BeginSound DEF m

LEMMA DeactivateSound ==
  ASSUME PromotionInv, NEW d \in Designers, Deactivate(d)
  PROVE  PromotionInv'
<1> DEFINE m == DeactivateActive(LoadManifest)
<1>1. Begin(d, "deactivate", m, None, None)
  BY DEF Deactivate
<1>2. /\ m \in Manifest /\ OneVersionActive(m) /\ DOMAIN m.versions = DOMAIN LoadManifest.versions
      /\ \A j \in DOMAIN LoadManifest.versions : m.versions[j].pack = LoadManifest.versions[j].pack
  BY Loaded, DeactivateFacts, DeactivatedOne DEF Deactivate
<1> HIDE DEF m
<1>3. Stored(LoadManifest, repo.packs) => Stored(m, repo.packs)
  BY <1>2 DEF Stored
<1>4. QED
  BY <1>1, <1>2, <1>3, BeginSound

LEMMA RollBackSound ==
  ASSUME PromotionInv, NEW d \in Designers, NEW k, RollBack(d, k)
  PROVE  PromotionInv'
<1> DEFINE pack == LoadManifest.versions[k].pack
           m == Activated(LoadManifest, k, pack, Now)
<1>1. Loadable /\ k \in DOMAIN LoadManifest.versions /\ Begin(d, "rollback", m, k, None)
  BY DEF RollBack
<1>2. k \in Keys /\ pack \in Packs /\ Now \in 0..MaxPromotions
  <2>1. done.promotions < MaxPromotions
    BY <1>1 DEF Begin
  <2>2. QED
    BY <1>1, <2>1, Loaded, PromotionAssumption DEF Manifest, Entry, Now, PromotionInv, DoneTyped
<1>3. /\ m \in Manifest /\ OneVersionActive(m)
      /\ DOMAIN m.versions = DOMAIN LoadManifest.versions
      /\ \A j \in DOMAIN LoadManifest.versions : m.versions[j].pack = LoadManifest.versions[j].pack
  <2>1. LoadManifest \in Manifest /\ OneVersionActive(LoadManifest)
    BY <1>1, Loaded
  <2> HIDE DEF pack
  <2>2. /\ m \in Manifest /\ OneVersionActive(m)
        /\ DOMAIN m.versions = DOMAIN LoadManifest.versions \cup {k} /\ m.versions[k].pack = pack
        /\ \A j \in DOMAIN LoadManifest.versions \ {k} :
             m.versions[j].pack = LoadManifest.versions[j].pack
    BY <1>2, <2>1, ActivatedFacts
  <2> HIDE DEF m
  <2>3. QED
    BY <1>1, <2>2 DEF pack
<1> HIDE DEF m
<1>4. Stored(LoadManifest, repo.packs) => Stored(m, repo.packs)
  BY <1>3 DEF Stored
<1>5. QED
  BY <1>1, <1>2, <1>3, <1>4, BeginSound

(* The manifest file is truncated, and then written.                       *)
LEMMA PersistSound ==
  ASSUME PromotionInv, NEW d \in Designers, OpenManifest(d) \/ WriteManifest(d)
  PROVE  PromotionInv'
<1> DEFINE opens == job[d].step = "decided" /\ runtime' = Truncated
           writes == job[d].step = "opened" /\ runtime' \in Written(runtime, job[d].manifest)
<1>1. /\ job' = [job EXCEPT ![d].step = IF opens THEN "opened" ELSE "persisted"]
      /\ opens \/ (writes /\ ~opens)
      /\ UNCHANGED <<stage, staging, repo, done, amiss>>
  BY DEF OpenManifest, WriteManifest
<1>2. /\ job \in [Designers -> Job] /\ job' \in [Designers -> Job]
      /\ job'[d].step = IF opens THEN "opened" ELSE "persisted"
      /\ job'[d].manifest = job[d].manifest /\ job'[d].kind = job[d].kind
      /\ job'[d].key = job[d].key /\ job'[d].pack = job[d].pack
      /\ \A e \in Designers \ {d} : job'[e] = job[e]
  BY <1>1 DEF PromotionInv, PromotionTypeOK, Job
<1>3. runtime' \in {Truncated, Garbled, job[d].manifest}
  BY <1>1 DEF Written
<1>4. PromotionTypeOK' /\ DoneTyped'
  <2>1. job[d].manifest \in Manifest
    BY <1>2 DEF Job
  <2>2. QED
    BY <1>1, <1>2, <1>3, <2>1 DEF PromotionInv, PromotionTypeOK, DoneTyped, Job
<1>5. /\ \A e \in Designers : (Promoting(e)' <=> Promoting(e)) /\ (Activating(e)' <=> Activating(e))
      /\ Promoting(d)
  BY <1>1, <1>2 DEF Promoting, Activating
<1>6. StoresCoherent' /\ LatestFollows' /\ JobsCoherent'
  BY <1>1, <1>2, <1>3, <1>5 DEF PromotionInv, StoresCoherent, LatestFollows, Published, JobsCoherent, Unreadable
<1>7. AmissOrdered' /\ AloneCoherent' /\ TogetherCoherent' /\ PacksCoherent'
  <2>1. AmissOrdered'
    BY <1>1 DEF PromotionInv, AmissOrdered
  <2>2. AloneCoherent'
    <3> SUFFICES ASSUME "overlapped" \notin amiss'
                 PROVE  /\ OneAtATime'
                        /\ \A e \in Designers : job'[e].step = "opened" => runtime' = Truncated
                        /\ \A e \in Designers : job'[e].step \in {"persisted", "built"} => runtime' = job'[e].manifest
      BY DEF AloneCoherent
    <3>1. OneAtATime /\ (job[d].step = "opened" => runtime = Truncated)
      BY <1>1 DEF PromotionInv, AloneCoherent
    <3>2. \A e \in Designers \ {d} : job'[e].step = "idle"
      BY <1>2, <1>5, <3>1 DEF OneAtATime, Promoting
    <3>3. IF opens THEN runtime' = Truncated ELSE runtime' = job[d].manifest
      BY <1>1, <3>1 DEF Written
    <3>4. QED
      BY <1>2, <1>5, <3>1, <3>2, <3>3 DEF OneAtATime
  <2>3. TogetherCoherent'
    BY <1>2 DEF TogetherCoherent, Between
  <2>4. PacksCoherent'
    BY <1>1, <1>2 DEF PromotionInv, PacksCoherent, PacksKept, PacksAfter, Stored, Published
  <2>5. QED
    BY <2>1, <2>2, <2>3, <2>4
<1>8. StageCoherent'
  BY <1>1, <1>2, <1>5 DEF PromotionInv, StageCoherent
<1>9. QED
  BY <1>4, <1>6, <1>7, <1>8 DEF PromotionInv

LEMMA ReadHeadSound ==
  ASSUME PromotionInv, NEW d \in Designers, ReadHead(d)
  PROVE  PromotionInv'
<1>1. /\ job[d].step = "persisted" /\ job' = [job EXCEPT ![d].step = "built", ![d].head = repo.head]
      /\ UNCHANGED <<stage, runtime, staging, repo, done, amiss>>
  BY DEF ReadHead
<1>2. /\ job \in [Designers -> Job] /\ job' \in [Designers -> Job] /\ job'[d].step = "built"
      /\ job'[d].manifest = job[d].manifest /\ job'[d].kind = job[d].kind
      /\ job'[d].key = job[d].key /\ job'[d].pack = job[d].pack
      /\ \A e \in Designers \ {d} : job'[e] = job[e]
  BY <1>1 DEF PromotionInv, PromotionTypeOK, Job
<1>3. PromotionTypeOK' /\ DoneTyped'
  BY <1>1, <1>2 DEF PromotionInv, PromotionTypeOK, DoneTyped, Job
<1>4. \A e \in Designers : (Promoting(e)' <=> Promoting(e)) /\ (Activating(e)' <=> Activating(e))
  BY <1>1, <1>2 DEF Promoting, Activating
<1>5. StoresCoherent' /\ LatestFollows' /\ JobsCoherent'
  BY <1>1, <1>2, <1>4 DEF PromotionInv, StoresCoherent, LatestFollows, Published, JobsCoherent
<1>6. AmissOrdered' /\ AloneCoherent' /\ TogetherCoherent' /\ PacksCoherent'
  <2>1. AmissOrdered' /\ AloneCoherent'
    BY <1>1, <1>2, <1>4 DEF PromotionInv, AmissOrdered, AloneCoherent, OneAtATime
  <2>2. TogetherCoherent'
    BY <1>2 DEF TogetherCoherent, Between
  <2>3. PacksCoherent'
    BY <1>1, <1>2 DEF PromotionInv, PacksCoherent, PacksKept, PacksAfter, Stored, Published
  <2>4. QED
    BY <2>1, <2>2, <2>3
<1>7. StageCoherent'
  BY <1>1, <1>2, <1>4 DEF PromotionInv, StageCoherent
<1>8. QED
  BY <1>3, <1>5, <1>6, <1>7 DEF PromotionInv

(* The branch moves: its manifest is the promotion's, and its packs those  *)
(* that were to be there.                                                  *)
LEMMA MoveBranchSound ==
  ASSUME PromotionInv, NEW d \in Designers, MoveBranch(d)
  PROVE  PromotionInv'
<1> DEFINE m == job[d].manifest
<1>1. /\ job[d].step = "built" /\ job' = [job EXCEPT ![d].step = "published"]
      /\ repo' = [head |-> repo.head + 1, latest |-> Pointed(m), versions |-> m, packs |-> PacksAfter(d)]
      /\ amiss' = IF "overlapped" \in amiss THEN amiss ELSE amiss \ {"apart"}
      /\ UNCHANGED <<stage, runtime, staging, done>>
  BY DEF MoveBranch, Pushed, PacksAfter
<1>2. /\ job \in [Designers -> Job] /\ job' \in [Designers -> Job] /\ job'[d].step = "published"
      /\ job'[d].manifest = m /\ job'[d].kind = job[d].kind
      /\ job'[d].key = job[d].key /\ job'[d].pack = job[d].pack
      /\ \A e \in Designers \ {d} : job'[e] = job[e]
  BY <1>1 DEF PromotionInv, PromotionTypeOK, Job
<1>3. /\ m \in Manifest /\ m # None /\ OneVersionActive(m) /\ Pointed(m) \in Pointer
      /\ Activating(d) => job[d].key \in Keys /\ job[d].pack \in Packs
  <2>1. Promoting(d) /\ m \in Manifest
    BY <1>1, <1>2 DEF Promoting, Job
  <2>2. QED
    BY <2>1, PointedFacts, NoManifest DEF PromotionInv, JobsCoherent
<1>4. PromotionTypeOK' /\ DoneTyped'
  <2>1. /\ repo.head \in Nat /\ repo.packs \in UNION {[K -> Packs] : K \in SUBSET Keys}
    BY DEF PromotionInv, PromotionTypeOK
  <2>2. PacksAfter(d) \in UNION {[K -> Packs] : K \in SUBSET Keys}
    <3>1. CASE job[d].kind = "activate"
      <4>1. Activating(d)
        BY <1>1, <3>1 DEF Activating, Promoting
      <4>2. QED
        BY <1>3, <2>1, <3>1, <4>1, WithTyped DEF PacksAfter
    <3>2. CASE job[d].kind # "activate"
      BY <2>1, <3>2 DEF PacksAfter
    <3>3. QED
      BY <3>1, <3>2
  <2> HIDE DEF m
  <2>3. repo' \in [head : Nat, latest : Pointer, versions : Manifest \cup {None},
                   packs : UNION {[K -> Packs] : K \in SUBSET Keys}]
    BY <1>1, <1>3, <2>1, <2>2
  <2>4. QED
    BY <1>1, <1>2, <2>3 DEF PromotionInv, PromotionTypeOK, DoneTyped, Job
<1>5. \A e \in Designers : (Promoting(e)' <=> Promoting(e)) /\ (Activating(e)' <=> Activating(e))
  BY <1>1, <1>2 DEF Promoting, Activating
<1>6. /\ repo'.versions = m /\ repo'.latest = Pointed(m) /\ repo'.packs = PacksAfter(d)
      /\ Published' = m
  BY <1>1, <1>3 DEF Published
<1>7. StoresCoherent' /\ LatestFollows' /\ JobsCoherent'
  <2>1. StoresCoherent'
    BY <1>1, <1>3, <1>6 DEF PromotionInv, StoresCoherent
  <2>2. LatestFollows'
    BY <1>3, <1>6 DEF LatestFollows
  <2>3. JobsCoherent'
    BY <1>2, <1>5 DEF PromotionInv, JobsCoherent
  <2>4. QED
    BY <2>1, <2>2, <2>3
<1>8. AmissOrdered' /\ AloneCoherent' /\ TogetherCoherent' /\ PacksCoherent'
  <2>1. CASE "overlapped" \in amiss
    BY <1>1, <2>1 DEF PromotionInv, AmissOrdered, AloneCoherent, TogetherCoherent, PacksCoherent
  <2>2. CASE "overlapped" \notin amiss
    <3>1. OneAtATime /\ runtime = m
      BY <1>1, <2>2 DEF PromotionInv, AloneCoherent
    <3>2. \A e \in Designers \ {d} : job'[e].step = "idle"
      BY <1>1, <1>2, <3>1 DEF OneAtATime, Promoting
    <3>3. "overlapped" \notin amiss' /\ "apart" \notin amiss' /\ ("lost" \notin amiss' <=> "lost" \notin amiss)
      BY <1>1, <2>2
    <3>4. OneAtATime'
      BY <1>5, <3>1 DEF OneAtATime
    <3>5. AmissOrdered' /\ AloneCoherent' /\ TogetherCoherent'
      BY <1>1, <1>2, <1>6, <3>1, <3>2, <3>3, <3>4 DEF AmissOrdered, AloneCoherent, TogetherCoherent
    <3>6. PacksCoherent'
      <4>1. "lost" \notin amiss => Stored(m, PacksAfter(d))
        BY <1>1 DEF PromotionInv, PacksCoherent, PacksKept
      <4>2. QED
        BY <1>2, <1>6, <3>2, <3>3, <4>1 DEF PacksCoherent, PacksKept, Stored
    <3>7. QED
      BY <3>5, <3>6
  <2>3. QED
    BY <2>1, <2>2
<1>9. StageCoherent'
  <2> SUFFICES ASSUME "restaged" \notin amiss, NEW e \in Designers, Activating(e),
                      job'[e].step = "published"
               PROVE  \E k \in DOMAIN repo'.packs : repo'.packs[k] = job[e].pack
    BY <1>1, <1>2, <1>5 DEF PromotionInv, StageCoherent
  <2>1. CASE Activating(d)
    <3>1. repo'.packs = With(repo.packs, job[d].key, job[d].pack) /\ job[e].pack = job[d].pack
      BY <1>6, <2>1 DEF PromotionInv, StageCoherent, Activating, PacksAfter
    <3>2. job[d].key \in DOMAIN repo'.packs /\ repo'.packs[job[d].key] = job[d].pack
      BY <3>1 DEF With
    <3>3. QED
      BY <3>1, <3>2
  <2>2. CASE ~Activating(d)
    <3>1. repo'.packs = repo.packs /\ e # d
      BY <1>1, <1>6, <2>2 DEF Activating, Promoting, PacksAfter
    <3>2. QED
      BY <1>2, <3>1 DEF PromotionInv, StageCoherent
  <2>3. QED
    BY <2>1, <2>2
<1>10. QED
  BY <1>4, <1>7, <1>8, <1>9 DEF PromotionInv

(* A promotion that ends, failed or finished.                              *)
LEMMA EndFacts ==
  ASSUME PromotionInv, NEW d \in Designers, job' = [job EXCEPT ![d] = NoPromotion]
  PROVE  /\ job \in [Designers -> Job] /\ job' \in [Designers -> Job]
         /\ job'[d].step = "idle" /\ \A e \in Designers \ {d} : job'[e] = job[e]
         /\ JobsCoherent'
<1>1. /\ job \in [Designers -> Job] /\ job' \in [Designers -> Job]
      /\ job'[d].step = "idle" /\ \A e \in Designers \ {d} : job'[e] = job[e]
  BY NoPromotionTyped DEF PromotionInv, PromotionTypeOK, Job, NoPromotion
<1>2. QED
  BY <1>1 DEF PromotionInv, JobsCoherent, Promoting, Activating

LEMMA FailSound ==
  ASSUME PromotionInv, NEW d \in Designers, Fail(d)
  PROVE  PromotionInv'
<1>1. /\ job' = [job EXCEPT ![d] = NoPromotion] /\ runtime' \in {runtime, Garbled} /\ Promoting(d)
      /\ \/ job[d].step \in {"decided", "published"} /\ runtime' = runtime /\ amiss' = amiss
         \/ amiss' = amiss \cup {"apart", "lost"}
      /\ UNCHANGED <<stage, staging, repo, done>>
  BY DEF Fail
<1>2. /\ job' \in [Designers -> Job] /\ job'[d].step = "idle"
      /\ \A e \in Designers \ {d} : job'[e] = job[e]
      /\ JobsCoherent'
  BY <1>1, EndFacts
<1>3. PromotionTypeOK' /\ DoneTyped'
  BY <1>1, <1>2 DEF PromotionInv, PromotionTypeOK, DoneTyped, Job
<1>4. StoresCoherent' /\ LatestFollows'
  BY <1>1 DEF PromotionInv, StoresCoherent, LatestFollows, Published, Unreadable
<1>5. AmissOrdered' /\ AloneCoherent' /\ TogetherCoherent' /\ PacksCoherent'
  <2>1. AmissOrdered'
    BY <1>1 DEF PromotionInv, AmissOrdered
  <2>2. "overlapped" \notin amiss => \A e \in Designers : job'[e].step = "idle"
    BY <1>1, <1>2 DEF PromotionInv, AloneCoherent, OneAtATime, Promoting
  <2>3. AloneCoherent'
    BY <1>1, <2>2 DEF AloneCoherent, OneAtATime, Promoting
  <2>4. TogetherCoherent'
    <3> SUFFICES ASSUME "apart" \notin amiss' PROVE runtime' = repo.versions
      BY <1>1 DEF TogetherCoherent
    <3>1. /\ "overlapped" \notin amiss /\ "apart" \notin amiss /\ runtime' = runtime
          /\ job[d].step \in {"decided", "published"}
      BY <1>1 DEF PromotionInv, AmissOrdered
    <3>2. Between
      BY <1>2, <2>2, <3>1 DEF Between
    <3>3. QED
      BY <3>1, <3>2 DEF PromotionInv, TogetherCoherent
  <2>5. PacksCoherent'
    BY <1>1, <1>2 DEF PromotionInv, PacksCoherent, PacksKept, PacksAfter, Stored, Published
  <2>6. QED
    BY <2>1, <2>3, <2>4, <2>5
<1>6. StageCoherent'
  BY <1>1, <1>2 DEF PromotionInv, StageCoherent, Activating, Promoting
<1>7. QED
  BY <1>2, <1>3, <1>4, <1>5, <1>6 DEF PromotionInv

LEMMA FinishSound ==
  ASSUME PromotionInv, NEW d \in Designers, Finish(d)
  PROVE  PromotionInv'
<1>1. /\ job[d].step = "published" /\ job' = [job EXCEPT ![d] = NoPromotion] /\ stage' \in {stage, None}
      /\ staging' \in {staging, [e \in Designers |-> None]}
      /\ UNCHANGED <<runtime, repo, done, amiss>>
  BY DEF Finish, Clear
<1>2. /\ job' \in [Designers -> Job] /\ job'[d].step = "idle"
      /\ \A e \in Designers \ {d} : job'[e] = job[e]
      /\ JobsCoherent'
  BY <1>1, EndFacts
<1>3. PromotionTypeOK' /\ DoneTyped'
  BY <1>1, <1>2 DEF PromotionInv, PromotionTypeOK, DoneTyped, Job
<1>4. StoresCoherent' /\ LatestFollows'
  BY <1>1 DEF PromotionInv, StoresCoherent, LatestFollows, Published
<1>5. AmissOrdered' /\ AloneCoherent' /\ TogetherCoherent' /\ PacksCoherent'
  <2>1. AmissOrdered' /\ AloneCoherent'
    BY <1>1, <1>2 DEF PromotionInv, AmissOrdered, AloneCoherent, OneAtATime, Promoting
  <2>2. TogetherCoherent'
    BY <1>1, <1>2 DEF PromotionInv, TogetherCoherent, Between
  <2>3. PacksCoherent'
    BY <1>1, <1>2 DEF PromotionInv, PacksCoherent, PacksKept, PacksAfter, Stored, Published
  <2>4. QED
    BY <2>1, <2>2, <2>3
<1>6. StageCoherent'
  BY <1>1, <1>2 DEF PromotionInv, StageCoherent, Activating, Promoting
<1>7. QED
  BY <1>2, <1>3, <1>4, <1>5, <1>6 DEF PromotionInv

(* What is done to the stage file while an activation is under way.        *)
LEMMA StageSound ==
  ASSUME PromotionInv, NEW d \in Designers,
         (\E p \in Packs : OpenStage(d, p)) \/ WriteStage(d) \/ StageStops(d)
  PROVE  PromotionInv'
<1>1. /\ Restage /\ UNCHANGED <<runtime, repo, job>>
      /\ done' \in {done, [done EXCEPT !.stages = @ + 1]}
  BY DEF OpenStage, WriteStage, StageStops
<1>2. /\ staging \in [Designers -> Packs \cup {None}] /\ stage \in Packs \cup {None, Truncated, Garbled}
      /\ amiss \subseteq {"overlapped", "restaged", "apart", "lost"}
  BY DEF PromotionInv, PromotionTypeOK
<1>3. /\ staging' \in [Designers -> Packs \cup {None}]
      /\ stage' \in Packs \cup {None, Truncated, Garbled}
  <2>1. ASSUME NEW p \in Packs, OpenStage(d, p)
        PROVE  /\ staging' \in [Designers -> Packs \cup {None}]
               /\ stage' \in Packs \cup {None, Truncated, Garbled}
    BY <1>2, <2>1 DEF OpenStage
  <2>2. CASE WriteStage(d)
    BY <1>2, <2>2 DEF WriteStage, Written
  <2>3. CASE StageStops(d)
    BY <1>2, <2>3 DEF StageStops
  <2>4. QED
    BY <2>1, <2>2, <2>3
<1>4. PromotionTypeOK' /\ DoneTyped'
  <2>1. amiss' \subseteq {"overlapped", "restaged", "apart", "lost"}
        /\ done' \in [promotions : 0..MaxPromotions, stages : Nat, pushes : Nat]
    BY <1>1, <1>2 DEF Restage, PromotionInv, DoneTyped
  <2>2. QED
    BY <1>1, <1>3, <2>1 DEF PromotionInv, PromotionTypeOK, DoneTyped
<1>5. StoresCoherent' /\ LatestFollows' /\ JobsCoherent'
  BY <1>1 DEF PromotionInv, StoresCoherent, LatestFollows, Published, JobsCoherent, Promoting, Activating
<1>6. AmissOrdered' /\ AloneCoherent' /\ TogetherCoherent' /\ PacksCoherent'
  <2>1. \A x \in {"overlapped", "apart", "lost"} : x \in amiss' <=> x \in amiss
    BY <1>1 DEF Restage
  <2>2. QED
    BY <1>1, <2>1 DEF PromotionInv, AmissOrdered, AloneCoherent, TogetherCoherent, PacksCoherent, OneAtATime,
                      Between, Promoting, PacksKept, PacksAfter, Stored, Published
<1>7. StageCoherent'
  BY <1>1 DEF StageCoherent, Activating, Promoting, Restage
<1>8. QED
  BY <1>4, <1>5, <1>6, <1>7 DEF PromotionInv

LEMMA OtherPushSound ==
  ASSUME PromotionInv, OtherPush
  PROVE  PromotionInv'
<1>1. /\ done' = [done EXCEPT !.pushes = @ + 1] /\ repo' = [repo EXCEPT !.head = @ + 1]
      /\ UNCHANGED <<stage, runtime, staging, job, amiss>>
  BY DEF OtherPush
<1>2. PromotionTypeOK' /\ DoneTyped'
  BY <1>1 DEF PromotionInv, PromotionTypeOK, DoneTyped
<1>3. repo'.latest = repo.latest /\ repo'.versions = repo.versions /\ repo'.packs = repo.packs
  BY <1>1 DEF PromotionInv, PromotionTypeOK
<1>4. StoresCoherent' /\ LatestFollows' /\ JobsCoherent'
  BY <1>1, <1>3 DEF PromotionInv, StoresCoherent, LatestFollows, Published, JobsCoherent, Promoting, Activating
<1>5. AmissOrdered' /\ AloneCoherent' /\ TogetherCoherent' /\ PacksCoherent'
  BY <1>1, <1>3 DEF PromotionInv, AmissOrdered, AloneCoherent, TogetherCoherent, PacksCoherent, OneAtATime,
                    Between, Promoting, PacksKept, PacksAfter, Stored, Published
<1>6. StageCoherent'
  BY <1>1, <1>3 DEF PromotionInv, StageCoherent, Activating, Promoting
<1>7. QED
  BY <1>2, <1>4, <1>5, <1>6 DEF PromotionInv

-----------------------------------------------------------------------------
LEMMA PromotionStarts == PromotionInit => PromotionInv
<1> SUFFICES ASSUME PromotionInit PROVE PromotionInv
  OBVIOUS
<1>1. Disk \in Manifest /\ OneVersionActive(Disk) /\ Pointed(Disk) \in Pointer
  BY DiskFacts, PointedFacts
<1> DEFINE packs == [k \in DOMAIN Disk.versions |-> Disk.versions[k].pack]
<1>2. packs \in UNION {[K -> Packs] : K \in SUBSET Keys}
  <2>1. /\ DOMAIN Disk.versions \in SUBSET Keys
        /\ \A k \in DOMAIN Disk.versions : Disk.versions[k].pack \in Packs
    BY <1>1 DEF Manifest, Entry
  <2>2. packs \in [DOMAIN Disk.versions -> Packs]
    BY <2>1
  <2>3. QED
    BY <2>1, <2>2
<1>3. /\ repo = [head |-> 1, latest |-> Pointed(Disk), versions |-> None, packs |-> packs]
      /\ Published = Disk /\ \A d \in Designers : job[d] = NoPromotion
  BY DEF PromotionInit, Published
<1>4. PromotionTypeOK /\ DoneTyped
  <2>1. job \in [Designers -> Job]
    BY NoPromotionTyped DEF PromotionInit
  <2> HIDE DEF packs
  <2>2. repo \in [head : Nat, latest : Pointer, versions : Manifest \cup {None},
                  packs : UNION {[K -> Packs] : K \in SUBSET Keys}]
    BY <1>1, <1>2, <1>3
  <2>3. QED
    BY <2>1, <2>2, PromotionAssumption DEF PromotionInit, PromotionTypeOK, DoneTyped, Job
<1>5. \A d \in Designers : ~Promoting(d) /\ job[d].step = "idle"
  BY <1>3 DEF Promoting, NoPromotion
<1>6. StoresCoherent /\ JobsCoherent /\ LatestFollows
  BY <1>1, <1>3, <1>5 DEF PromotionInit, StoresCoherent, JobsCoherent, LatestFollows, Activating
<1>7. AmissOrdered /\ AloneCoherent /\ TogetherCoherent /\ PacksCoherent
  BY <1>3, <1>5 DEF PromotionInit, AmissOrdered, AloneCoherent, TogetherCoherent, PacksCoherent, OneAtATime,
                    PacksKept, Stored
<1>8. StageCoherent
  BY <1>5 DEF StageCoherent, Activating
<1>9. QED
  BY <1>4, <1>6, <1>7, <1>8 DEF PromotionInv

(* The invariant of promotions, for any packs, designers and bounds.       *)
THEOREM PromotionCoherent == PromotionSpec => []PromotionInv
<1>1. PromotionInv /\ [PromotionNext]_promotionVars => PromotionInv'
  <2> SUFFICES ASSUME PromotionInv, [PromotionNext]_promotionVars PROVE PromotionInv'
    OBVIOUS
  <2>1. ASSUME NEW d \in Designers,
               (\E p \in Packs : OpenStage(d, p)) \/ WriteStage(d) \/ StageStops(d)
        PROVE  PromotionInv'
    BY <2>1, StageSound
  <2>2. ASSUME NEW d \in Designers, ActivateStaged(d) PROVE PromotionInv'
    BY <2>2, ActivateSound
  <2>3. ASSUME NEW d \in Designers, Deactivate(d) PROVE PromotionInv'
    BY <2>3, DeactivateSound
  <2>4. ASSUME NEW d \in Designers, NEW k \in Keys, RollBack(d, k) PROVE PromotionInv'
    BY <2>4, RollBackSound
  <2>5. ASSUME NEW d \in Designers, RollBackToPrevious(d) PROVE PromotionInv'
    BY <2>5, RollBackSound DEF RollBackToPrevious
  <2>6. ASSUME NEW d \in Designers, OpenManifest(d) \/ WriteManifest(d) PROVE PromotionInv'
    BY <2>6, PersistSound
  <2>7. ASSUME NEW d \in Designers, ReadHead(d) PROVE PromotionInv'
    BY <2>7, ReadHeadSound
  <2>8. ASSUME NEW d \in Designers, MoveBranch(d) PROVE PromotionInv'
    BY <2>8, MoveBranchSound
  <2>9. ASSUME NEW d \in Designers, Fail(d) PROVE PromotionInv'
    BY <2>9, FailSound
  <2>10. ASSUME NEW d \in Designers, Finish(d) PROVE PromotionInv'
    BY <2>10, FinishSound
  <2>11. CASE OtherPush
    BY <2>11, OtherPushSound
  <2>12. CASE UNCHANGED promotionVars
    BY <2>12 DEF promotionVars, PromotionInv, PromotionTypeOK, DoneTyped, StoresCoherent, LatestFollows,
                 Published, JobsCoherent, AmissOrdered, AloneCoherent, TogetherCoherent, PacksCoherent,
                 OneAtATime, Between, Promoting, PacksKept, PacksAfter, Stored, StageCoherent, Activating
  <2>13. QED
    BY <2>1, <2>2, <2>3, <2>4, <2>5, <2>6, <2>7, <2>8, <2>9, <2>10, <2>11, <2>12 DEF PromotionNext
<1>2. QED
  BY PromotionStarts, <1>1, PTL DEF PromotionSpec

(* One version is active in every manifest that can be read, the latest    *)
(* pointer of the repository is that of its manifest, and the runtime file *)
(* can be read but while it is written and, until a promotion by itself is *)
(* published, after one that was cut or overlapped.                        *)
THEOREM ManifestsHold == PromotionSpec => []ManifestsCoherent
<1>1. PromotionInv => ManifestsCoherent
  <2> SUFFICES ASSUME PromotionInv PROVE FileReadable
    BY DEF PromotionInv, ManifestsCoherent
  <2> SUFFICES ASSUME "apart" \notin amiss, runtime \in Unreadable, \A d \in Designers : job[d].step # "opened"
               PROVE  FALSE
    BY DEF FileReadable
  <2>1. "overlapped" \notin amiss
    BY DEF PromotionInv, AmissOrdered
  <2>2. runtime \in Manifest \cup {None}
    <3>1. repo.versions \in Manifest \cup {None} /\ \A d \in Designers : job[d].manifest \in Manifest
      BY DEF PromotionInv, PromotionTypeOK
    <3>2. CASE Between
      BY <3>1, <3>2 DEF PromotionInv, TogetherCoherent
    <3>3. CASE ~Between
      BY <2>1, <3>1, <3>3 DEF PromotionInv, AloneCoherent, Between
    <3>4. QED
      BY <3>2, <3>3
  <2>3. QED
    BY <2>2, NoManifest, PromotionAssumption DEF Unreadable
<1>2. QED
  BY <1>1, PromotionCoherent, PTL

(* Between promotions the repository says what the backend does, again     *)
(* after each one that is published by itself, and has the pack of what is *)
(* active until one was cut or overlapped.                                 *)
THEOREM RepoHolds == PromotionSpec => []RepoFollows
<1>1. PromotionInv => RepoFollows
  <2> SUFFICES ASSUME PromotionInv, \A d \in Designers : ~Promoting(d)
               PROVE  /\ "apart" \notin amiss => runtime = repo.versions
                      /\ "lost" \notin amiss /\ repo.latest.key # None
                           => /\ repo.latest.key \in DOMAIN repo.packs
                              /\ repo.packs[repo.latest.key] = repo.latest.pack
    BY DEF RepoFollows
  <2>1. /\ "apart" \notin amiss => runtime = repo.versions
        /\ "lost" \notin amiss => Stored(Published, repo.packs)
    BY DEF PromotionInv, TogetherCoherent, Between, PacksCoherent, PacksKept, Promoting
  <2>2. Published \in Manifest /\ OneVersionActive(Published) /\ repo.latest = Pointed(Published)
    BY DiskFacts DEF PromotionInv, PromotionTypeOK, LatestFollows, Published
  <2>3. repo.latest.key # None =>
          /\ repo.latest.key \in DOMAIN Published.versions
          /\ repo.latest.pack = Published.versions[repo.latest.key].pack
    BY <2>2, PointedFacts DEF OneVersionActive
  <2>4. QED
    BY <2>1, <2>3 DEF Stored
<1>2. QED
  BY <1>1, PromotionCoherent, PTL

(* A staged pack is not cleared before it was published.                   *)
THEOREM StagesKept == PromotionSpec => StageKept
<1>1. PromotionInv /\ [PromotionNext]_promotionVars => [PackCleared]_promotionVars
  <2> SUFFICES ASSUME PromotionInv, PromotionNext, stage # None, stage' = None, "restaged" \notin amiss
               PROVE  \E k \in DOMAIN repo.packs : repo.packs[k] = stage
    BY DEF PackCleared
  <2>1. PICK d \in Designers : Finish(d)
    <3>1. ASSUME NEW d \in Designers
          PROVE  ~WriteStage(d) /\ ~StageStops(d) /\ \A p \in Packs : ~OpenStage(d, p)
      <4>1. staging[d] # None => staging[d] \in Packs
        BY DEF PromotionInv, PromotionTypeOK
      <4>2. QED
        BY <4>1, PromotionAssumption DEF OpenStage, WriteStage, StageStops, Written
    <3>2. QED
      BY <3>1 DEF PromotionNext, ActivateStaged, Deactivate, RollBackToPrevious, RollBack, Begin, OpenManifest,
                  WriteManifest, ReadHead, MoveBranch, Fail, OtherPush
  <2>2. Activating(d) /\ job[d].step = "published"
    BY <2>1 DEF Finish, Activating, Promoting
  <2>3. QED
    BY <2>2 DEF PromotionInv, StageCoherent
<1>2. QED
  BY <1>1, PromotionCoherent, PTL DEF PromotionSpec, StageKept
=============================================================================
