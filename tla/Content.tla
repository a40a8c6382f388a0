------------------------------ MODULE Content ------------------------------
(* Content versions and the release policy.                                *)
(*                                                                         *)
(* A content version is a set of bundles, one per domain, that goes from   *)
(* draft to validated to active to retired.  The process serves a cached   *)
(* snapshot of the active version.  Activations, rollbacks and releases    *)
(* are coroutines that never yield before their last commit: the event     *)
(* loop runs one at a time.  Creating, editing and validating a version    *)
(* are plain functions on threads, which read a row, decide, and commit    *)
(* later the columns they have changed, whatever was committed meanwhile.  *)
(*                                                                         *)
(* A version's key is its id here; the one of id Boot is the key of the    *)
(* bootstrap version, which is unique like any other.  A payload is known  *)
(* by its name, or by the flaw validation finds in it.  Release records repeat the *)
(* policy in its own commit and are left out, and so is the second check   *)
(* of the drain capacity, which PublishDrain models.                       *)
EXTENDS Naturals, FiniteSets

CONSTANTS
  Domains,        \* required content domains
  Edits,          \* payloads an editor may send and validation accepts
  Threads,        \* editing requests served at the same time
  Phase,          \* content_feature_phase
  Releases,       \* what the release pipeline may ask for
  MaxVersions,    \* bound: content versions
  MaxActivations, \* bound: activations
  MaxBuild,       \* bound: build numbers
  MaxEdits        \* bound: editing requests

ASSUME ContentAssumption ==
  /\ Domains # {} /\ Edits \subseteq STRING
  /\ Edits \cap {"absent", "bad entry", "bad equipment"} = {}
  /\ Releases \subseteq [latest : Nat, min : Nat, content : 0..MaxVersions, minContent : 0..MaxVersions,
                         regression : BOOLEAN]
  /\ MaxVersions \in Nat \ {0} /\ MaxActivations \in Nat /\ MaxBuild \in Nat
  /\ MaxEdits \in Nat

VARIABLES
  versions,  \* rows of content_versions
  bundles,   \* rows of content_bundles
  policy,    \* the row of release_policy
  draining,  \* a publish drain is under way
  up,        \* the process runs
  cached,    \* _cached_snapshot
  loop,      \* the coroutine on the event loop
  req,       \* the request of each thread
  clock,     \* activations so far, the time of activated_at
  begun      \* editing requests so far

vars == <<versions, bundles, policy, draining, up, cached, loop, req, clock, begun>>

Ids == 1..MaxVersions
Boot == 1
Default == "default"
Absent == "absent"
Flaws == {"bad entry", "bad equipment"}
States == {"none", "draft", "validated", "active", "retired"}

Payloads == {Default} \cup Edits
VersionRow == [state : States, at : Nat]      \* at: activated_at, 0 for null
Bundles == [Domains -> Payloads \cup {Absent}]
PolicyRow == [latest : Nat, min : Nat, content : Ids, minContent : Ids,
              enforce : {"never", "pending", "due"}]
Snapshot == [id : Ids \cup {0}, domains : Bundles]
Coroutine == [step : {"idle", "activate", "refresh", "release"}, id : Ids, seen : States]
Request == [step : {"idle", "copy", "upsert", "validate"}, id : Ids, seen : States, from : Ids,
            domain : Domains, payload : Payloads]

Empty == [d \in Domains |-> Absent]
NoVersion == [state |-> "none", at |-> 0]
NoSnapshot == [id |-> 0, domains |-> Empty]
LoopIdle == [step |-> "idle", id |-> Boot, seen |-> "none"]
AnyDomain == CHOOSE d \in Domains : TRUE
Idle == [step |-> "idle", id |-> Boot, seen |-> "none", from |-> Boot,
         domain |-> AnyDomain, payload |-> Default]

-----------------------------------------------------------------------------
(* Validation. *)

PayloadIssues(p) == p \in Flaws

Issues(b) == {d \in Domains : b[d] = Absent \/ PayloadIssues(b[d])}

(* What one commit of the seed repairs: the domains that are absent, or    *)
(* else those that are flawed.                                             *)
Lacking(b) == {d \in Domains : b[d] = Absent}
Restored(b) ==
  LET bad == IF Lacking(b) # {} THEN Lacking(b) ELSE Issues(b)
  IN  [d \in Domains |-> IF d \in bad THEN Default ELSE b[d]]

Exists(v) == versions[v].state # "none"
Active == {v \in Ids : versions[v].state = "active"}
(* Order of activated_at descending, never activated last, then of ids.    *)
Newer(v, w) == versions[v].at > versions[w].at \/ (versions[v].at = versions[w].at /\ v > w)
Newest(V) == CHOOSE v \in V : \A w \in V \ {v} : Newer(v, w)

MayWrite == Phase # "snapshot_readonly"
MayActivate == Phase \notin {"snapshot_readonly", "snapshot_runtime"}

-----------------------------------------------------------------------------
(* Release policy. *)

NextBuild(b) == b + 1
ActiveKey == IF Active = {} THEN Boot ELSE Newest(Active)

BuildUpdateAvailable(p, client) ==
  client < p.latest /\ (p.latest = p.min \/ client < p.min)
ForceUpdate(p, client, key) ==
  (client < p.min \/ key # p.minContent) /\ p.enforce = "due"
RequiresLatestBuild(p, client) == client < p.latest

(* Mutant: a content release is treated as one of a new client. *)
ContentRelease_Binary(v) ==
  [policy EXCEPT !.latest = NextBuild(@), !.min = NextBuild(policy.latest),
                 !.content = v, !.minContent = v, !.enforce = "pending"]

ContentRelease(v) ==
  [policy EXCEPT !.latest = NextBuild(@), !.content = v, !.minContent = v,
                 !.enforce = "pending"]

-----------------------------------------------------------------------------
(* Startup: a first version is committed if none is active (this fails     *)
(* when its key is taken), then what it lacks, then the snapshot is cached *)
(* and the process serves.  A process that dies in between has changed     *)
(* nothing else: the next one goes on from what was committed.             *)

Load(v) == cached' = [id |-> v, domains |-> bundles[v]]

SeedVersion ==
  /\ ~up /\ Active = {} /\ ~Exists(Boot)
  /\ versions' = [versions EXCEPT ![Boot] = [state |-> "active", at |-> clock + 1]]
  /\ clock' = clock + 1
  /\ UNCHANGED <<bundles, policy, draining, up, cached, loop, req, begun>>

SeedBundles ==
  LET v == Newest(Active) IN
  /\ ~up /\ Active # {} /\ Issues(bundles[v]) # {}
  /\ bundles' = [bundles EXCEPT ![v] = Restored(@)]
  /\ UNCHANGED <<versions, policy, draining, up, cached, loop, req, clock, begun>>

Startup ==
  /\ ~up /\ Active # {} /\ Issues(bundles[Newest(Active)]) = {}
  /\ up' = TRUE /\ Load(Newest(Active))
  /\ UNCHANGED <<versions, bundles, policy, draining, loop, req, clock, begun>>

Crash ==
  /\ up
  /\ up' = FALSE /\ cached' = NoSnapshot /\ loop' = LoopIdle
  /\ req' = [t \in Threads |-> Idle]
  /\ UNCHANGED <<versions, bundles, policy, draining, clock, begun>>

Init ==
  /\ versions = [v \in Ids |-> NoVersion]
  /\ bundles = [v \in Ids |-> Empty]
  /\ policy = [latest |-> 0, min |-> 0, content |-> Boot, minContent |-> Boot, enforce |-> "never"]
  /\ draining = FALSE /\ up = FALSE
  /\ cached = NoSnapshot /\ loop = LoopIdle
  /\ req = [t \in Threads |-> Idle]
  /\ clock = 0 /\ begun = 0

-----------------------------------------------------------------------------
(* Editing, on threads. *)

Done(t) == req' = [req EXCEPT ![t] = Idle] /\ UNCHANGED begun
Editing(t) == up /\ MayWrite /\ req[t] = Idle /\ begun < MaxEdits /\ begun' = begun + 1
OnThread == UNCHANGED <<policy, draining, up, cached, loop, clock>>

(* A draft is committed before its bundles are copied.  With no version    *)
(* active the route fails on the bootstrap key and changes nothing.        *)
CreateDraft(t) ==
  /\ Editing(t) /\ Active # {}
  /\ \E v \in Ids :
       /\ ~Exists(v) /\ \A w \in 1..v - 1 : Exists(w)
       /\ versions' = [versions EXCEPT ![v] = [state |-> "draft", at |-> 0]]
       /\ req' = [req EXCEPT ![t] = [Idle EXCEPT !.step = "copy", !.id = v, !.from = Newest(Active)]]
  /\ UNCHANGED bundles /\ OnThread

(* The copy fails as a whole when the new draft has a bundle already.      *)
CopyBundles(t) ==
  LET v == req[t].id IN
  /\ req[t].step = "copy"
  /\ bundles' = IF bundles[v] = Empty THEN [bundles EXCEPT ![v] = bundles[req[t].from]] ELSE bundles
  /\ Done(t) /\ UNCHANGED versions /\ OnThread

UpsertRead(t) ==
  /\ Editing(t)
  /\ \E v \in Ids, d \in Domains, p \in Edits \cup Flaws :
       /\ versions[v].state \in {"draft", "validated"}
       /\ ~PayloadIssues(p)
       /\ req' = [req EXCEPT ![t] = [Idle EXCEPT !.step = "upsert", !.id = v, !.domain = d, !.payload = p,
                                                 !.seen = versions[v].state]]
  /\ UNCHANGED <<versions, bundles>> /\ OnThread

UpsertCommit(t) ==
  LET r == req[t] IN
  /\ r.step = "upsert"
  /\ bundles' = [bundles EXCEPT ![r.id] = [@ EXCEPT ![r.domain] = r.payload]]
  /\ versions' = IF r.seen = "validated" THEN [versions EXCEPT ![r.id].state = "draft"] ELSE versions
  /\ Done(t) /\ OnThread

ValidateRead(t) ==
  /\ Editing(t)
  /\ \E v \in Ids :
       /\ Exists(v) /\ Issues(bundles[v]) = {}
       /\ req' = [req EXCEPT ![t] = [Idle EXCEPT !.step = "validate", !.id = v, !.seen = versions[v].state]]
  /\ UNCHANGED <<versions, bundles>> /\ OnThread

Validated(r) == IF r.seen = "validated" THEN versions[r.id].state ELSE "validated"

ValidateCommit(t) ==
  /\ req[t].step = "validate"
  /\ versions' = [versions EXCEPT ![req[t].id].state = Validated(req[t])]
  /\ Done(t) /\ UNCHANGED bundles /\ OnThread

-----------------------------------------------------------------------------
(* Activation, rollback and releases, on the event loop. *)

LoopFree == up /\ loop = LoopIdle /\ ~draining
ActivateRead(v) ==
  /\ Exists(v) /\ Issues(bundles[v]) = {}
  /\ loop' = [step |-> "activate", id |-> v, seen |-> versions[v].state]
  /\ UNCHANGED <<versions, bundles, policy, draining, up, cached, req, clock, begun>>

Activate == LoopFree /\ MayActivate /\ \E v \in Ids : ActivateRead(v)

(* The previous version is the last activated of all the others.           *)
Rollback ==
  /\ LoopFree /\ MayActivate
  /\ Active # {}
  /\ LET others == {v \in Ids : Exists(v)} \ {Newest(Active)}
     IN  \E v \in others : (\A w \in others \ {v} : Newer(v, w)) /\ ActivateRead(v)

(* Mutant: the versions that were active stay so. *)
Retire_None(v) == versions[v].state

Retire(v) == IF versions[v].state = "active" THEN "retired" ELSE versions[v].state

ActivateCommit ==
  /\ loop.step = "activate" /\ clock < MaxActivations
  /\ versions' = [v \in Ids |->
       IF v = loop.id
       THEN [state |-> IF loop.seen = "active" THEN versions[v].state ELSE "active", at |-> clock + 1]
       ELSE [versions[v] EXCEPT !.state = Retire(v)]]
  /\ clock' = clock + 1
  /\ loop' = [loop EXCEPT !.step = "refresh"]
  /\ UNCHANGED <<bundles, policy, draining, up, cached, req, begun>>

(* Mutant: the snapshot that is cached already is kept. *)
Refresh_Cached ==
  /\ loop.step = "refresh"
  /\ loop' = [loop EXCEPT !.step = "release"]
  /\ UNCHANGED <<versions, bundles, policy, draining, up, cached, req, clock, begun>>

(* The cache is refreshed from the table, after repairs if the version     *)
(* needs any.  When a thread has taken the version's state back, no        *)
(* version is active, and the handler fails.                               *)
Refresh ==
  /\ loop.step = "refresh"
  /\ \/ /\ Active # {}
        /\ IF Issues(bundles[Newest(Active)]) = {}
           THEN /\ Load(Newest(Active)) /\ UNCHANGED bundles
                /\ loop' = [loop EXCEPT !.step = "release"]
           ELSE /\ bundles' = [bundles EXCEPT ![Newest(Active)] = Restored(@)]
                /\ UNCHANGED <<cached, loop>>
     \/ /\ Active = {}
        /\ loop' = LoopIdle
        /\ UNCHANGED <<bundles, cached>>
  /\ UNCHANGED <<versions, policy, draining, up, req, clock, begun>>

Release ==
  /\ loop.step = "release" /\ policy.latest < MaxBuild
  /\ policy' = ContentRelease(loop.id)
  /\ draining' = TRUE
  /\ loop' = LoopIdle
  /\ UNCHANGED <<versions, bundles, up, cached, req, clock, begun>>

(* The release pipeline names a build, and may leave the minimum and the   *)
(* content keys, 0 here, to their defaults.  The build falls only when it  *)
(* says so.                                                                *)
Default0(x, default) == IF x = 0 THEN default ELSE x

OpsActivate ==
  /\ LoopFree
  /\ \E r \in Releases :
       LET content == Default0(r.content, ActiveKey) IN
       /\ r.regression \/ r.latest >= policy.latest
       /\ policy' = [latest |-> r.latest, min |-> Default0(r.min, r.latest), content |-> content,
                     minContent |-> Default0(r.minContent, content), enforce |-> "pending"]
  /\ draining' = TRUE
  /\ UNCHANGED <<versions, bundles, up, cached, loop, req, clock, begun>>

GraceEnds ==
  /\ policy.enforce = "pending"
  /\ policy' = [policy EXCEPT !.enforce = "due"]
  /\ UNCHANGED <<versions, bundles, draining, up, cached, loop, req, clock, begun>>

DrainEnds ==
  /\ draining
  /\ draining' = FALSE
  /\ UNCHANGED <<versions, bundles, policy, up, cached, loop, req, clock, begun>>

Edit == \E t \in Threads :
  CreateDraft(t) \/ CopyBundles(t) \/ UpsertRead(t) \/ UpsertCommit(t) \/ ValidateRead(t) \/ ValidateCommit(t)
Publish == Activate \/ Rollback \/ ActivateCommit \/ Refresh \/ Release \/ OpsActivate
Environment == SeedVersion \/ SeedBundles \/ Startup \/ Crash \/ GraceEnds \/ DrainEnds
Next == Edit \/ Publish \/ Environment
Spec == Init /\ [][Next]_vars

-----------------------------------------------------------------------------
(* Properties. *)

TypeOK ==
  /\ versions \in [Ids -> VersionRow] /\ bundles \in [Ids -> Bundles]
  /\ policy \in PolicyRow /\ cached \in Snapshot /\ loop \in Coroutine
  /\ req \in [Threads -> Request]
  /\ draining \in BOOLEAN /\ up \in BOOLEAN /\ clock \in Nat /\ begun \in Nat

OneActive == \A v, w \in Active : v = w
ActiveComplete == up => \A v \in Active : Issues(bundles[v]) = {}
UnderWay == loop.step # "idle" => up /\ Issues(bundles[loop.id]) = {}
CacheComplete == up => Issues(cached.domains) = {}
CacheFollows ==
  /\ loop.step = "refresh" => Active \subseteq {loop.id}
  /\ up /\ loop.step # "refresh" => Active \subseteq {cached.id}
  /\ loop.step = "release" => cached.id = loop.id

(* At most one version is active (the policy's lookup of the active key    *)
(* raises otherwise, and with it every request), whatever edits, failed    *)
(* activations and restarts interleave; while the process serves, a version *)
(* that is active and the snapshot have every required domain, though      *)
(* drafts may lack some, and so may the first version of a process that    *)
(* died between the commits of its seed, until the next one completes it;  *)
(* and the cache follows the activation under way.                         *)
IndInv ==
  /\ TypeOK /\ OneActive /\ ActiveComplete /\ UnderWay
  /\ CacheComplete /\ CacheFollows

(* When no activation is under way, a version that is active is the one    *)
(* the process serves, also after an activation that failed half way or    *)
(* that a crash cut short.                                                 *)
ServedIsActive == up /\ loop = LoopIdle => \A v \in Active : cached.id = v

(* A content release demands of every client the version that the process  *)
(* serves: who downloads the content again is not forced off again.        *)
ReleaseStep == loop.step = "release" /\ policy' # policy /\ policy'.enforce = "pending" /\ loop' = LoopIdle
ServesRelease == ReleaseStep => policy'.minContent = cached'.id
ReleasedIsServed == [][ServesRelease]_vars

(* "Keep service operable": the process can always be started again, for   *)
(* it finds an active version or may create the first one.                 *)
StartsUp == Active # {} \/ ~Exists(Boot)

(* "Content-only publishes may bump latest build marker without a binary   *)
(* package. [...] binary update is not advertised": a content release      *)
(* makes no update available to a client that had none, and forces none.   *)
KeepsBinary ==
  ReleaseStep /\ policy.min <= policy.latest =>
    \A client \in 0..MaxBuild :
      /\ BuildUpdateAvailable(policy', client) => BuildUpdateAvailable(policy, client)
      /\ client >= policy.min => ~ForceUpdate(policy', client, policy'.minContent)
ContentKeepsBinary == [][KeepsBinary]_vars

(* "Keep min supported build unchanged for content-only publish so binary  *)
(* package is not required": a client that the gate lets pass is not asked *)
(* for a newer build because content was published.                        *)
NotRequired == ReleaseStep => \A client \in 0..MaxBuild :
                 ~RequiresLatestBuild(policy, client) => ~RequiresLatestBuild(policy', client)
BinaryNotRequired == [][NotRequired]_vars
=============================================================================
