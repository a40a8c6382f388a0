----------------------------- MODULE Promotion -----------------------------
(* World packs of one province, staged, activated, deactivated and rolled  *)
(* back by designers.                                                      *)
(*                                                                         *)
(* The backend keeps the staged pack and the manifest of versions in two   *)
(* runtime files.  A promotion reads the manifest, decides, writes the new *)
(* manifest to the runtime file, and only then commits the same manifest,  *)
(* the latest pointer and, for an activation, the pack to the GitHub       *)
(* repository: it reads the head of the branch, builds a commit on it and  *)
(* moves the branch if nobody else has.  Requests run on threads; nothing  *)
(* locks the files, and a publish that fails takes nothing back.           *)
(*                                                                         *)
(* A file is written in place: opening it truncates it, and what is then   *)
(* written goes to its start.  A request that stops in between leaves it   *)
(* empty or with the first part of the text; one that writes over what     *)
(* another has written since may leave the end of the longer text.         *)
(* Neither can be parsed, and every load of the file fails.  The text is   *)
(* handed to the file in one write, so two texts mix in no other way.      *)
(*                                                                         *)
(* A version key holds the second it was made in, so two activations may   *)
(* pick the same one: a key here is any number above those of the manifest *)
(* it was chosen from.  Times are their order.                             *)
EXTENDS Naturals, FiniteSets

CONSTANTS
  Packs,        \* packs designers send: settlements, routes and spawn points
  Designers,    \* promotions under way at the same time
  Legacy,       \* pack of a latest pointer older than the manifests, or None
  MaxKey,       \* bound: version keys
  MaxPromotions,\* bound: promotions
  MaxStages,    \* bound: packs staged
  MaxPushes,    \* bound: commits to the branch by others
  Truncated,    \* what an empty file holds
  Garbled,      \* what a file holds that cannot be parsed
  None

ASSUME PromotionAssumption ==
  /\ Packs \subseteq [settlements : SUBSET Nat, routes : SUBSET (SUBSET Nat), spawns : SUBSET Nat]
  /\ \A p \in Packs : IsFiniteSet(p.settlements)
  /\ {None, Truncated, Garbled} \cap Packs = {} /\ None \notin {Truncated, Garbled}
  /\ None \notin Nat /\ Truncated # Garbled /\ Legacy \in Packs \cup {None}
  /\ MaxKey \in Nat \ {0} /\ MaxPromotions \in Nat /\ MaxStages \in Nat /\ MaxPushes \in Nat

VARIABLES
  stage,    \* designer_world_stage.json: the staged pack, None while there is no file
  runtime,  \* <province>_versions.json: the manifest, None while there is no file
  staging,  \* the pack that each designer has yet to write to the stage file it opened
  repo,     \* the branch: its head, latest.json, versions.json and the packs
  job,      \* the promotion of each designer
  done,     \* promotions, stages and pushes so far; the clock
  amiss     \* ghost: "overlapped" while promotions are under way that overlap,
            \* "restaged" while activations are during which packs are staged,
            \* "apart" since one was cut or overlapped another, until one by
            \* itself is published, "lost" for ever since

promotionVars == <<stage, runtime, staging, repo, job, done, amiss>>

Keys == 1..MaxKey
Entry == [pack : Packs, active : BOOLEAN, at : 0..MaxPromotions]  \* at: activated_at
Manifest == [active : Keys \cup {None}, versions : UNION {[K -> Entry] : K \in SUBSET Keys}]
ASSUME NoManifest == \A x \in {None, Truncated, Garbled} : x \notin Manifest
Pointer == [key : Keys \cup {None}, pack : Packs \cup {None}]

EmptyManifest == [active |-> None, versions |-> [k \in {} |-> None]]
Pointed(m) == [key |-> m.active, pack |-> IF m.active = None THEN None ELSE m.versions[m.active].pack]
With(f, k, x) == [j \in DOMAIN f \cup {k} |-> IF j = k THEN x ELSE f[j]]
Top(K) == CHOOSE k \in K : \A j \in K : j <= k

-----------------------------------------------------------------------------
(* Files.  A load of what cannot be parsed raises, and the request ends.   *)

Unreadable == {Truncated, Garbled}
Written(file, text) == IF file = Truncated THEN {text} ELSE {text, Garbled}

-----------------------------------------------------------------------------
(* Validation of a pack.  The settlements reached from the smallest one, a *)
(* round of the queue at a time: no path is longer than the settlements.   *)

Neighbours(p, S) == {n \in p.settlements : \E s \in S : s # n /\ {s, n} \in p.routes}
Reached(p) ==
  LET start == CHOOSE s \in p.settlements : \A t \in p.settlements : s <= t
      Round[n \in 0..Cardinality(p.settlements)] ==
        IF n = 0 THEN {start} ELSE Round[n - 1] \cup Neighbours(p, Round[n - 1])
  IN Round[Cardinality(p.settlements)]

Valid(p) ==
  /\ p.settlements # {} /\ p.routes # {} /\ p.spawns # {}
  /\ \A r \in p.routes : Cardinality(r) = 2 /\ r \subseteq p.settlements
  /\ p.spawns \subseteq p.settlements
  /\ Reached(p) = p.settlements

-----------------------------------------------------------------------------
(* Manifests. *)

(* The entry that stands for a version only the latest pointer names.      *)
Synthetic(pack) == [pack |-> pack, active |-> TRUE, at |-> 0]
FromPointer(p) == IF p.key = None THEN EmptyManifest
                  ELSE [active |-> p.key, versions |-> [k \in {p.key} |-> Synthetic(p.pack)]]

(* The files of the repository that ship with the backend, read while      *)
(* there is no runtime file: those of its build.                           *)
Disk == FromPointer([key |-> IF Legacy = None THEN None ELSE 1, pack |-> Legacy])
LoadManifest == IF runtime # None THEN runtime ELSE Disk

(* Mutant: the version that was active keeps its status. *)
DeactivateActive_Keeps(m) == [m EXCEPT !.active = None]
DeactivateActive(m) ==
  IF m.active = None THEN m
  ELSE [active |-> None, versions |-> [m.versions EXCEPT ![m.active].active = FALSE]]

Activated(m, k, pack, now) ==
  [active |-> k, versions |-> With(DeactivateActive(m).versions, k, [pack |-> pack, active |-> TRUE, at |-> now])]

NextKeys(m) == {k \in Keys : \A j \in DOMAIN m.versions : k > j}

(* The default target of a rollback: the version activated last of those   *)
(* that are not active.                                                    *)
Latest(m) == {k \in DOMAIN m.versions \ {m.active} :
                \A j \in DOMAIN m.versions \ {m.active} :
                  m.versions[j].at < m.versions[k].at \/ (m.versions[j].at = m.versions[k].at /\ j <= k)}

-----------------------------------------------------------------------------
(* Staging.  A stage file that cannot be parsed is replaced by the next.   *)

NoPromotion == [step |-> "idle", kind |-> "none", manifest |-> EmptyManifest, key |-> None, pack |-> None, head |-> 0]
Promoting(d) == job[d].step # "idle"
Free(d) == ~Promoting(d) /\ staging[d] = None
Activating(d) == Promoting(d) /\ job[d].kind = "activate"
Restage == amiss' = IF \E d \in Designers : Activating(d) THEN amiss \cup {"restaged"} ELSE amiss

OpenStage(d, p) ==
  /\ Free(d)
  /\ done.stages < MaxStages /\ done' = [done EXCEPT !.stages = @ + 1]
  /\ Valid(p)
  /\ stage' = Truncated /\ staging' = [staging EXCEPT ![d] = p]
  /\ Restage
  /\ UNCHANGED <<runtime, repo, job>>

WriteStage(d) ==
  /\ staging[d] # None
  /\ stage' \in Written(stage, staging[d]) /\ staging' = [staging EXCEPT ![d] = None]
  /\ Restage
  /\ UNCHANGED <<runtime, repo, job, done>>

StageStops(d) ==
  /\ staging[d] # None
  /\ stage' \in {stage, Garbled} /\ staging' = [staging EXCEPT ![d] = None]
  /\ Restage
  /\ UNCHANGED <<runtime, repo, job, done>>

-----------------------------------------------------------------------------
(* The three promotions: what they read and decide. *)

Now == done.promotions + 1
Overlapping == IF \E e \in Designers : Promoting(e) THEN amiss \cup {"overlapped", "apart", "lost"}
               ELSE amiss \ {"overlapped"}
Begin(d, kind, manifest, key, pack) ==
  /\ Free(d)
  /\ done.promotions < MaxPromotions /\ done' = [done EXCEPT !.promotions = @ + 1]
  /\ job' = [job EXCEPT ![d] = [step |-> "decided", kind |-> kind, manifest |-> manifest,
                               key |-> key, pack |-> pack, head |-> 0]]
  /\ amiss' = IF \E e \in Designers : Activating(e) THEN Overlapping ELSE Overlapping \ {"restaged"}
  /\ UNCHANGED <<stage, runtime, staging, repo>>

Loadable == runtime \notin Unreadable

ActivateStaged(d) ==
  /\ stage \in Packs /\ Loadable
  /\ \E k \in NextKeys(LoadManifest) :
       Begin(d, "activate", Activated(LoadManifest, k, stage, Now), k, stage)

Deactivate(d) ==
  /\ Loadable /\ LoadManifest.active # None
  /\ Begin(d, "deactivate", DeactivateActive(LoadManifest), None, None)

RollBack(d, k) ==
  /\ Loadable /\ k \in DOMAIN LoadManifest.versions /\ k # LoadManifest.active
  /\ Begin(d, "rollback", Activated(LoadManifest, k, LoadManifest.versions[k].pack, Now), k, None)
RollBackToPrevious(d) == Loadable /\ \E k \in Latest(LoadManifest) : RollBack(d, k)

(* Mutant: the manifest is not written to the runtime file. *)
OpenManifest_Skips(d) ==
  /\ job[d].step = "decided"
  /\ job' = [job EXCEPT ![d].step = "persisted"]
  /\ UNCHANGED <<stage, runtime, staging, repo, done, amiss>>
OpenManifest(d) ==
  /\ job[d].step = "decided"
  /\ runtime' = Truncated
  /\ job' = [job EXCEPT ![d].step = "opened"]
  /\ UNCHANGED <<stage, staging, repo, done, amiss>>

WriteManifest(d) ==
  /\ job[d].step = "opened"
  /\ runtime' \in Written(runtime, job[d].manifest)
  /\ job' = [job EXCEPT ![d].step = "persisted"]
  /\ UNCHANGED <<stage, staging, repo, done, amiss>>

-----------------------------------------------------------------------------
(* Publishing to the repository. *)

ReadHead(d) ==
  /\ job[d].step = "persisted"
  /\ job' = [job EXCEPT ![d].step = "built", ![d].head = repo.head]
  /\ UNCHANGED <<stage, runtime, staging, repo, done, amiss>>

(* One commit on the head that was read, with every file of the promotion. *)
Pushed(d) ==
  [head |-> repo.head + 1, latest |-> Pointed(job[d].manifest), versions |-> job[d].manifest,
   packs |-> IF job[d].kind = "activate" THEN With(repo.packs, job[d].key, job[d].pack) ELSE repo.packs]

MoveBranch(d) ==
  /\ job[d].step = "built" /\ job[d].head = repo.head
  /\ repo' = Pushed(d)
  /\ job' = [job EXCEPT ![d].step = "published"]
  /\ amiss' = IF "overlapped" \in amiss THEN amiss ELSE amiss \ {"apart"}
  /\ UNCHANGED <<stage, runtime, staging, done>>

(* A call fails, the branch has moved, a workflow cannot be dispatched, or *)
(* the process stops: the request ends where it is.                        *)
Fail(d) ==
  /\ Promoting(d)
  /\ runtime' \in IF job[d].step = "opened" THEN {runtime, Garbled} ELSE {runtime}
  /\ job' = [job EXCEPT ![d] = NoPromotion]
  /\ amiss' = IF job[d].step \in {"decided", "published"} THEN amiss ELSE amiss \cup {"apart", "lost"}
  /\ UNCHANGED <<stage, staging, repo, done>>

(* The staged pack is cleared.  What is being written to a file that is    *)
(* unlinked is lost with it.                                               *)
Clear == stage' = None /\ staging' = [d \in Designers |-> None]

(* Mutant: the staged pack is cleared whether or not it was published. *)
Finish_Clears(d) ==
  /\ job[d].step \in {"persisted", "published"}
  /\ IF job[d].kind = "activate" /\ stage # None THEN Clear ELSE UNCHANGED <<stage, staging>>
  /\ job' = [job EXCEPT ![d] = NoPromotion]
  /\ UNCHANGED <<runtime, repo, done, amiss>>
Finish(d) ==
  /\ job[d].step = "published"
  /\ IF job[d].kind = "activate" /\ stage # None THEN Clear ELSE UNCHANGED <<stage, staging>>
  /\ job' = [job EXCEPT ![d] = NoPromotion]
  /\ UNCHANGED <<runtime, repo, done, amiss>>

(* Someone else moves the branch, publish_designer_changes with other      *)
(* files among them.                                                       *)
OtherPush ==
  /\ done.pushes < MaxPushes /\ done' = [done EXCEPT !.pushes = @ + 1]
  /\ repo' = [repo EXCEPT !.head = @ + 1]
  /\ UNCHANGED <<stage, runtime, staging, job, amiss>>

-----------------------------------------------------------------------------
PromotionInit ==
  /\ stage = None
  /\ runtime = None /\ staging = [d \in Designers |-> None]
  /\ repo = [head |-> 1, latest |-> Pointed(Disk), versions |-> None,
             packs |-> [k \in DOMAIN Disk.versions |-> Disk.versions[k].pack]]
  /\ job = [d \in Designers |-> NoPromotion]
  /\ done = [promotions |-> 0, stages |-> 0, pushes |-> 0]
  /\ amiss = {}

PromotionNext ==
  \/ \E d \in Designers :
       \/ \E p \in Packs : OpenStage(d, p)
       \/ WriteStage(d)
       \/ StageStops(d)
       \/ ActivateStaged(d)
       \/ Deactivate(d)
       \/ \E k \in Keys : RollBack(d, k)
       \/ RollBackToPrevious(d)
       \/ OpenManifest(d)
       \/ WriteManifest(d)
       \/ ReadHead(d)
       \/ MoveBranch(d)
       \/ Fail(d)
       \/ Finish(d)
  \/ OtherPush

PromotionSpec == PromotionInit /\ [][PromotionNext]_promotionVars

-----------------------------------------------------------------------------
(* Properties. *)

PromotionTypeOK ==
  /\ stage \in Packs \cup {None, Truncated, Garbled}
  /\ runtime \in Manifest \cup {None, Truncated, Garbled}
  /\ staging \in [Designers -> Packs \cup {None}]
  /\ repo \in [head : Nat, latest : Pointer, versions : Manifest \cup {None},
               packs : UNION {[K -> Packs] : K \in SUBSET Keys}]
  /\ job \in [Designers -> [step : {"idle", "decided", "opened", "persisted", "built", "published"},
                            kind : {"none", "activate", "deactivate", "rollback"}, manifest : Manifest,
                            key : Keys \cup {None}, pack : Packs \cup {None}, head : Nat]]
  /\ amiss \subseteq {"overlapped", "restaged", "apart", "lost"}

(* A manifest has one active version at most, the one it names.            *)
OneVersionActive(m) ==
  /\ m.active # None => m.active \in DOMAIN m.versions
  /\ \A k \in DOMAIN m.versions : m.versions[k].active <=> k = m.active

FileReadable ==
  runtime \in Unreadable => "apart" \in amiss \/ \E d \in Designers : job[d].step = "opened"
StoresCoherent ==
  /\ runtime \notin Unreadable \cup {None} => OneVersionActive(runtime)
  /\ repo.versions # None => OneVersionActive(repo.versions) /\ repo.latest = Pointed(repo.versions)

(* The manifest of the repository, and one in a runtime file that can be   *)
(* read, has one active version, and the latest pointer of the repository  *)
(* names that of its manifest, with its pack, whatever failed or           *)
(* overlapped.  The runtime file cannot be read while a promotion writes   *)
(* it, or after one was cut between writing it and publishing it, or two   *)
(* overlapped, and at no other time: it is never left so by one that was   *)
(* by itself and published, and every promotion that begins has read it.   *)
ManifestsCoherent == FileReadable /\ StoresCoherent

(* Between promotions, what the backend holds active is what the           *)
(* repository says is active, unless the last of them was cut before its   *)
(* publish or overlapped another: one that goes through by itself brings   *)
(* the two together again.  And the pack of what is active is there, until *)
(* one was cut or overlapped: a version that was never published stays in  *)
(* the manifest and can be rolled back to.                                 *)
RepoFollows ==
  (\A d \in Designers : ~Promoting(d))
    => /\ "apart" \notin amiss => runtime = repo.versions
       /\ "lost" \notin amiss /\ repo.latest.key # None
            => repo.latest.key \in DOMAIN repo.packs /\ repo.packs[repo.latest.key] = repo.latest.pack

(* A staged pack is gone only after it was published, whatever failed,     *)
(* unless another one was staged during the activation that clears it, or  *)
(* during one that overlapped this: the new one is then cleared unseen.    *)
PackCleared ==
  stage # None /\ stage' = None /\ "restaged" \notin amiss
    => \E k \in DOMAIN repo.packs : repo.packs[k] = stage
StageKept == [][PackCleared]_promotionVars

(* The latest pointer names a version whose pack is in the repository      *)
(* ("producing versioned pack/signature/latest pointers"): false after a   *)
(* publish that failed, whose version stays in the runtime manifest and    *)
(* can be rolled back to.                                                  *)
LatestHasPack == repo.latest.key # None => repo.latest.key \in DOMAIN repo.packs
=============================================================================
