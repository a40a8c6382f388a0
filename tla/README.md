# Specifications of the Gardens of Karaxas online stack

TLA+ modules, TLC configurations and TLAPS proofs for the parts of this
repository whose correctness depends on what several actors do, and in which
order. Every definition is translated from the source; `PROJECT.json` names the
lines each one stands for (`map`), the runs, a plausible bug for every property
(`mutants`), the hazards of the code and the theorems.

To check everything, in this directory:

    tlc -workers 2 -config MCPublishDrain.cfg MCPublishDrain     # one run
    tlapm PublishDrainProofs.tla                                 # one module's proofs

## 1. The system

    launcher ──starts──▶ game client ──HTTP poll──▶ backend ──signed HTTP──▶ world service
                              │                      │  ▲                        │
                              └────websocket─────────┘  │                        ▼
    designer client ──publish──────────────────────────▶│                  sim-core worlds
                                                     PostgreSQL

* The **backend** (`backend/app`, FastAPI and SQLAlchemy on PostgreSQL) is the
  control plane: accounts and sessions, characters, parties, content and release
  versions, publish drains, gameplay routes. Asynchronous handlers and background
  tasks share one event loop per process; handlers declared with `def` run on a
  thread pool beside it. A database session neither commits nor flushes by itself
  (`autocommit=False, autoflush=False`), transactions run at READ COMMITTED, and
  no statement takes a row lock. The deployment does not limit the number of
  processes. So an operation can be interrupted between any read and the commit
  that uses it, by a thread of the same process or by another process; what the
  commit writes are the rows and columns that the session changed, whatever
  became of the others.
* The **world service** (`world-service`, Rust) keeps the campaign world in memory
  behind one mutex. It has no clock: a tick runs when a route of the backend asks
  for it and says what time it is. Nothing is persisted.
* **sim-core** holds the deterministic worlds: travel, logistics, trade, espionage,
  politics, battle. Each takes a list of orders and advances tick by tick.
* The **game client** (`client-app`, Bevy) polls `/gameplay/world-sync` through one
  worker thread; the **launcher** updates the build before it starts the client;
  the **designer client** and the **tooling** produce content.

## 2. Inventory

Components, the state they keep, their operations, what is hard about them, what
makes them correct, and the module that models them.

| component | state | operations | hard behaviour | correct when | module |
|---|---|---|---|---|---|
| publish drain `session_drain.py`, `ops.py`, `content.py` | drain events, audit rows, marks on sessions; countdown tasks in memory | start, countdown, enforce on request, finalize, recover at startup | no lock between count and insert; countdown lost by a crash; enforcement races finalisation; truncated seconds | one drain at a time; no marked session escapes; audit true; grace kept; every drain ends | `PublishDrain` |
| battle world `battle.rs` | battles, pending orders, log of results | start, formation, reserve, force end, tick | several orders in a tick; log overflow; forced end against decision | an army fights once; log true; resolved is final; no troops from nothing; ends | `BattleWorld`, `BattleTicks` |
| tick runner and its routes `tick_runner.rs`, `gameplay.py`, `world_service_control.py` | tick, due time, command queue; per request its progress | dispatch, advance, read; start, command, sync, slice, domain action | a route is several calls; calls of other routes in between; failed calls; restarts of either side; client-supplied time | answers are up to date; snapshots in order; schedule kept; rewards earned; status true | `WorldControl`, `BattleLives` |
| game client `bootstrap_shell.rs` | phase, session, flags of requests in flight, world-sync state, channels to and from the worker thread | startup, login, select, enter, leave, commands, poll, retry, apply | change of phase or session with requests in flight; late answers; restarts of the world | no flag is stuck; one sync at a time; LIVE means recent; the client gets live again | `ClientShell` |
| sessions and tokens `auth.py`, `deps.py`, `security.py` | accounts; session rows with two token hashes | register, login, refresh, logout, MFA, per-request gate | rotation under concurrent or repeated refresh; revocation racing rotation | revoked is final; one client alone is never locked out | `Accounts` |
| websocket tickets `ws_ticket.py` | tickets | issue, consume, purge | read, then mark consumed | used at most once, in time | `Accounts` |
| rate limiter `rate_limit.py` | failures and lockouts per key | check, record, reset | check and record are separate; window and lockout ends | a lockout ends early only through who was let in before | `Accounts` |
| content versions `content.py` | versions and their state; cached active snapshot | seed, draft, edit, validate, activate, roll back | two activations at once; stale rows; stale cache; failure in the middle | one active version, complete, and the one that is served | `Content` |
| release policy `release_policy.py`, `release.py` | one policy row, records | activate build or content, evaluate a client | two versions compared in two ways | a content publish asks for no new binary | `Content` |
| world promotion `designer_world_promotion.py`, `designer_publish.py`, `github_publish.py` | staged pack, manifest in a runtime file; the repository on GitHub | stage, activate, deactivate, roll back, publish | a step fails in the middle; two promotions; other pushes | manifests coherent; repository follows; no staged pack disappears | `Promotion` |
| parties `party_manager.py`, `party.py` | parties, members, invites | create, invite, accept, decline, leave, kick, promote | reads before an unflushed delete; overlapping requests | the owner is a member, and the only owner; one party per user | `Parties` |
| characters, world entry, instances, actions `characters.py`, `world_entry_bridge.py`, `instance_manager.py`, `gameplay_authority.py` | characters, selection, instances and their members, action audit | create, select, place, delete, bootstrap, assign, expire, resolve action | selection in two requests; assignment against expiry; nonce and experience against rows others write | one selected; no early expiry; one reward per nonce; none lost | `WorldEntry` |
| realtime hub, events, chat `realtime.py`, `events.py`, `chat.py` | sockets by user, channel and zone; hub presence; channels and their members | connect, disconnect, change zone, broadcast, say, make a channel | announcements outside the lock; several sockets of a user; a failing send disconnects another task's socket | indexes agree; presence has a connection; a direct channel is private; the dead leave | `Realtime` |
| event pipeline and outbox `event_pipeline.py`, `outbox_notify_worker.py` | outbox rows, idempotency keys; LISTEN connection | publish, claim, mark, retry; wake | two requests of a key; two claimers; crash after a claim; lost notification | one answer and one message per key; each delivered once | `Outbox`, `Delivery` |
| runtime config `runtime_config.py` | staged and published file sets | stage, publish, roll back | files copied step by step | a set is published whole | – |
| request authentication `auth.rs`, `world_service_auth.py` | replay cache | sign, verify | clock skew against forgetting of nonces | a request is executed once | – |
| travel, logistics, trade, espionage, politics `sim-core` | one world each | order, tick | several orders in a tick | conservation, bounds, shortest paths | – |
| launcher `launcher-app` | phase of the update | check, download, apply, launch | failure in the middle | starts only what is complete | – |

Also in the repository and without a row: **levels** (one row per request),
**observability and audit** (counters and log rows nobody reads back), **simulation
contracts**, **schemas, models, settings** (types), **designer client and tooling**
(single-user editors and converters), **scripts, packaging, migrations, workflows**.
Section 8 says why what has no module has none.

### How the modules are made

A module is one component: `CONSTANTS` with a named assumption, one action per
handler, commit or send, `Next`, `Spec`, then the properties. Where a request reads
in one step and commits in a later one, the record of the request holds what it has
read, so that other steps fall in between exactly where the code lets them.
`MC…` modules hold values of constants and nothing else; `…Proofs` modules extend
the component and hold its theorems. Three proof modules also hold those of a second
component: `ClientShellProofs` has `WorldEntry`'s (the bootstrap a client waits for),
`ContentProofs` has `Promotion`'s, `RealtimeProofs` has `Parties`'. That is why these
three second components, and `Realtime`, name their definitions apart (`EntrySpec`,
`PromotionSpec`, `PartiesSpec`), and why what the backend's components share (`Users`,
`Requests`, `None`) is declared once, in `Backend`. Bounds on counters are constants whose comment
says "bound". Mutants (`HasCapacity_OffByOne`) are operators beside the definition
they replace; no action uses them.

Several invariants excuse requests that *cross*: two that read and then write the
same, the second of which commits what it computed before the first did. There a ghost
variable (`torn`, `mixed`, `amiss`) names what crossing requests may have damaged,
and only that: the code takes no lock, so what it promises is about requests one
after the other, about *everybody else's* rows while others cross, and about what stays
true in spite of it. Where the code repairs the damage the excuse ends: the next
selection, handing on of a party, entry to an instance or promotion that goes through by
itself clears it, and the invariant claims that it has made things good. What nothing
repairs (a lost reward, a second party of a user, a pack never published) is excused for good.

## 3. What is modelled

### PublishDrain

*A publish marks every live player session as draining, a countdown finalises the
drain at its deadline, and a request of a late session enforces it by itself.*

| model | code |
|---|---|
| `sess`, `ev` | tables `user_sessions`, `publish_drain_events` with `publish_drain_session_audit` |
| `loop[p]` | the handler, countdown or startup that holds the event loop of process `p`, from its first read to its commit: there is no `await` in between |
| `thr[t]` | a request on a pool thread, between its reads and its commit |
| `countdown[p][e]` | `run_publish_drain_countdown` tasks, lost by a crash |
| `PublishBegin … PublishCommit` | the three publishing routes around `start_publish_drain` |
| `CountdownStart`, `CountdownWake`, `FinalizeCommit` | the countdown and `finalize_publish_drain` |
| `EnforceRead …` | `enforce_session_drain` under `get_auth_context`, `refresh` and the websocket route |
| `Restart`, `StartupFinalize`, `StartupDone` | `finalize_due_publish_drains` at startup |
| `Login`, `Expire`, `Revoke` | what else happens to a session |

Left out: notifications and warnings to sockets, the flush of `is_selected`,
the recorded failure of a persisted character (`persist_failed`; the modelled
flush always succeeds), the reason code, and the arithmetic of version strings (a
build is a number; what is kept is that two publishes may compute the same one).

`PublishConflict` is the branch of `PublishStart` that the code calls
"defensive-only": the second check of the capacity, behind the commit of the policy.
With one process it is never taken, which is what `PublishIsDrained` says; `IndInv` and
what is proved from it alone allow it, with any number of processes.

### BattleWorld

*Orders queue between ticks; a tick applies them by kind and advances every active
battle, which may end it.*

`advance_tick` is one step per order and one per battle, in the order of its two
loops, so that properties are checked between any two. `Priority`, `Startable`,
`Deployable`, `ComputeLoss`, `Modified`, `Advanced`, `Decided`, `BuildResult` are
the functions of `battle.rs`. The loss rolls are a hash of tick, id, step, strength and morale;
here any value of their range. Inside a kind the code sorts by serialized text;
here any order. Left out: the events a tick returns. Strengths stay far below the
point where a `u32` product saturates. Duplicates of an order are applied next to
each other and the second has no effect, so the queue is a set.

`BattleLives` is the abstract battle world: commands wait in a queue, and one step,
`RunQueue`, opens as many of the asked encounters as their armies allow and decides
some battles. `BattleTicks` shows that `BattleWorld` implements it. The runner holds its
mutex for a whole tick, so callers see the state between ticks; two history variables,
`before` and `taken`, keep what they saw last while a tick is under way, and are the
`life` and the `queue` of the mapping. Rivals (`Quarrels`) are the battles whose
encounters want a common army.

### WorldControl

*Routes of the backend as sequences of calls to the world service.*

| model | code |
|---|---|
| `tick`, `due`, `queue` | `current_tick`, `next_tick_due_ms` and the queue of `TickRunner` |
| `queue`, `life` | the command queue and what became of each battle: those of `BattleLives` |
| `req[t]` | a route on a thread: time read, commands sent, what it has read so far |
| `Script(kind)` | the commands each route dispatches, in order |
| `Dispatch`, `Advance`, `FetchPart`, `FetchBattle`, `Answer` | `dispatch_control_command`, `advance_ticks`, the reads, the answer with the slice's commit |
| `Due`, `RunTicks` | `run_due_ticks` |
| `CallFails`, `BackendRestart`, `WorldRestart` | a call that fails before or after it took effect; either process replaced |
| `named` | ghost: the times that clients have brought with a slice |

Left out: what a formation, a reserve, a march or a domain action changes in the
world (one kind of command, "other"); the copies of a queued command (a set, since
a second start or end has no effect); which of two rivals opens first when both are
queued (either); how a battle is decided (in any tick). Instance ids are fresh here; in the code they
are the character's number and the time modulo 10⁶ ms and can collide. One backend
process: with several, each has its own uptime.

### ClientShell

*The game client asks the backend through one worker thread, and the answers come
when the player may be elsewhere.*

| model | code |
|---|---|
| `shell` | `ShellState`: phase, `request_in_flight`, handoff, session (there or not), roster, selected and bootstrapped character |
| `sync` | `WorldSyncState`: the request in flight, the time to the next poll, the backoff, the time since the last snapshot, its tick, and what is shown |
| `commands` | the in-flight flags of the battle window and of the domain panels |
| `requests`, `responses` | the two channels of `BackendBridge` |
| `worker`, `working`, `Take … CallFails` | `backend_worker_loop`, which executes one request at a time |
| `Startup`, `Collect`, `Handle`, `Drive` | `startup_handoff_fetch`, `poll_backend_responses`, `drive_world_sync_poll` |
| `ClickLogin … ClickPanel` | the buttons of `draw_shell_ui` that send something or change the phase |
| `Elapse` | a unit of time for every timer of the shell |

The systems of a frame are interleaved in any way, which includes every order in
which frames run them; what a system does with a batch of answers is not
interrupted (`inbox` is empty again before anything else runs). A unit of time is
longer than a frame, so answers are collected and handled in the unit in which they
arrive, and a request takes at most `Timeout` units, the limit of the HTTP client.
"auth" stands for an answer 401 or 403, "rejected" for a world sync the backend
answered but did not accept. Such an answer first resets the backoff and then
retries, so it never backs off; the model keeps that. `last_campaign_tick` is never
reset, so after a restart of the world service snapshots are ignored until its tick
has caught up. Left out: drawing and layout, the map and its tools, the contents of
a snapshot, the parsing of the handoff, and the text of messages.

### Accounts

*Requests on threads read rows of accounts and sessions and commit what they
changed; clients keep one refresh token each and lose answers.*

| model | code |
|---|---|
| `users`, `sessions`, `tickets` | the tables, a token reduced to its number |
| `held`, `lost` | the refresh token a client keeps, and which clients have lost an answer |
| `Attempt … Enter` | `login` and `register`: limiter, password, code, session |
| `RefreshFound`, `RefreshReused`, `RefreshRefused`, `Rotate`, `RevokeAll` | `refresh`: the token or the previous one, rotation, or the end of all sessions of the account |
| `GateRead`, `GatePassed`, `GateRefused` | `get_auth_context` with the columns it commits |
| `MfaRead`, `MfaCommit` | the MFA routes |
| `IssueTicket`, `TicketRead`, `TicketConsume`, `Restart` | `ws_ticket.py`: issue; read and mark on the event loop; the purge at startup |
| `failed`, `blocked` | the deques and lockouts of `rate_limit.py`, in memory |

Passwords and codes are right or wrong, the client's version is the verdict of the
check, and drains and version gates are in `PublishDrain` and `Content`.

### Content

*Versions of game content are drafted, edited and validated by requests on threads,
and activated, rolled back and released by coroutines of the event loop.*

`loop` is the coroutine that holds the loop, one at a time, with its steps:
`Activate` / `Rollback` (the state read), `ActivateCommit`, `Refresh` (the cached
snapshot), `Release` (the policy), and `OpsActivate` for the release pipeline.
`req[t]` is an editing request between its read and its commit. A startup makes three
steps, one per commit of `ensure_content_seed` and the load behind them:
`SeedVersion` (a first active version, still without bundles), `SeedBundles` (what an
active version lacks), `Startup` (the snapshot is cached and the process serves).
`Crash` stops the process between any two commits of a request or activation. A startup
that dies between two of its own has changed nothing else, so the next one goes on
from the same state: there a crash is a pause. An active version without bundles is thus a
reachable state, and `ActiveComplete`, a part of `IndInv`, says that it is one only
while the process is not up, and no state that is ever served. Payloads are
names, or the flaw that validation finds. `BuildUpdateAvailable`, `ForceUpdate` and
`RequiresLatestBuild` are the comparisons of `release_policy.py` and of the gate.

### Promotion

*A designer's world pack goes from the stage into a manifest in a runtime file, and
from there into a commit of a GitHub repository.*

| model | code |
|---|---|
| `stage`, `runtime` | the two runtime files: absent, empty (`Truncated`), not to be parsed (`Garbled`), or what they hold |
| `OpenStage`, `WriteStage`, `StageStops` | `stage_world_package`: `write_text` opens the file, which truncates it, writes, or stops in between |
| `ActivateStaged`, `Deactivate`, `RollBack`, `RollBackToPrevious` | the three promotions up to their decision, from the manifest they read |
| `OpenManifest`, `WriteManifest` | the manifest goes to the runtime file, in the same two steps |
| `ReadHead`, `MoveBranch`, `OtherPush` | the calls of `github_publish.py`, against a branch that others may push to |
| `Fail`, `Finish` | a publish that ends at any point and takes nothing back; the stage is cleared |

Files are written in place, with no lock and no rename. One whose writer stops half way
stays empty or cut; when two write at once, the later may leave the end of a
longer text behind its own (`Written`). Neither can be parsed, and every load raises: an
unreadable manifest refuses every promotion after it (`Loadable`), an unreadable stage
is replaced by the next staging. What is being written to a stage file while it is
cleared is lost with the unlinked file. The whole text is handed to the file in one
write, so two texts do not mix in other ways.

The ghost `amiss` says what has happened: `"overlapped"` while promotions are under way that
overlap, `"apart"` since one was cut after it opened the runtime file, or overlapped
another, until one by itself is published, `"lost"` since the same but for good,
`"restaged"` while activations are under way during which a pack was staged. A version
key holds the second it was made in; here any key above those of the manifest.

### Parties and WorldEntry

*Requests that read, change objects of a session that never flushes by itself, and
commit later.*

In both, an operation is an action that reads and prepares (`LeaveParty`,
`SelectCharacter`), and `Commit` writes the changed columns; `Rollback` is a commit
that fails. A query inside the operation does not see what the operation has changed
but not flushed: this is why leaving counts the leaving member, and why no party is
ever closed. A commit also tells every request still under way what it has written
(`Overtaken`): those that contest the same are `crossed`, and what a crossed one writes
is `torn`. In `Parties` two requests contest a party when both hand it on, or one removes
the member the other would leave leading it (`Leader`, `HandsOn`), and a user when both
make them a member; in `WorldEntry` a user's selection, an instance they both write, a
character's experience. `WorldEntry` also holds `BootstrapOver`, an admin's entry to a
level of their choice, `Enter`, the second half of a bootstrap after its first commit
(party lookup, assignment, expiry), and `ResolveAction`, with its nonce and its reward. Left out: spawn coordinates, loot, audit rows of refused actions; the
movement check and the rate limit are a choice, since all they can do is refuse.

### Realtime

*Two websocket routes and some requests share one hub; what is held under its lock
is a step, and so is every single send.*

| model | code |
|---|---|
| `meta`, `users`, `channels`, `zones`, `presence` | the dictionaries of `RealtimeHub` |
| `task[s]`, `alive[s]` | the route of socket `s`, and whether its peer is still there |
| `jobs[t]` | the broadcasts a task still has to make: kind, channel, and the sockets that were in the index when the list was copied |
| `Send(t, s)`, within `Serve(s)` for a socket's task | the next send of a task; one that fails disconnects the *recipient* and puts the announcement of its leave before what the task has left to do |
| `Arrive`, `ConnectEvents`, `ConnectChat`, `ZoneScope`, `Move`, `Break` | a handshake, the registration, the zone messages of the events route, a peer that is gone |
| `Say`, `CreateMessage`, `Notify`, `CreateDirect`, `AddMembers` | chat over the socket and over HTTP, drain notices, and the two commits of a direct channel |

### Outbox and Delivery

*A command reserves its idempotency key, appends its event and its outbox row and
finalizes the key in one transaction; a LISTEN worker delivers the row.*

| model | code |
|---|---|
| `idem`, `outbox` | `world_command_idempotency`, `world_outbox` |
| `Look`, `Insert`, `Commit`, `SendAgain` | `reserve_idempotency_key`: the lookup, the insert that waits for whoever holds the key; the commit; a request sent again |
| `Connect`, `Poll`, `Drop` | `OutboxNotifyWorker.run`: LISTEN, notifications or a heartbeat, a connection that drops |
| `Select`, `Claim`, `Deliver`, `MarkProcessed`, `MarkRetry` | `claim_outbox_batch` (two statements), the handler, and the marks |
| `Raise`, `Die` | an exception of the handler; the end of the process |

`main.py` gives the worker a handler that does nothing; the handler modelled is the
one the tests of the worker and of the pipeline put together. `Delivery` is what it
promises, in three actions: a message is sent, delivered or, with the worker that
holds it, lost. `Outbox` refines it by the mapping `Status`. The processor cursor,
which the program never moves, is left out.

## 4. Runs

Every run but the last explores its instance to the end without an error, and every
property of a passing run has a mutant in `PROJECT.json`: a plausible bug of a mapped
definition that makes TLC find the property violated under the same configuration.

| run, configuration | what it shows | instance | states |
|---|---|---|---|
| `drain` `MCPublishDrain.cfg` | the inductive invariant, the truth of the audit, no escape, the publish lock, a publish is followed by its drain, the grace period, every drain ends | one process that crashes once, one thread, two players and an administrator, two publishes, half-second clock | 250,000 |
| `battle` `MCBattleWorld.cfg` | rows, queue and clock coherent, an army in one active battle (both in `IndInv`), log truthful, troops never grow, the battle world implements `BattleLives`, every battle ends | three battles of which the second wants an army of each of the others, asked for again after they ended, four armies, one pressure, four steps, a log of two, orders up to tick 3 | 105,000 |
| `world` `MCWorldControl.cfg` | clock, queue and requests coherent, the next tick at most an interval behind the latest time the world was told, snapshots ordered, through failures, restarts and client times | two threads, two rival battles, three requests of six kinds, two parts per snapshot, one failed call, client times 0 and 4 | 1,997,000 |
| `client` `MCClientShell.cfg` | no stuck flag, LIVE is recent, no left-over world sync, live again | one character, battle lane, one failed call, one restart of the world, one cleared session, backoff up to 2 | 943,000 |
| `accounts` `MCAccounts.cfg` | who loses no answer stays in, revoked is final, a ticket opens one socket, a lockout holds | one account, two sessions, two threads, two sockets, three refresh tokens, four requests | 445,000 |
| `content` `MCContent.cfg` | one active version, complete once the process is up, the served one, and a content release that asks for no binary | three versions, two domains, two editors, three activations, four edits, crashes anywhere, between the commits of a startup too | 1,610,000 |
| `parties` `MCParties.cfg` | the owner leads, one party per user | three users, two parties, two invites, two requests at a time | 1,267,000 |
| `world_entry` `MCWorldEntry.cfg` | one selected character, expiry when due, one reward per action, experience kept | two users with a session each, both admins, two characters, a hub and another level, two nonces, five requests, two at a time, two changes of time or of a party | 1,727,000 |
| `promotion` `MCPromotion.cfg` | manifests coherent and readable but for a cut or an overlap, repository follows again after both, a staged pack is kept until published | two designers, files written in place, three promotions, two stages, one foreign push, a legacy pointer | 1,062,000 |
| `outbox` `MCOutbox.cfg` | answers are true; the pipeline implements `Delivery`, liveness included | two keys; a request, its duplicate, one with another payload under its key, one with its own key; one worker, limit 2, two attempts, one fault | 565,000 |
| `realtime` `MCRealtime.cfg` | hub coherent; who is gone is forgotten | two users with a connection and one with none, three sockets, two levels of which one is a hub, a direct channel, four inputs | 290,000 |
| `parties_leave` `MCParties_leave.cfg` | **violated**: the owner who leaves stays | two users, one party | – |

Why these bounds are enough for what the runs are about:

* *Two at a time.* What goes wrong in requests on rows goes wrong between a read and a
  commit; one other request in between is enough to show it, and two threads (editors,
  designers, requests) give every pair of operations. Three users and two parties are
  what a user needs to be invited to a second party while the first one changes hands.
* *One more than the capacity.* The log of results takes two and three battles end
  in it; a second publish meets the lock of the first; a third failed attempt meets the
  limit of two; the fourth input breaks a socket in the middle of a broadcast; the
  backoff reaches its cap before it is reset.
* *One loss roll.* `battle` runs with one pressure: the troops differ, so battles end by
  annihilation, order and step limit all the same. The theorems hold for any rolls.
* *Clocks* are as long as the longest delay in the instance and one unit beyond:
  countdown plus truncation, lockout, token lifetime, two intervals of the world.
* *Faults* are one of a kind. Where a second one can matter it is said: after a
  second cleared session `SyncsAwaited` is lost (Section 7).
* *Several processes* are not in a run but in the proofs: those of `PublishDrain` hold for any
  number of processes, except for the lock and for the drain behind every publish.

Deadlock is checked in `client` and `outbox`. The other instances may run out of
requests, inputs or time, and their configurations say so.

## 5. Fairness

* `PublishDrain`: the event loop goes on with what it has begun, sleeping countdowns
  wake, threads finish, a stopped process is started again, time passes. Nobody has
  to publish or to send requests. `DrainEnds` has the exception of a crash because the
  countdown is a task in memory; the next startup then ends the drain only when it is
  already due.
* `BattleWorld`: ticks go on. They do as long as a client polls; nothing else
  makes the world tick.
* `ClientShell`: the worker and the backend finish what they began. `Collect`,
  `Drive` and `Elapse` are strongly fair, because they run in every frame whatever the
  player does between frames and their guards are switched on and off by others.
  Nobody has to click. `Recovers` is about a client that stays in the campaign.
* `Realtime`: each route serves its socket. A broken peer is noticed by its own route
  or by a send, whichever is first.
* `Outbox`: a worker works and reconnects while it lives, and a retry falls due. The
  fairness of `Delivery` is what `Delivers` derives from these.

## 6. What is proved

Every safety property of the passing runs, invariants and action properties, is a
theorem (two of them for one backend process), and so is the safety part of the
refinement. They hold for every value of the constants that meets the named
assumptions. Most of these say that sets are finite, bounds are numbers and constants
fit together (`ConstantsAssumption`, `ControlAssumption`, `ClientAssumption`,
`AccountsAssumption`, `ContentAssumption`, `OutboxConstants`, `RealtimeConstants`,
`PartiesAssumption`, `WorldEntryAssumption`, `PromotionAssumption`); `NoRecord`,
`NoManifest` and `RowOrNone` say that the values for "no row", and for a file that
cannot be read, are not rows or manifests, and `TornApart` that users, instances and
characters are not one another.

Each module of proofs has the same shape: lemmas about the operators, one lemma per
group of actions and part of the invariant, coherence, then the properties from
it. `PROJECT.json` lists the theorems. Six of the inductive invariants (`IndInv`) are
invariants of the runs; TLC has also checked `TicksInv`, `PublishInv`, `AwaitInv`, `PartiesInv`,
`EntryInv` and `PromotionInv` on the instances of their components' runs.

* **`PublishDrainProofs`**: `NoEscape` is not inductive: it speaks of completed
  drains and says nothing of the operation that will complete one. `IndInv` adds what
  the holder of the loop has read and is about to write (`MarksCoherent`,
  `CommitsCoherent`, `FinalizesCoherent`), the same for requests on threads
  (`RequestsCoherent`), and that a countdown has a drain (`CountdownsCoherent`). From
  it: `NoEscapeHolds`, `AuditHolds`, `GraceHolds`, and for one process `LockHolds`.
  `AnnouncedHolds`, for one process that has not crashed, spans two transactions, the
  policy's and the drain's. `PublishInv` follows the publish: from the first check of
  the capacity to the second there is room; from the policy's commit to the drain's the
  loop works for the policy's version; at any other time that version has its drain. It
  needs that nothing else on the loop makes a drain active (`RoomStays`) and nothing
  takes one out of the table (`DrainsStay`).
* **`BattleWorldProofs`**: `IndInv` says which rows an order or a step can meet in the
  middle of a tick. `Exclusive`, `TroopsHold`, `FinalHolds` follow from it;
  `Truthful` counts the entries of the log against the resolved battles.
  `TicksSeenAsLives`: every step is one of `BattleLives` or not seen by callers. The end
  of a tick is `RunQueue`, which `TicksInv` prepares order by order: what was opened was
  asked for and has no rival, an encounter applied and not opened had one
  (`OpenedRight`), nothing ends while there are encounters to apply, and what was told to
  end has ended (`EndsRight`). It assumes that an id is that of one encounter
  (`OneEncounterEach`): where two share it, the id does not tell whose armies it wants.
* **`WorldControlProofs`**: `AlwaysUpToDate` rests on the runner's clock (when a route
  has advanced the world and no restart followed, the due time is past its time),
  `AlwaysSnapshotOrdered` on the moments a request has read, `AlwaysRewardedNotFighting`
  on who owns an instance and on the forced end behind its start in the queue.
  `Schedule` holds with failing calls, restarts and client times: a request carries a time
  that the backend's uptime has reached, in this or an earlier process, or that a client
  brought (`Timely`), and the world catches up to such a time and no further, so the next
  tick is never due more than an interval past the latest of them.
  `TicksAddUp` lets `RunTicks` take many ticks as one `RunQueue`; with
  `TicksSeenAsLives` it is why `WorldControl` may forget orders, rows and steps.
* **`ClientShellProofs`**: `FlagsBacked` (a flag is backed by a job somewhere between
  the two channels), which rests on `WorkerCoherent` (until the worker runs, only the
  failure it reports itself can have been answered); `ShownCoherent`, which rests on
  `JobsCoherent` (how old a snapshot is on its way); from them `Recent`. `SyncsAwaited`
  is about the *number* of requests among others in a queue, so `AwaitInv` reduces the
  pipeline to the kinds of its jobs (`Kinds`) and says what each flag tells of them:
  while a session is there, the shell has one request under way at most and knows of it
  (`ShellTold`); after the session was cleared there may be one left-over answer, which
  comes before that of the new login (`Cleared`); in the campaign there is one sync at
  most, the one awaited, and no sync is ever behind a bootstrap, whose answer would
  bring the client back to the campaign with that sync forgotten (`SyncTold`). Lemmas
  on appending to, and taking from, a sequence of kinds carry it through the actions.
* **`ClientShellProofs`, second part: `WorldEntry`**. `OneSelected` and `EarnedIsKept` speak
  of rows at rest, while a request holds columns it will write whatever the rows have
  become. So `Sound` says of each request what its commit *would* leave: unless it was
  crossed, one selected character (`SelectionSound`), an experience that is what was
  earned plus its grant (`RewardSound`), and only due instances expired
  (`ExpirySound`). A commit then makes true what its request promised, for a user or an instance
  that was torn before it too, and marks as crossed the others that contest the same.
  `RewardSound` rests on arithmetic: level and experience after the levelling are worth what
  they were before it (`Worth`, through quotient and remainder, for any `XpToLevelup`).
  `RewardedOnce` needs `RewardsKnown`: a rewarded nonce has its audit row as long as its
  character is there.
* **`AccountsProofs`**: `RevocationHolds` needs that a copy of a row which is not
  revoked writes no revocation away, `ClientsStayIn` that a client without a lost answer
  holds a token its session stores as the current one, `LockoutHolds` that whoever
  clears a lockout was let in before it. `TicketsOnce` assumes one event loop.
* **`ContentProofs`**: at most one version is active because the activation re-reads all
  of them on the loop that nobody else holds (`ActiveIsServed`, `ReleasesServed`); it is complete because what a startup leaves
  without bundles is not served before the same or a later startup has committed them
  (`SeedStep`, `StartupStep`);
  editors on threads write only drafts they read as such, or the state of the version
  they validated. `BinaryKept` compares the policies before and after a release.
* **`ContentProofs`, second part: `Promotion`**. `ManifestsHold` needs that what a promotion
  has decided has one active version before it is written (`JobsCoherent`), and that
  `latest.json` is the pointer of the branch's manifest in every history
  (`LatestFollows`). What is known of the runtime file depends on what has happened, in
  an order that never breaks (`AmissOrdered`: overlapped, so apart, so lost). While
  promotions do not overlap there is one, and the step it is at says what the file holds:
  nothing, once it was opened, and its own manifest from the write to the move of the
  branch (`AloneCoherent`). While nothing is apart, the file is what the branch has, but for the
  promotion under way (`TogetherCoherent`). While nothing is lost, every version of
  either has its pack (`PacksCoherent`). A promotion that begins alone and reaches
  `MoveBranch` establishes the second from the first, whatever was apart before it; this
  is how `RepoHolds` and the readability of the file come back. `StagesKept`, about
  steps, needs `StageCoherent`: unless something was staged meanwhile, all activations
  under way carry the staged pack.
* **`RealtimeProofs`**: a socket is registered only while its route serves it; each
  broadcast under way goes to sockets that were entitled when its list was made.
* **`RealtimeProofs`, second part: `Parties`**. Again `Sound` says what the commit of each
  request would leave: its own user and nobody else added, and, not crossed, to no second
  party; a party that is handed on, not crossed, with one owner, who is a member, even if
  it was torn (`Leads`). A removal that is not crossed does not take whoever leads when
  it commits. `PreparedSound` starts it; a commit either finds it true or is one that tears.
* **`OutboxProofs`**: `AnswersHold` for any number of workers and requests. For one
  worker, `DeliveredOnce`: `Init` maps to `Delivery`'s `Init`, and every step, faults
  included, to one of its steps or to a stutter, under the mapping `Status`.

### Only model-checked

* Liveness: `DrainEnds`, `BattleEnds`, `Recovers`, `GoneAreForgotten` and the fair part of
  `Delivers`; the prover has neither ENABLED nor fairness.

`OneDrainAtATime` and `PublishIsDrained` are proved for one process: with two they are
false (next section).

Stated as theorems and checked by no run of their own: `ArmiesExclusive` (a part of the
checked `IndInv`), `ResolvedIsFinal`, `RewardedNotFighting`,
`ReleasedIsServed`, `UpToDate`. Stated because the repository says so, and false of
the code: `StatusTruthful`, `RewardsEarned`, `OnSchedule`, `BinaryNotRequired`, `StartsUp`,
`LatestHasPack` (next section) and `LeaveLeaves` (run `parties_leave`).

## 7. Where the code departs from what it says

*Drains and the world*

* The capacity check counts drains that other processes have committed: two processes
  publishing at once both start a drain, and the branch called "defensive-only" is then
  reachable. Within a process only that the handlers never await in between keeps the lock.
* The start route takes an instance it does not find for a resolved one; with two routes
  in one interval, or an engaged army, clients are told "resolved" of a battle that
  was never fought (`StatusTruthful`).
* The vertical slice commits experience and location whatever became of its battle;
  with a client time before the next due tick nothing was fought (`RewardsEarned`).
* The time of the world is the uptime of the backend process while the due time lives
  in the world service: after a restart of the backend alone no tick is due until it
  has run as long again, and a slice with a time in the future stops the world until then
  (`OnSchedule`). `ScheduleKept` says that this is the worst of it.

*Accounts, content, promotion*

* Two overlapping MFA requests can leave MFA on without a secret.
* `deps.py:66` demands the latest build once a content-only release has raised
  `latest_version`, so clients with the newest binary are refused (`BinaryNotRequired`).
* Validating the active version takes its state "active" away; the next startup finds no
  active version and cannot seed the first one again (`StartsUp`).
* Rolling back without a target after a deactivation re-activates the version that was
  deactivated; a publish that failed leaves a version in the runtime manifest whose pack
  is not in the repository, and a rollback can then point there (`LatestHasPack`).
* A process that stops while it writes the runtime manifest, or two promotions that
  write it at once, can leave a file that no later request can load; no route replaces
  it, since each loads it first. A pack staged while an activation of another is under way is cleared with it.
* Gameplay levels a character up at a fixed 100 experience; `characters.py` shows
  `xp_per_level` of the content.

*Parties and characters*

* The owner who leaves a party stays in it: the row marked for deletion is still found,
  sorts first and is added back (`LeaveLeaves`).
* Requests of one user that cross can leave two parties, two selected characters, or a
  level and experience that miss a reward or are worth more than was granted, since each
  writes only the columns it changed. `torn` says of whom; the next selection makes good
  a second selected character, nothing the others.
* The list of loot is changed in place, which the session does not notice: it is never
  stored.

*Events and outbox*

* With two workers both can claim a row before either commits, and deliver it twice; the
  lock of a worker that died is never cleared.
* Presence stays when the events socket of a user closes while a chat socket is open, or
  is lost when the second of two closes; the announcement of a join can arrive after
  that of the leave. Sockets survive the revocation of their session. Two requests can
  make two direct channels of a pair.
* After a second cleared session the client can forget a world sync (`SyncsAwaited` is
  stated for one).

## 8. Not modelled, and why

* **Travel, logistics, trade, espionage, politics worlds**: sequential ticks of one world
  each, arithmetic over many numeric fields, with unit tests of their own. Their queue
  and tick order are those of `BattleWorld`; what they could get wrong is numbers.
* **Request authentication of the world service**: the calls of `WorldControl` are those
  that pass it. **World service configuration and reads**: no state.
* **Runtime gameplay config**: whole files copied by a library; what two publishes leave
  behind is decided by the file system.
* **Levels, observability, simulation contracts, schemas, settings**: one row per
  request, counters nobody reads back, types. **Migrations** run before the program.
* **Launcher, designer client, authoring tools, packaging and scripts**: one user or one
  job, one sequence; their state is a window and files.
* Of modelled components: the drawing of the client, the payload rules of content, the
  processor cursor (the program never moves it), message history and moderation (stored and read only).

## 9. What is left

1. Conservation and bounds in the economic worlds; the paths of the travel map against a
   reference definition, by TLC.
2. The replay cache of the world service against clock skew, and the copying of runtime
   configuration.
