---------------------------- MODULE ClientShell ----------------------------
(* The bootstrap shell of the game client and its world-sync poll.         *)
(*                                                                         *)
(* The shell talks to the backend through one worker thread: a channel of  *)
(* requests, which the thread executes one at a time, and a channel of     *)
(* responses, which a system of the main thread empties once per frame.    *)
(* Five kinds of flags say that something is under way, and buttons, the   *)
(* poll and the phase depend on them; responses may arrive after the user  *)
(* has moved on to another phase, character or session.                    *)
(*                                                                         *)
(* Every frame runs two systems, in either order, and draws the interface, *)
(* where something may be clicked.  They are interleaved in any way here,  *)
(* which includes every sequence of frames; a system still finishes before *)
(* another one starts.  Time is counted in units longer than a frame.      *)
EXTENDS Naturals, FiniteSets, Sequences

CONSTANTS
  Characters,   \* characters of the account
  NoCharacter,  \* no character selected, or none entered
  Rosters,      \* character lists the backend may return
  Lanes,        \* "battle" and "panel": commands in flight are guarded apart
  BasePoll,     \* WORLD_SYNC_BASE_POLL_MS
  MaxBackoff,   \* WORLD_SYNC_MAX_BACKOFF_MS
  StaleAfter,   \* stale_after_ms
  Timeout,      \* time limit of a request of the worker
  MaxTick,      \* bound: ticks of the campaign world
  MaxFailures,  \* bound: requests that fail or are refused
  MaxRestarts,  \* bound: restarts of the world service
  MaxClears     \* bound: sessions cleared by the user

ShellKinds == {"login", "characters", "bootstrap"}
Phases == {"Login", "Authenticating", "CharacterSelect", "Bootstrapping", "CampaignReady"}

ASSUME ClientAssumption ==
  /\ NoCharacter \notin Characters
  /\ \A r \in Rosters : r \subseteq Characters
  /\ Lanes \subseteq {"battle", "panel"}
  /\ BasePoll \in Nat \ {0} /\ MaxBackoff \in Nat /\ BasePoll <= MaxBackoff
  /\ StaleAfter \in Nat /\ Timeout \in Nat
  /\ MaxTick \in Nat /\ MaxFailures \in Nat /\ MaxRestarts \in Nat /\ MaxClears \in Nat

VARIABLES
  shell,      \* ShellState
  sync,       \* WorldSyncState
  commands,   \* per lane, whether a command is in flight
  requests,   \* channel to the worker
  worker,     \* the worker thread: starting, running or gone
  working,    \* the request it executes, if any
  responses,  \* channel from the worker
  inbox,      \* responses collected in this frame and not handled yet
  booted,     \* whether the startup systems have run
  world,      \* campaign tick and restarts of the world service
  failures,   \* failed requests so far
  clears      \* sessions cleared so far

channels == <<requests, working, responses, inbox>>
vars == <<shell, sync, commands, channels, worker, booted, world, failures, clears>>

-----------------------------------------------------------------------------
(* Jobs: a request and, later, its response. *)

Job == [kind : ShellKinds \cup {"sync"} \cup Lanes,
        character : Characters \cup {NoCharacter},
        result : {"none", "ok", "error", "auth", "rejected"},
        roster : SUBSET Characters,
        tick : Nat,       \* of the snapshot a world sync returns
        age : Nat]        \* since the worker took the request

Request(kind, c) ==
  [kind |-> kind, character |-> c, result |-> "none", roster |-> {}, tick |-> 0, age |-> 0]

(* A send fails once the receiving thread is gone. *)
Sendable == worker # "gone"
Queued(q, job) == IF Sendable THEN Append(q, job) ELSE q

NoSnapshot == [character |-> NoCharacter, age |-> 0]

(* World-sync records: next_poll_unix_ms as the time left, the time since  *)
(* last_received_unix_ms, which StaleAfter + 1 also stands for "never".    *)
SyncState ==
  [inFlight : BOOLEAN, wait : 0..MaxBackoff, backoff : 1..MaxBackoff, since : 0..(StaleAfter + 1),
   tick : Nat, shown : [character : Characters \cup {NoCharacter}, age : 0..(StaleAfter + Timeout + 1)]]

ShellState ==
  [phase : Phases, inFlight : BOOLEAN, handoff : BOOLEAN, session : BOOLEAN, roster : SUBSET Characters,
   selected : Characters \cup {NoCharacter}, bootstrap : Characters \cup {NoCharacter}]

is_stale == sync.since > StaleAfter

Init ==
  /\ \E handoff \in BOOLEAN, c \in Characters \cup {NoCharacter} :
       /\ c # NoCharacter => handoff
       /\ shell = [phase |-> IF handoff THEN "CharacterSelect" ELSE "Login",
                   inFlight |-> FALSE, handoff |-> handoff, session |-> handoff, roster |-> {},
                   selected |-> c, bootstrap |-> NoCharacter]
  /\ sync = [inFlight |-> FALSE, wait |-> 0, backoff |-> BasePoll, since |-> StaleAfter + 1,
             tick |-> 0, shown |-> NoSnapshot]
  /\ commands = [l \in Lanes |-> FALSE]
  /\ requests = <<>> /\ working = <<>> /\ responses = <<>> /\ inbox = <<>>
  /\ worker = "starting"
  /\ booted = FALSE
  /\ world = [tick |-> 0, restarts |-> 0]
  /\ failures = 0 /\ clears = 0

-----------------------------------------------------------------------------
(* The worker and the backend. *)

WorkerStarts ==
  /\ worker = "starting"
  /\ worker' = "running"
  /\ UNCHANGED <<shell, sync, commands, channels, booted, world, failures, clears>>

(* No HTTP client could be built: one failed login is reported, and both   *)
(* channels are closed.                                                    *)
WorkerFails ==
  /\ worker = "starting"
  /\ worker' = "gone"
  /\ responses' = Append(responses, [Request("login", NoCharacter) EXCEPT !.result = "error"])
  /\ requests' = <<>>
  /\ UNCHANGED <<shell, sync, commands, working, inbox, booted, world, failures, clears>>

Take ==
  /\ worker = "running" /\ working = <<>> /\ requests # <<>>
  /\ working' = <<Head(requests)>>
  /\ requests' = Tail(requests)
  /\ UNCHANGED <<shell, sync, commands, responses, inbox, worker, booted, world, failures, clears>>

Outcomes(kind) ==
  {"ok", "auth"} \cup (IF kind = "sync" THEN {"rejected"} ELSE {})

(* The backend answers, with what it knows at that moment. *)
Serve ==
  /\ working # <<>> /\ working[1].result = "none"
  /\ \E outcome \in Outcomes(working[1].kind), roster \in Rosters :
       /\ outcome # "ok" => failures < MaxFailures
       /\ failures' = IF outcome = "ok" THEN failures ELSE failures + 1
       /\ working' = <<[working[1] EXCEPT
            !.result = outcome,
            !.roster = IF working[1].kind = "characters" THEN roster ELSE {},
            !.tick = IF working[1].kind = "sync" THEN world.tick ELSE 0]>>
  /\ UNCHANGED <<shell, sync, commands, requests, responses, inbox, worker, booted, world, clears>>

Reply ==
  /\ working # <<>> /\ working[1].result # "none"
  /\ responses' = Append(responses, working[1])
  /\ working' = <<>>
  /\ UNCHANGED <<shell, sync, commands, requests, inbox, worker, booted, world, failures, clears>>

(* A request that fails on the way: refused, timed out, or answered badly. *)
CallFails ==
  /\ working # <<>> /\ working[1].result = "none" /\ failures < MaxFailures
  /\ failures' = failures + 1
  /\ responses' = Append(responses, [working[1] EXCEPT !.result = "error"])
  /\ working' = <<>>
  /\ UNCHANGED <<shell, sync, commands, requests, inbox, worker, booted, world, clears>>

WorldTick ==
  /\ world.tick < MaxTick
  /\ world' = [world EXCEPT !.tick = @ + 1]
  /\ UNCHANGED <<shell, sync, commands, channels, worker, booted, failures, clears>>

WorldRestart ==
  /\ world.restarts < MaxRestarts
  /\ world' = [tick |-> 0, restarts |-> world.restarts + 1]
  /\ UNCHANGED <<shell, sync, commands, channels, worker, booted, failures, clears>>

-----------------------------------------------------------------------------
(* startup_handoff_fetch, poll_backend_responses, drive_world_sync_poll *)

Startup ==
  /\ ~booted
  /\ booted' = TRUE
  /\ IF ~shell.session
     THEN UNCHANGED <<shell, requests>>
     ELSE /\ requests' = Queued(requests, Request("characters", NoCharacter))
          /\ shell' = IF Sendable THEN [shell EXCEPT !.inFlight = TRUE]
                      ELSE [shell EXCEPT !.phase = "Login", !.session = FALSE]
  /\ UNCHANGED <<sync, commands, working, responses, inbox, worker, world, failures, clears>>

(* Mutant: shell responses are handled before those of the poll. *)
Collected_ShellFirst ==
  SelectSeq(responses, LAMBDA job : job.kind \in ShellKinds)
    \o SelectSeq(responses, LAMBDA job : job.kind \notin ShellKinds)

(* All responses that have arrived, in their order. *)
Collected == responses

Collect ==
  /\ booted /\ inbox = <<>>
  /\ inbox' = Collected
  /\ responses' = <<>>
  /\ shell' = [shell EXCEPT !.inFlight = @ /\ worker # "gone"]
  /\ UNCHANGED <<sync, commands, requests, working, worker, booted, world, failures, clears>>

LoginHandled(job) ==
  IF job.result = "ok"
  THEN [shell EXCEPT !.session = TRUE, !.handoff = FALSE, !.phase = "CharacterSelect",
                     !.inFlight = Sendable]
  ELSE [shell EXCEPT !.phase = "Login", !.inFlight = FALSE]

(* A handoff session the backend refuses is dropped; any other failure of  *)
(* the roster or of the bootstrap goes back to the character selection.    *)
FailureHandled(job) ==
  IF shell.handoff /\ job.result = "auth"
  THEN [shell EXCEPT !.phase = "Login", !.inFlight = FALSE, !.session = FALSE, !.roster = {},
                     !.selected = NoCharacter, !.handoff = FALSE]
  ELSE [shell EXCEPT !.phase = "CharacterSelect", !.inFlight = FALSE]

(* resolve_selected_character_id: the current one while it is listed, else *)
(* the one the server or the order of the list prefers.                    *)
Resolved(roster, current) ==
  CASE current \in roster -> {current}
    [] roster = {} -> {NoCharacter}
    [] OTHER -> roster

CharactersHandled(job, c) ==
  [shell EXCEPT !.roster = job.roster, !.selected = c, !.phase = "CharacterSelect", !.inFlight = FALSE]

BootstrapHandled(job) ==
  [shell EXCEPT !.bootstrap = job.character, !.handoff = FALSE, !.phase = "CampaignReady",
                !.inFlight = FALSE]

Least(a, b) == IF a < b THEN a ELSE b

(* Mutant: the failed request stays in flight. *)
Retry_InFlight(s) ==
  [s EXCEPT !.wait = s.backoff, !.backoff = Least(2 * @, MaxBackoff)]

(* schedule_world_sync_retry *)
Retry(s) ==
  [s EXCEPT !.inFlight = FALSE, !.wait = s.backoff, !.backoff = Least(2 * @, MaxBackoff)]

(* Mutant: any answer counts as a snapshot received. *)
Answered_Received(s) ==
  [s EXCEPT !.inFlight = FALSE, !.wait = BasePoll, !.backoff = BasePoll, !.since = 0]

(* What every answer does, also one that is not applied. *)
Answered(s) ==
  [s EXCEPT !.inFlight = FALSE, !.wait = BasePoll, !.backoff = BasePoll]

Older(job) == job.tick < sync.tick

(* handle_world_sync_response *)
SyncHandled(job) ==
  CASE job.result \in {"error", "auth"} -> Retry(sync)
    [] job.result = "rejected" -> Retry(Answered(sync))
    [] job.result = "ok" /\ Older(job) -> Answered(sync)
    [] OTHER -> [Answered(sync) EXCEPT !.since = 0, !.tick = job.tick,
                                       !.shown = [character |-> job.character, age |-> job.age]]

HandleShell(job) ==
  /\ job.kind \in ShellKinds
  /\ \/ job.kind = "login" /\ shell' = LoginHandled(job)
     \/ job.kind # "login" /\ job.result # "ok" /\ shell' = FailureHandled(job)
     \/ /\ job.kind = "characters" /\ job.result = "ok"
        /\ \E c \in Resolved(job.roster, shell.selected) : shell' = CharactersHandled(job, c)
     \/ job.kind = "bootstrap" /\ job.result = "ok" /\ shell' = BootstrapHandled(job)
  /\ requests' = IF job.kind = "login" /\ job.result = "ok"
                 THEN Queued(requests, Request("characters", NoCharacter)) ELSE requests
  /\ UNCHANGED <<sync, commands>>

HandleSync(job) ==
  /\ job.kind = "sync"
  /\ sync' = SyncHandled(job)
  /\ UNCHANGED <<shell, commands, requests>>

(* Mutant: only an accepted command is over. *)
HandleCommand_Accepted(job) ==
  /\ job.kind \in Lanes
  /\ commands' = [commands EXCEPT ![job.kind] = job.result # "ok"]
  /\ UNCHANGED <<shell, sync, requests>>

(* The handlers of battle and panel responses only clear their flag. *)
HandleCommand(job) ==
  /\ job.kind \in Lanes
  /\ commands' = [commands EXCEPT ![job.kind] = FALSE]
  /\ UNCHANGED <<shell, sync, requests>>

Handle ==
  /\ inbox # <<>>
  /\ inbox' = Tail(inbox)
  /\ LET job == Head(inbox) IN HandleShell(job) \/ HandleSync(job) \/ HandleCommand(job)
  /\ UNCHANGED <<working, responses, worker, booted, world, failures, clears>>

(* The poll: dropped outside the campaign, else one request at a time. *)
InCampaign == shell.phase = "CampaignReady" /\ shell.session

SyncCharacter == IF shell.bootstrap # NoCharacter THEN shell.bootstrap ELSE shell.selected

(* Mutant: the poll does not wait for its answer. *)
PollDue_Unguarded == SyncCharacter # NoCharacter /\ sync.wait = 0

PollDue == SyncCharacter # NoCharacter /\ ~sync.inFlight /\ sync.wait = 0

Drive ==
  /\ booted /\ inbox = <<>>
  /\ requests' = IF InCampaign /\ PollDue THEN Queued(requests, Request("sync", SyncCharacter))
                 ELSE requests
  /\ sync' = CASE ~InCampaign -> [sync EXCEPT !.inFlight = FALSE]
               [] InCampaign /\ PollDue -> IF Sendable THEN [sync EXCEPT !.inFlight = TRUE] ELSE Retry(sync)
               [] OTHER -> sync
  /\ UNCHANGED <<shell, commands, working, responses, inbox, worker, booted, world, failures, clears>>

-----------------------------------------------------------------------------
(* draw_shell_ui: clicks. *)

Draw ==
  /\ booted /\ inbox = <<>>
  /\ UNCHANGED <<sync, working, responses, inbox, worker, booted, world, failures>>

(* What a click does when the request could be sent; else a status line. *)
Dispatch(job, sent) ==
  /\ requests' = Queued(requests, job)
  /\ shell' = IF Sendable THEN sent ELSE shell
  /\ UNCHANGED <<commands, clears>>

ClickLogin ==
  /\ Draw /\ shell.phase \in {"Login", "Authenticating"} /\ ~shell.inFlight
  /\ Dispatch(Request("login", NoCharacter),
              [shell EXCEPT !.phase = "Authenticating", !.inFlight = TRUE])

Selecting == shell.phase \in {"CharacterSelect", "Bootstrapping"}

ClickCharacter ==
  /\ Draw /\ Selecting
  /\ \E c \in shell.roster : shell' = [shell EXCEPT !.selected = c]
  /\ UNCHANGED <<commands, requests, clears>>

ClickEnter ==
  /\ Draw /\ Selecting /\ ~shell.inFlight /\ shell.selected # NoCharacter /\ shell.session
  /\ Dispatch(Request("bootstrap", shell.selected),
              [shell EXCEPT !.phase = "Bootstrapping", !.inFlight = TRUE])

(* In the campaign the same button leaves it. *)
ClickRefresh ==
  /\ Draw /\ (Selecting \/ shell.phase = "CampaignReady")
  /\ ~shell.inFlight /\ shell.session
  /\ Dispatch(Request("characters", NoCharacter),
              [shell EXCEPT !.phase = IF @ = "CampaignReady" THEN "CharacterSelect" ELSE @,
                            !.inFlight = TRUE])

ClickClear ==
  /\ Draw /\ Selecting /\ clears < MaxClears
  /\ clears' = clears + 1
  /\ shell' = [shell EXCEPT !.session = FALSE, !.roster = {}, !.selected = NoCharacter,
                            !.bootstrap = NoCharacter, !.handoff = FALSE, !.phase = "Login",
                            !.inFlight = FALSE]
  /\ UNCHANGED <<commands, requests>>

ClickBack ==
  /\ Draw /\ shell.phase = "CampaignReady"
  /\ shell' = [shell EXCEPT !.phase = "CharacterSelect"]
  /\ UNCHANGED <<commands, requests, clears>>

(* A command is sent unless one of its lane is in flight. *)
Command(lane) ==
  /\ Draw /\ InCampaign /\ shell.bootstrap # NoCharacter
  /\ lane \in Lanes /\ ~commands[lane]
  /\ requests' = Queued(requests, Request(lane, shell.bootstrap))
  /\ commands' = IF Sendable THEN [commands EXCEPT ![lane] = TRUE] ELSE commands
  /\ UNCHANGED <<shell, clears>>

(* Start Skirmish Instance; the orders of the battle window, which exists   *)
(* once a snapshot shows a battle; the buttons of the domain panels.        *)
ClickStart == Command("battle")
ClickOrder == sync.shown # NoSnapshot /\ Command("battle")
ClickPanel == Command("panel")

-----------------------------------------------------------------------------
(* The age of what is shown counts up to the first value that is too old.   *)
Later(shown) ==
  IF shown = NoSnapshot THEN shown
  ELSE [shown EXCEPT !.age = Least(@ + 1, StaleAfter + Timeout + 1)]

Aged(channel) == [i \in DOMAIN channel |-> [channel[i] EXCEPT !.age = @ + 1]]

(* One unit of time.  Responses are collected and handled in the unit in    *)
(* which they arrive, and no request outlives the time limit of the worker. *)
Elapse ==
  /\ responses = <<>> /\ inbox = <<>>
  /\ working # <<>> => working[1].age < Timeout
  /\ working' = Aged(working)
  /\ sync' = [sync EXCEPT !.wait = IF @ = 0 THEN 0 ELSE @ - 1,
                          !.since = Least(@ + 1, StaleAfter + 1),
                          !.shown = Later(@)]
  /\ UNCHANGED <<shell, commands, requests, responses, inbox, worker, booted, world, failures, clears>>

Click ==
  \/ ClickLogin \/ ClickCharacter \/ ClickEnter \/ ClickRefresh \/ ClickClear \/ ClickBack
  \/ ClickStart \/ ClickOrder \/ ClickPanel

Next ==
  \/ WorkerStarts \/ WorkerFails \/ Take \/ Serve \/ Reply \/ CallFails
  \/ WorldTick \/ WorldRestart
  \/ Startup \/ Collect \/ Handle \/ Drive \/ Click
  \/ Elapse

Spec == Init /\ [][Next]_vars

(* The threads run, the backend answers in the end, the world ticks, and   *)
(* time passes however busy the client is; nobody has to click.            *)
Fairness ==
  /\ WF_vars(WorkerStarts) /\ WF_vars(Take) /\ WF_vars(Serve) /\ WF_vars(Reply)
  /\ WF_vars(Startup) /\ SF_vars(Collect) /\ WF_vars(Handle) /\ SF_vars(Drive)
  /\ WF_vars(WorldTick) /\ SF_vars(Elapse)

FairSpec == Spec /\ Fairness

-----------------------------------------------------------------------------
(* Properties. *)

TypeOK ==
  /\ shell \in ShellState /\ sync \in SyncState
  /\ commands \in [Lanes -> BOOLEAN]
  /\ requests \in Seq(Job) /\ working \in Seq(Job) /\ responses \in Seq(Job) /\ inbox \in Seq(Job)
  /\ Len(working) <= 1
  /\ worker \in {"starting", "running", "gone"}
  /\ booted \in BOOLEAN
  /\ world \in [tick : Nat, restarts : Nat]
  /\ failures \in Nat /\ clears \in Nat

Holds(channel, kinds) == \E i \in 1..Len(channel) : channel[i].kind \in kinds
Underway(kinds) ==
  Holds(inbox, kinds) \/ Holds(responses, kinds) \/ Holds(working, kinds) \/ Holds(requests, kinds)

(* No flag is set with nothing under way that would clear it: otherwise    *)
(* buttons stay disabled, or the poll stops, until the client is restarted.*)
FlagsBacked ==
  /\ shell.inFlight => Underway(ShellKinds) \/ worker = "gone"
  /\ sync.inFlight => Underway({"sync"})
  /\ \A l \in Lanes : commands[l] => Underway({l})

FailedLogins(channel) ==
  \A i \in 1..Len(channel) : channel[i].kind = "login" /\ channel[i].result = "error"

(* Until the worker runs nothing beyond the login can have happened. *)
WorkerCoherent ==
  worker # "running" =>
    /\ shell.phase # "CampaignReady" /\ ~sync.inFlight
    /\ working = <<>>
    /\ \A l \in Lanes : ~commands[l]
    /\ FailedLogins(responses) /\ FailedLogins(inbox)

Timely(channel) ==
  \A i \in 1..Len(channel) :
    /\ channel[i].age <= Timeout
    /\ channel[i].kind = "sync" => channel[i].character # NoCharacter

(* No request has been with the worker for longer than its limit, and a    *)
(* world sync is always about a character.                                 *)
JobsCoherent == Timely(inbox) /\ Timely(responses) /\ Timely(working) /\ Timely(requests)

(* What is shown was asked for at most one time limit before it came.      *)
ShownCoherent ==
  ~is_stale => /\ sync.shown.character # NoCharacter
               /\ sync.shown.age <= sync.since + Timeout

IndInv == TypeOK /\ WorkerCoherent /\ FlagsBacked /\ JobsCoherent /\ ShownCoherent

Pipeline == inbox \o responses \o working \o requests
Syncs == {i \in 1..Len(Pipeline) : Pipeline[i].kind = "sync"}

(* A client in the campaign awaits every world sync under way, and there   *)
(* is one at most, although leaving the campaign forgets the one in        *)
(* flight: whoever comes back has waited for a bootstrap, which the worker *)
(* answers after it.  No snapshot of an earlier visit, perhaps of another  *)
(* character, is taken for an answer to this one.  (After a second cleared *)
(* session two bootstraps can be under way, and this is lost.)             *)
SyncsAwaited ==
  (clears <= 1 /\ InCampaign) => Cardinality(Syncs) <= IF sync.inFlight THEN 1 ELSE 0

(* While the sync is called LIVE, what is shown is no older than the limit *)
(* for staleness and the time a request may take.                          *)
LiveIsRecent ==
  ~is_stale => sync.shown.character # NoCharacter /\ sync.shown.age <= StaleAfter + Timeout

(* A client that stays in the campaign is live again and again, whatever   *)
(* failed before: the retries go on, no flag blocks them, and after a      *)
(* restart of the world the tick catches up with the last one applied.     *)
Recovers == <>[]InCampaign => []<>(~is_stale)
=============================================================================
