------------------------------ MODULE Accounts ------------------------------
(* Accounts, login sessions and their tokens.                              *)
(*                                                                         *)
(* Every request runs on a thread of its own and reads the rows it needs   *)
(* before it commits; the ORM then writes the columns it has changed and   *)
(* no others, so what another request committed in between to the other    *)
(* columns stays.  A session holds the hash of its refresh token and of    *)
(* the one before it: who presents the latter is taken for a thief, and    *)
(* every session of the account is revoked.                                *)
(*                                                                         *)
(* A client keeps one refresh token, replaces it by the one it receives,   *)
(* and may lose an answer.  Tokens are numbered in the order they are      *)
(* created.  The versions of the client and of the server's policy are     *)
(* reduced to the verdict of the checks, and passwords and one-time codes  *)
(* to whether they are right.                                              *)
EXTENDS Naturals, Sequences, FiniteSets

CONSTANTS
  Users,         \* e-mail addresses
  Ip,            \* the address all requests come from, a key of the limiter
  Sids,          \* session ids
  Tickets,       \* websocket ticket ids
  Threads,       \* requests served at the same time
  Sockets,       \* websockets that are being opened
  Loop,          \* the process, with its event loop, of each socket
  NoUser,
  Limit,         \* failures until a key is locked out
  Window,        \* auth_rate_limit_window_seconds
  Lockout,       \* auth_rate_limit_lockout_seconds
  SessionTTL,    \* jwt_refresh_ttl_days
  TicketTTL,     \* WS_TICKET_TTL_SECONDS
  MaxNow,        \* bound: time
  MaxTokens,     \* bound: refresh tokens
  MaxRequests    \* bound: requests that are started

ASSUME AccountsAssumption ==
  /\ NoUser \notin Users /\ Ip \notin Users /\ Sids # {}
  /\ Limit \in Nat \ {0} /\ Window \in Nat \ {0} /\ Lockout \in Nat \ {0}
  /\ SessionTTL \in Nat \ {0} /\ TicketTTL \in Nat \ {0}
  /\ MaxNow \in Nat /\ MaxTokens \in Nat /\ MaxRequests \in Nat

VARIABLES
  users,      \* rows of the user table
  sessions,   \* rows of the session table
  tickets,    \* rows of the websocket ticket table
  failed,     \* the rate limiter of the process: recent failures of a key,
  blocked,    \* and the end of its lockout
  req,        \* the request of each thread
  opening,    \* the ticket each socket has read and not yet marked
  minted,     \* refresh tokens created so far
  begun,      \* requests started so far
  now,
  held,       \* history: the token the client of a session keeps, 0 if none
  lost,       \* history: sessions one of whose refreshes lost its answer
  mixed,      \* history: users two of whose MFA requests overlapped
  admitted    \* history: how many sockets each ticket has opened

tables == <<users, sessions, tickets>>
limiter == <<failed, blocked>>
history == <<held, lost, mixed, admitted>>
vars == <<tables, limiter, req, opening, minted, begun, now, history>>

Keys == Users \cup {Ip}
MfaSteps == {"enable", "disable", "setup", "qr"}
Steps == {"idle", "verify", "create", "enter", "rotate", "reuse", "gate", "handle"} \cup MfaSteps

UserRow == [known : BOOLEAN, mfa : BOOLEAN, secret : BOOLEAN]
SessionRow == [user : Users \cup {NoUser}, cur : Nat, prev : Nat, ends : Nat, revoked : BOOLEAN]
TicketRow == [sid : Sids, ends : Nat, state : {"none", "fresh", "consumed", "purged"}]
Request == [step : Steps, register : BOOLEAN, user : Users \cup {NoUser}, sid : Sids,
            session : SessionRow, account : UserRow,   \* rows as the request has read them
            seen : SUBSET Sids, since : Nat]

NoSession == [user |-> NoUser, cur |-> 0, prev |-> 0, ends |-> 0, revoked |-> FALSE]
Unknown == [known |-> FALSE, mfa |-> FALSE, secret |-> FALSE]
AnySid == CHOOSE s \in Sids : TRUE
Idle == [step |-> "idle", register |-> FALSE, user |-> NoUser, sid |-> AnySid,
         session |-> NoSession, account |-> Unknown, seen |-> {}, since |-> 0]

Init ==
  /\ users = [u \in Users |-> Unknown]
  /\ sessions = [s \in Sids |-> NoSession]
  /\ tickets = [k \in Tickets |-> [sid |-> AnySid, ends |-> 0, state |-> "none"]]
  /\ failed = [k \in Keys |-> <<>>] /\ blocked = [k \in Keys |-> 0]
  /\ req = [t \in Threads |-> Idle]
  /\ opening = [w \in Sockets |-> {}]
  /\ minted = 0 /\ begun = 0 /\ now = 0
  /\ held = [s \in Sids |-> 0]
  /\ lost = {} /\ mixed = {}
  /\ admitted = [k \in Tickets |-> 0]

At(t, step) == req[t].step = step
Begin(t, r) ==
  /\ req[t] = Idle /\ begun < MaxRequests
  /\ req' = [req EXCEPT ![t] = r]
  /\ begun' = begun + 1
Move(t, step) == req' = [req EXCEPT ![t].step = step]
Leave(t) == req' = [req EXCEPT ![t] = Idle]

(* What a commit writes: the columns that differ from the row as loaded.   *)
Flush(stored, loaded, new) ==
  [c \in DOMAIN stored |-> IF new[c] = loaded[c] THEN stored[c] ELSE new[c]]

Live(s) == sessions[s].user # NoUser /\ ~sessions[s].revoked
Current(s) == sessions[s].ends > now

-----------------------------------------------------------------------------
(* The rate limiter. *)

(* Entries are in the order of time, and the old ones are popped. *)
Old(k) == {i \in 1..Len(failed[k]) : failed[k][i] + Window < now}
Recent(k) == SubSeq(failed[k], Cardinality(Old(k)) + 1, Len(failed[k]))

(* Mutant: a lockout, which empties the deque, is not looked at. *)
Admits_CountOnly(k) == Len(Recent(k)) < Limit

Admits(k) == blocked[k] <= now /\ Len(Recent(k)) < Limit

KeysOf(u) == {u, Ip}
LocksOut(k) == Len(Recent(k)) + 1 >= Limit

(* The deque of a key is emptied when the key is locked out. *)
RecordFailure(u) ==
  /\ failed' = [k \in Keys |-> IF k \notin KeysOf(u) THEN failed[k]
                             ELSE IF LocksOut(k) THEN <<>> ELSE Append(Recent(k), now)]
  /\ blocked' = [k \in Keys |-> IF k \in KeysOf(u) /\ LocksOut(k) THEN now + Lockout ELSE blocked[k]]

Reset(u) ==
  /\ failed' = [k \in Keys |-> IF k \in KeysOf(u) THEN <<>> ELSE failed[k]]
  /\ blocked' = [k \in Keys |-> IF k \in KeysOf(u) THEN 0 ELSE blocked[k]]

-----------------------------------------------------------------------------
(* Registration and login. *)

(* ensure_not_rate_limited, on both keys. *)
Attempt(t, u, register) ==
  /\ \A k \in KeysOf(u) : Admits(k)
  /\ Begin(t, [Idle EXCEPT !.step = "verify", !.user = u, !.register = register, !.since = now])
  /\ UNCHANGED <<tables, limiter, opening, minted, now, history>>

(* The password is wrong, or the account unknown; or the one-time code is  *)
(* wrong, and always so when MFA is on and no secret is stored; or the     *)
(* address is taken, or the contract of the new client does not match.     *)
Refuse(t) ==
  /\ At(t, "verify")
  /\ RecordFailure(req[t].user)
  /\ Leave(t)
  /\ UNCHANGED <<tables, opening, minted, begun, now, history>>

MfaPassable(u) == users[u].mfa => users[u].secret

(* Credentials are right; the client may still be too old, which is no     *)
(* failure for the limiter.                                                *)
LoginVerified(t) ==
  LET u == req[t].user IN
  /\ At(t, "verify") /\ ~req[t].register
  /\ users[u].known /\ MfaPassable(u)
  /\ \/ Move(t, "enter")
     \/ Leave(t)
  /\ UNCHANGED <<tables, limiter, opening, minted, begun, now, history>>

RegisterVerified(t) ==
  /\ At(t, "verify") /\ req[t].register
  /\ ~users[req[t].user].known
  /\ Move(t, "create")
  /\ UNCHANGED <<tables, limiter, opening, minted, begun, now, history>>

(* The account is committed before the version of the client is looked at; *)
(* the unique e-mail refuses the second of two registrations.              *)
RegisterUser(t) ==
  LET u == req[t].user IN
  /\ At(t, "create")
  /\ users' = [users EXCEPT ![u].known = TRUE]
  /\ IF users[u].known THEN Leave(t) ELSE Move(t, "enter") \/ Leave(t)
  /\ UNCHANGED <<sessions, tickets, limiter, opening, minted, begun, now, history>>

Fresh(u, token) == [user |-> u, cur |-> token, prev |-> 0, ends |-> now + SessionTTL, revoked |-> FALSE]

(* The new session, and the end of any lockout. *)
Enter(t) ==
  LET u == req[t].user IN
  /\ At(t, "enter")
  /\ minted < MaxTokens
  /\ minted' = minted + 1
  /\ \E s \in Sids :
       /\ sessions[s] = NoSession
       /\ sessions' = [sessions EXCEPT ![s] = Fresh(u, minted + 1)]
       /\ held' = [held EXCEPT ![s] = minted + 1]
  /\ Reset(u)
  /\ Leave(t)
  /\ UNCHANGED <<users, tickets, opening, begun, now, lost, mixed, admitted>>

-----------------------------------------------------------------------------
(* Refresh and logout. *)

With(token) == {s \in Sids : sessions[s].cur = token}
Before(token) == {s \in Sids : sessions[s].prev = token}

RefreshFound(t, token) ==
  \E s \in With(token) :
    /\ ~sessions[s].revoked /\ Current(s)
    /\ Begin(t, [Idle EXCEPT !.step = "rotate", !.sid = s, !.session = sessions[s]])
    /\ UNCHANGED <<tables, limiter, opening, minted, now, history>>

(* The token was replaced before: the sessions to revoke are read. *)
RefreshReused(t, token) ==
  /\ With(token) = {}
  /\ \E s \in Before(token) : LET u == sessions[s].user IN
       Begin(t, [Idle EXCEPT !.step = "reuse", !.sid = s,
                             !.seen = {x \in Sids : sessions[x].user = u /\ Live(x)}])
  /\ UNCHANGED <<tables, limiter, opening, minted, now, history>>

RevokeAll(t) ==
  /\ At(t, "reuse")
  /\ sessions' = [s \in Sids |->
                    IF s \in req[t].seen THEN [sessions[s] EXCEPT !.revoked = TRUE] ELSE sessions[s]]
  /\ Leave(t)
  /\ UNCHANGED <<users, tickets, limiter, opening, minted, begun, now, history>>

Revoked(row) == [row EXCEPT !.revoked = TRUE]
Revocation(t) ==
  sessions' = [sessions EXCEPT ![req[t].sid] = Flush(@, req[t].session, Revoked(req[t].session))]

(* The drain of a publish is over, or the client or its contract outdated. *)
RefreshRefused(t) ==
  /\ At(t, "rotate")
  /\ Revocation(t)
  /\ Leave(t)
  /\ UNCHANGED <<users, tickets, limiter, opening, minted, begun, now, history>>

Rotated(row, token) == [row EXCEPT !.prev = row.cur, !.cur = token, !.ends = now + SessionTTL]

(* Mutant: the whole row is written as it was loaded. *)
Rotate_WholeRow(t) ==
  LET s == req[t].sid IN
  /\ At(t, "rotate")
  /\ minted < MaxTokens
  /\ minted' = minted + 1
  /\ sessions' = [sessions EXCEPT ![s] = Rotated(req[t].session, minted + 1)]
  /\ held' = [held EXCEPT ![s] = minted + 1]
  /\ Leave(t)
  /\ UNCHANGED <<users, tickets, limiter, opening, begun, now, lost, mixed, admitted>>

(* A commit on the way, of the release policy or of the drain, makes the   *)
(* ORM load the row again.  The answer reaches the client or is lost.      *)
Rotate(t) ==
  LET s == req[t].sid IN
  /\ At(t, "rotate")
  /\ minted < MaxTokens
  /\ minted' = minted + 1
  /\ \E loaded \in {req[t].session, sessions[s]} :
       sessions' = [sessions EXCEPT ![s] = Flush(@, loaded, Rotated(loaded, minted + 1))]
  /\ \/ held' = [held EXCEPT ![s] = minted + 1] /\ UNCHANGED lost
     \/ lost' = lost \cup {s} /\ UNCHANGED held
  /\ Leave(t)
  /\ UNCHANGED <<users, tickets, limiter, opening, begun, now, mixed, admitted>>

Logout(s) ==
  /\ Live(s)
  /\ sessions' = [sessions EXCEPT ![s] = Revoked(@)]
  /\ UNCHANGED <<users, tickets, limiter, req, opening, minted, begun, now, history>>

-----------------------------------------------------------------------------
(* What every authenticated request passes through. *)

GateRead(t, s) ==
  /\ Live(s) /\ Current(s)
  /\ Begin(t, [Idle EXCEPT !.step = "gate", !.sid = s, !.session = sessions[s],
                           !.user = sessions[s].user])
  /\ UNCHANGED <<tables, limiter, opening, minted, now, history>>

(* A drain that is over, or an old client: revoked.  A contract that does  *)
(* not match only refuses the request.                                     *)
GateRefused(t) ==
  /\ At(t, "gate")
  /\ Revocation(t) \/ UNCHANGED sessions
  /\ Leave(t)
  /\ UNCHANGED <<users, tickets, limiter, opening, minted, begun, now, history>>

(* Mutant: the whole row is written as it was loaded. *)
GatePassed_WholeRow(t) ==
  /\ At(t, "gate")
  /\ sessions' = [sessions EXCEPT ![req[t].sid] = req[t].session]
  /\ Leave(t)
  /\ UNCHANGED <<users, tickets, limiter, opening, minted, begun, now, history>>

(* The time of the visit and the versions of the client, no column that is *)
(* modelled, are committed with the row.                                   *)
GatePassed(t) ==
  /\ At(t, "gate")
  /\ sessions' = [sessions EXCEPT ![req[t].sid] = Flush(@, req[t].session, req[t].session)]
  /\ \/ req' = [req EXCEPT ![t] = [@ EXCEPT !.step = "handle", !.session = NoSession]]
     \/ Leave(t)
  /\ UNCHANGED <<users, tickets, limiter, opening, minted, begun, now, history>>

-----------------------------------------------------------------------------
(* Two-factor authentication.  The account is read again after the gate.   *)

MfaRead(t, step) ==
  LET u == req[t].user IN
  /\ At(t, "handle")
  /\ req' = [req EXCEPT ![t] = [@ EXCEPT !.step = step, !.account = users[u]]]
  /\ mixed' = IF \E x \in Threads : req[x].step \in MfaSteps /\ req[x].user = u
              THEN mixed \cup {u} ELSE mixed
  /\ UNCHANGED <<tables, limiter, opening, minted, begun, now, held, lost, admitted>>

(* Mutant: disabling clears the secret and not the flag. *)
MfaRow_SecretOnly(step, row) ==
  CASE step = "enable"  -> [row EXCEPT !.mfa = TRUE, !.secret = TRUE]
    [] step = "disable" -> [row EXCEPT !.secret = FALSE]
    [] OTHER            -> [row EXCEPT !.secret = TRUE]

(* qr shows the secret, and creates one if there is none. *)
MfaRow(step, row) ==
  CASE step = "enable"  -> [row EXCEPT !.mfa = TRUE, !.secret = TRUE]
    [] step = "disable" -> [row EXCEPT !.mfa = FALSE, !.secret = FALSE]
    [] OTHER            -> [row EXCEPT !.secret = TRUE]

(* setup makes a new secret, which always counts as a change. *)
MfaSaved(r, stored) ==
  LET saved == Flush(stored, r.account, MfaRow(r.step, r.account))
  IN [saved EXCEPT !.secret = saved.secret \/ r.step = "setup"]

MfaCommit(t) ==
  /\ req[t].step \in MfaSteps
  /\ users' = [users EXCEPT ![req[t].user] = MfaSaved(req[t], users[req[t].user])]
  /\ Leave(t)
  /\ UNCHANGED <<sessions, tickets, limiter, opening, minted, begun, now, history>>

-----------------------------------------------------------------------------
(* Websocket tickets. *)

IssueTicket(t) ==
  /\ At(t, "handle")
  /\ \E k \in Tickets :
       /\ tickets[k].state = "none"
       /\ tickets' = [tickets EXCEPT ![k] =
            [sid |-> req[t].sid, ends |-> now + TicketTTL, state |-> "fresh"]]
  /\ Leave(t)
  /\ UNCHANGED <<users, sessions, limiter, opening, minted, begun, now, history>>

(* Mutant: the handler yields between the two. *)
LoopFree_Yields(w) == opening[w] = {}

(* The handler of a websocket runs on the event loop of its process and    *)
(* does not yield between reading the ticket and committing it.            *)
LoopFree(w) == \A x \in Sockets : Loop[x] = Loop[w] => opening[x] = {}

TicketRead(w, k) ==
  /\ LoopFree(w)
  /\ tickets[k].state = "fresh" /\ tickets[k].ends > now
  /\ opening' = [opening EXCEPT ![w] = {k}]
  /\ UNCHANGED <<tables, limiter, req, minted, begun, now, history>>

(* A ticket whose session has been revoked is used up, but opens nothing.  *)
TicketConsume(w) ==
  \E k \in opening[w] :
    /\ tickets' = [tickets EXCEPT ![k].state = "consumed"]
    /\ opening' = [opening EXCEPT ![w] = {}]
    /\ admitted' = [admitted EXCEPT ![k] = IF Live(tickets[k].sid) THEN @ + 1 ELSE @]
    /\ UNCHANGED <<users, sessions, limiter, req, minted, begun, now, held, lost, mixed>>

-----------------------------------------------------------------------------
(* Restart and time. *)

Purgeable(k) == tickets[k].state = "consumed" \/ (tickets[k].state = "fresh" /\ tickets[k].ends < now)

(* The process that serves requests restarts: answers are lost, and with   *)
(* them what its clients would have received.                              *)
Restart ==
  /\ req' = [t \in Threads |-> Idle]
  /\ opening' = [w \in Sockets |-> {}]
  /\ failed' = [k \in Keys |-> <<>>] /\ blocked' = [k \in Keys |-> 0]
  /\ tickets' = [k \in Tickets |-> IF Purgeable(k) THEN [tickets[k] EXCEPT !.state = "purged"] ELSE tickets[k]]
  /\ UNCHANGED <<users, sessions, minted, begun, now, history>>

Tick ==
  /\ now < MaxNow
  /\ now' = now + 1
  /\ UNCHANGED <<tables, limiter, req, opening, minted, begun, history>>

Next ==
  \/ \E t \in Threads :
       \/ \E u \in Users, register \in BOOLEAN : Attempt(t, u, register)
       \/ Refuse(t) \/ LoginVerified(t) \/ RegisterVerified(t) \/ RegisterUser(t) \/ Enter(t)
       \/ \E token \in 1..minted : RefreshFound(t, token) \/ RefreshReused(t, token)
       \/ RevokeAll(t) \/ RefreshRefused(t) \/ Rotate(t)
       \/ \E s \in Sids : GateRead(t, s)
       \/ GateRefused(t) \/ GatePassed(t)
       \/ \E step \in MfaSteps : MfaRead(t, step)
       \/ MfaCommit(t) \/ IssueTicket(t)
  \/ \E s \in Sids : Logout(s)
  \/ \E w \in Sockets, k \in Tickets : TicketRead(w, k)
  \/ \E w \in Sockets : TicketConsume(w)
  \/ Restart \/ Tick

Spec == Init /\ [][Next]_vars

-----------------------------------------------------------------------------
(* Properties. *)

TypeOK ==
  /\ users \in [Users -> UserRow]
  /\ sessions \in [Sids -> SessionRow]
  /\ tickets \in [Tickets -> TicketRow]
  /\ failed \in [Keys -> Seq(Nat)] /\ blocked \in [Keys -> Nat]
  /\ req \in [Threads -> Request]
  /\ opening \in [Sockets -> SUBSET Tickets]
  /\ minted \in Nat /\ begun \in Nat /\ now \in Nat
  /\ held \in [Sids -> Nat]
  /\ lost \subseteq Sids /\ mixed \subseteq Users
  /\ admitted \in [Tickets -> Nat]

(* No row, and no copy of one, has a token that was not created yet. *)
TokensMinted ==
  /\ \A s \in Sids : sessions[s].cur <= minted
  /\ \A t \in Threads : req[t].session.cur <= minted

(* Whose request it is. *)
Requesters == \A t \in Threads : req[t].step \notin {"idle", "rotate", "reuse"} => req[t].user \in Users

(* A client that loses no answer always keeps the refresh token that its   *)
(* session stores, whatever else it has under way: refresh rotates the     *)
(* token while requests that read the session before pass the gate and     *)
(* commit their row after.                                                 *)
ClientStaysIn ==
  \A s \in Sids : Live(s) /\ s \notin lost => sessions[s].cur = held[s]

(* The only MFA request of an account works on the row as it is. *)
MfaAlone ==
  \A t \in Threads : req[t].step \in MfaSteps /\ req[t].user \notin mixed =>
    /\ req[t].account.mfa = users[req[t].user].mfa
    /\ req[t].account.secret = users[req[t].user].secret
    /\ \A x \in Threads : req[x].step \in MfaSteps /\ req[x].user = req[t].user => x = t

(* An account is locked out of login by MFA without a secret only if two   *)
(* of its MFA requests overlapped (mfa_enable, mfa_disable and the login   *)
(* that needs the secret).                                                 *)
MfaHasSecret == \A u \in Users : u \notin mixed => MfaPassable(u)

(* Who was let in knows of no lockout, or was let in before it began. *)
LetIn(t, k) == blocked[k] <= req[t].since \/ req[t].since + Lockout <= blocked[k]

AttemptsLetIn ==
  /\ \A k \in Keys : blocked[k] <= now + Lockout
  /\ \A t \in Threads : req[t].step \in {"verify", "create", "enter"} =>
       /\ req[t].since <= now
       /\ \A k \in KeysOf(req[t].user) : LetIn(t, k)

(* A ticket that is being used has opened nothing yet. *)
TicketsFresh ==
  /\ \A k \in Tickets : tickets[k].state \in {"none", "fresh"} => admitted[k] = 0
  /\ \A w \in Sockets : \A k \in opening[w] : tickets[k].state = "fresh"
  /\ \A w, x \in Sockets : Loop[w] = Loop[x] /\ opening[w] # {} /\ opening[x] # {} => w = x
  /\ \A w \in Sockets : \A j, k \in opening[w] : j = k

(* A ticket opens at most one websocket, also while several are opened at  *)
(* the same time and over restarts that purge tickets (consume_ws_ticket); *)
(* with one process.                                                       *)
TicketOnce == \A k \in Tickets : admitted[k] <= 1

IndInv ==
  TypeOK /\ TokensMinted /\ Requesters /\ ClientStaysIn /\ MfaAlone /\ MfaHasSecret /\ AttemptsLetIn

(* Nothing brings a revoked session back: a request that read its row      *)
(* before the revocation, a refresh or the gate, and commits after it      *)
(* leaves it revoked.                                                      *)
RevokedIsFinal ==
  [][\A s \in Sids : sessions[s].revoked => sessions'[s].revoked]_vars

EndsEarly(k) == blocked[k] > now /\ blocked'[k] < blocked[k]
EnteredBefore(k) ==
  \E t \in Threads : /\ At(t, "enter") /\ k \in KeysOf(req[t].user)
                     /\ req[t].since + Lockout <= blocked[k]
AllGone == \A t \in Threads : req'[t] = Idle

(* A lockout ends before its time only through a login that was let in     *)
(* before it began, or with the process: the limiter checks the account    *)
(* and the address before the password, and both at the same time.         *)
LockoutFirm == [][\A k \in Keys : EndsEarly(k) => AllGone \/ EnteredBefore(k)]_vars
=============================================================================
