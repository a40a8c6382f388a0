--------------------------- MODULE AccountsProofs ---------------------------
(* The safety properties of Accounts, proved for any accounts, sessions,   *)
(* tickets, threads, limits and bounds.                                    *)
EXTENDS Accounts, FiniteSetTheorems, TLAPS

-----------------------------------------------------------------------------
(* Rows. *)

(* An idle thread has a request of the right type. *)
LEMMA IdleType == /\ Idle \in Request /\ NoSession \in SessionRow /\ Unknown \in UserRow
                  /\ AnySid \in Sids
<1>1. AnySid \in Sids
  BY AccountsAssumption DEF AnySid
<1>2. NoSession \in SessionRow /\ Unknown \in UserRow
  BY DEF NoSession, SessionRow, Unknown, UserRow
<1>3. QED
  BY <1>1, <1>2 DEF Idle, Request, Steps

(* A commit writes the columns that changed and keeps the others. *)
LEMMA FlushSession ==
  ASSUME NEW a \in SessionRow, NEW b \in SessionRow, NEW n \in SessionRow
  PROVE  /\ Flush(a, b, n) \in SessionRow
         /\ Flush(a, b, n).user = IF n.user = b.user THEN a.user ELSE n.user
         /\ Flush(a, b, n).cur = IF n.cur = b.cur THEN a.cur ELSE n.cur
         /\ Flush(a, b, n).revoked = IF n.revoked = b.revoked THEN a.revoked ELSE n.revoked
<1>1. DOMAIN a = {"user", "cur", "prev", "ends", "revoked"}
  BY DEF SessionRow
<1>2. Flush(a, b, n) = [user |-> IF n.user = b.user THEN a.user ELSE n.user,
                        cur |-> IF n.cur = b.cur THEN a.cur ELSE n.cur,
                        prev |-> IF n.prev = b.prev THEN a.prev ELSE n.prev,
                        ends |-> IF n.ends = b.ends THEN a.ends ELSE n.ends,
                        revoked |-> IF n.revoked = b.revoked THEN a.revoked ELSE n.revoked]
  BY <1>1 DEF Flush
<1>3. QED
  BY <1>2 DEF SessionRow

(* The same of an account. *)
LEMMA FlushUser ==
  ASSUME NEW a \in UserRow, NEW b \in UserRow, NEW n \in UserRow
  PROVE  /\ Flush(a, b, n) \in UserRow
         /\ Flush(a, b, n).mfa = IF n.mfa = b.mfa THEN a.mfa ELSE n.mfa
         /\ Flush(a, b, n).secret = IF n.secret = b.secret THEN a.secret ELSE n.secret
<1>1. DOMAIN a = {"known", "mfa", "secret"}
  BY DEF UserRow
<1>2. Flush(a, b, n) = [known |-> IF n.known = b.known THEN a.known ELSE n.known,
                        mfa |-> IF n.mfa = b.mfa THEN a.mfa ELSE n.mfa,
                        secret |-> IF n.secret = b.secret THEN a.secret ELSE n.secret]
  BY <1>1 DEF Flush
<1>3. QED
  BY <1>2 DEF UserRow

(* Pruning and recording keep the deques of the limiter sequences. *)
LEMMA RecentType ==
  ASSUME TypeOK, NEW k \in Keys
  PROVE  Recent(k) \in Seq(Nat)
<1>1. failed[k] \in Seq(Nat) /\ Len(failed[k]) \in Nat
  BY DEF TypeOK
<1>2. Old(k) \subseteq 1..Len(failed[k])
  BY DEF Old
<1>3. Cardinality(Old(k)) \in Nat
  <2>1. IsFiniteSet(1..Len(failed[k]))
    BY <1>1, FS_Interval
  <2>2. QED
    BY <1>2, <2>1, FS_Subset, FS_CardinalityType
<1>4. QED
  BY <1>1, <1>3 DEF Recent

(* What an MFA request makes of an account. *)
LEMMA MfaRowType ==
  ASSUME NEW step \in MfaSteps, NEW row \in UserRow
  PROVE  /\ MfaRow(step, row) \in UserRow
         /\ (row.mfa => row.secret) => (MfaRow(step, row).mfa => MfaRow(step, row).secret)
<1>1. step \in {"enable", "disable", "setup", "qr"}
  BY DEF MfaSteps
<1>2. QED
  BY <1>1 DEF MfaRow, UserRow

-----------------------------------------------------------------------------
(* Types. *)

LEMMA TypeInit == Init => TypeOK
BY IdleType, AccountsAssumption DEF Init, TypeOK, Idle, Request, TicketRow, SessionRow, UserRow, Keys

LEMMA RequestBegins ==
  ASSUME TypeOK, NEW t \in Threads, NEW r \in Request, Begin(t, r)
  PROVE  req' \in [Threads -> Request] /\ begun' \in Nat
BY DEF TypeOK, Begin

LEMMA RequestLeaves ==
  ASSUME TypeOK, NEW t \in Threads, Leave(t)
  PROVE  req' \in [Threads -> Request]
BY IdleType DEF TypeOK, Leave

LEMMA RequestMoves ==
  ASSUME TypeOK, NEW t \in Threads, NEW step \in Steps, Move(t, step)
  PROVE  req' \in [Threads -> Request]
BY DEF TypeOK, Move, Request

LEMMA Revokes ==
  ASSUME TypeOK, NEW t \in Threads, Revocation(t)
  PROVE  /\ sessions' \in [Sids -> SessionRow]
         /\ \A s \in Sids : /\ sessions'[s].cur = sessions[s].cur
                            /\ sessions'[s].user = sessions[s].user
                            /\ sessions[s].revoked => sessions'[s].revoked
<1>1. req[t].sid \in Sids /\ req[t].session \in SessionRow
  BY DEF TypeOK, Request
<1>2. Revoked(req[t].session) \in SessionRow
  BY <1>1 DEF Revoked, SessionRow
<1> DEFINE F == Flush(sessions[req[t].sid], req[t].session, Revoked(req[t].session))
<1>3. F \in SessionRow
  BY <1>1, <1>2, FlushSession DEF TypeOK
<1>4. /\ F.cur = sessions[req[t].sid].cur
      /\ F.user = sessions[req[t].sid].user
      /\ sessions[req[t].sid].revoked => F.revoked
  <2>1. /\ Revoked(req[t].session).cur = req[t].session.cur
        /\ Revoked(req[t].session).user = req[t].session.user
        /\ Revoked(req[t].session).revoked = TRUE
    BY <1>1 DEF Revoked, SessionRow
  <2>2. sessions[req[t].sid] \in SessionRow
    BY <1>1 DEF TypeOK
  <2>3. QED
    BY <1>1, <1>2, <2>1, <2>2, FlushSession
<1>5. sessions' = [sessions EXCEPT ![req[t].sid] = F]
  BY DEF Revocation
<1> HIDE DEF F
<1>6. QED
  BY <1>1, <1>3, <1>4, <1>5 DEF TypeOK

LEMMA RotatedFacts ==
  ASSUME TypeOK, TokensMinted, NEW t \in Threads, Rotate(t)
  PROVE  /\ sessions' \in [Sids -> SessionRow]
         /\ sessions'[req[t].sid].cur = minted + 1
         /\ sessions'[req[t].sid].user = sessions[req[t].sid].user
         /\ \A s \in Sids : sessions[s].revoked => sessions'[s].revoked
         /\ \A s \in Sids \ {req[t].sid} : sessions'[s] = sessions[s]
<1> DEFINE s == req[t].sid
<1>1. s \in Sids /\ req[t].session \in SessionRow /\ sessions[s] \in SessionRow
  BY DEF TypeOK, Request
<1>2. PICK loaded \in {req[t].session, sessions[s]} :
        sessions' = [sessions EXCEPT ![s] = Flush(@, loaded, Rotated(loaded, minted + 1))]
  BY DEF Rotate
<1>3. loaded \in SessionRow /\ loaded.cur <= minted
  BY <1>1, <1>2 DEF TokensMinted
<1> DEFINE new == Rotated(loaded, minted + 1)
<1>4. /\ new \in SessionRow /\ new.cur = minted + 1
      /\ new.user = loaded.user /\ new.revoked = loaded.revoked
  <2>1. minted + 1 \in Nat /\ now + SessionTTL \in Nat
    BY AccountsAssumption DEF TypeOK
  <2>2. QED
    BY <1>3, <2>1 DEF Rotated, SessionRow
<1>5. new.cur # loaded.cur
  BY <1>3, <1>4 DEF TypeOK, SessionRow
<1> HIDE DEF new
<1>6. /\ Flush(sessions[s], loaded, new) \in SessionRow
      /\ Flush(sessions[s], loaded, new).cur = minted + 1
      /\ Flush(sessions[s], loaded, new).user = sessions[s].user
      /\ Flush(sessions[s], loaded, new).revoked = sessions[s].revoked
  BY <1>1, <1>3, <1>4, <1>5, FlushSession
<1>7. sessions' = [sessions EXCEPT ![s] = Flush(sessions[s], loaded, new)]
  BY <1>2 DEF new
<1>8. QED
  BY <1>1, <1>6, <1>7 DEF TypeOK

LEMMA GateKeeps ==
  ASSUME TypeOK, NEW t \in Threads, GatePassed(t)
  PROVE  sessions' = sessions
<1>1. req[t].sid \in Sids /\ req[t].session \in SessionRow /\ sessions[req[t].sid] \in SessionRow
  BY DEF TypeOK, Request
<1>2. DOMAIN sessions[req[t].sid] = {"user", "cur", "prev", "ends", "revoked"}
  BY <1>1 DEF SessionRow
<1>3. Flush(sessions[req[t].sid], req[t].session, req[t].session) = sessions[req[t].sid]
  BY <1>1, <1>2 DEF Flush, SessionRow
<1>4. QED
  BY <1>1, <1>3 DEF GatePassed, TypeOK

LEMMA MfaWrites ==
  ASSUME TypeOK, Requesters, NEW t \in Threads, MfaCommit(t), NEW u, u = req[t].user
  PROVE  /\ users' \in [Users -> UserRow]
         /\ u \in Users
         /\ \A x \in Users \ {u} : users'[x] = users[x]
         /\ /\ req[t].account.mfa = users[u].mfa /\ req[t].account.secret = users[u].secret
            /\ users[u].mfa => users[u].secret
            => (users'[u].mfa => users'[u].secret)
<1> DEFINE old == req[t].account
           step == req[t].step
           new == MfaRow(step, old)
           F == Flush(users[u], old, new)
           row == MfaSaved(req[t], users[u])
<1>1. u \in Users /\ old \in UserRow /\ step \in MfaSteps /\ users[u] \in UserRow
  BY DEF MfaCommit, Requesters, MfaSteps, TypeOK, Request
<1>2. new \in UserRow /\ ((old.mfa => old.secret) => (new.mfa => new.secret))
  BY <1>1, MfaRowType
<1>3. users' = [users EXCEPT ![u] = row]
  BY DEF MfaCommit
<1>5. row = [F EXCEPT !.secret = F.secret \/ step = "setup"]
  BY DEF MfaSaved
<1> HIDE DEF new
<1>4. /\ F \in UserRow /\ F.mfa = (IF new.mfa = old.mfa THEN users[u].mfa ELSE new.mfa)
      /\ F.secret = (IF new.secret = old.secret THEN users[u].secret ELSE new.secret)
  BY <1>1, <1>2, FlushUser
<1> HIDE DEF F, row
<1>6. row \in UserRow /\ row.mfa = F.mfa /\ (F.secret => row.secret)
  BY <1>4, <1>5 DEF UserRow
<1>7. ASSUME old.mfa = users[u].mfa, old.secret = users[u].secret, users[u].mfa => users[u].secret
      PROVE  row.mfa => row.secret
  BY <1>1, <1>2, <1>4, <1>6, <1>7 DEF UserRow
<1>8. users' \in [Users -> UserRow] /\ users'[u] = row /\ \A x \in Users \ {u} : users'[x] = users[x]
  BY <1>1, <1>3, <1>6 DEF TypeOK
<1>9. QED
  BY <1>1, <1>7, <1>8

(* Every step keeps the types. *)
LEMMA TypeStep ==
  ASSUME IndInv, [Next]_vars
  PROVE  TypeOK'
<1> USE AccountsAssumption DEF IndInv
<1> USE DEF Steps, MfaSteps
<1>1. ASSUME NEW t \in Threads, NEW u \in Users, NEW register \in BOOLEAN, Attempt(t, u, register)
      PROVE  TypeOK'
  <2>1. [Idle EXCEPT !.step = "verify", !.user = u, !.register = register, !.since = now] \in Request
    BY IdleType DEF Request, TypeOK
  <2>2. QED
    BY <1>1, <2>1, RequestBegins DEF Attempt, TypeOK, tables, limiter, history
<1>2. ASSUME NEW t \in Threads, Refuse(t)
      PROVE  TypeOK'
  <2>1. \A k \in Keys : Recent(k) \in Seq(Nat)
    BY RecentType
  <2>2. failed' \in [Keys -> Seq(Nat)] /\ blocked' \in [Keys -> Nat]
    BY <1>2, <2>1 DEF Refuse, RecordFailure, TypeOK
  <2>3. QED
    BY <1>2, <2>2, RequestLeaves DEF Refuse, TypeOK, tables, history
<1>3. ASSUME NEW t \in Threads, LoginVerified(t) \/ RegisterVerified(t)
      PROVE  TypeOK'
  <2>1. req' \in [Threads -> Request]
    BY <1>3, RequestLeaves, RequestMoves DEF LoginVerified, RegisterVerified
  <2>2. QED
    BY <1>3, <2>1 DEF LoginVerified, RegisterVerified, TypeOK, tables, limiter, history
<1>4. ASSUME NEW t \in Threads, RegisterUser(t)
      PROVE  TypeOK'
  <2>1. req' \in [Threads -> Request]
    BY <1>4, RequestLeaves, RequestMoves DEF RegisterUser
  <2>2. users' \in [Users -> UserRow]
    BY <1>4 DEF RegisterUser, TypeOK, UserRow
  <2>3. QED
    BY <1>4, <2>1, <2>2 DEF RegisterUser, TypeOK, limiter, history
<1>5. ASSUME NEW t \in Threads, Enter(t)
      PROVE  TypeOK'
  <2>1. req[t].user \in Users
    BY <1>5 DEF Enter, At, Requesters
  <2>2. Fresh(req[t].user, minted + 1) \in SessionRow
    BY <2>1 DEF Fresh, SessionRow, TypeOK
  <2>3. sessions' \in [Sids -> SessionRow] /\ held' \in [Sids -> Nat] /\ minted' \in Nat
    BY <1>5, <2>2 DEF Enter, TypeOK
  <2>4. failed' \in [Keys -> Seq(Nat)] /\ blocked' \in [Keys -> Nat]
    BY <1>5 DEF Enter, Reset, TypeOK
  <2>5. QED
    BY <1>5, <2>3, <2>4, RequestLeaves DEF Enter, TypeOK
<1>6. ASSUME NEW t \in Threads, NEW token \in 1..minted, RefreshFound(t, token)
      PROVE  TypeOK'
  <2>1. PICK s \in With(token) :
          Begin(t, [Idle EXCEPT !.step = "rotate", !.sid = s, !.session = sessions[s]])
    BY <1>6 DEF RefreshFound
  <2>2. [Idle EXCEPT !.step = "rotate", !.sid = s, !.session = sessions[s]] \in Request
    BY IdleType DEF Request, TypeOK, With
  <2>3. QED
    BY <1>6, <2>1, <2>2, RequestBegins DEF RefreshFound, TypeOK, tables, limiter, history
<1>7. ASSUME NEW t \in Threads, NEW token \in 1..minted, RefreshReused(t, token)
      PROVE  TypeOK'
  <2>1. PICK s \in Before(token), seen \in SUBSET Sids :
          Begin(t, [Idle EXCEPT !.step = "reuse", !.sid = s, !.seen = seen])
    <3>1. \A s \in Sids : {x \in Sids : sessions[x].user = sessions[s].user /\ Live(x)} \in SUBSET Sids
      OBVIOUS
    <3>2. QED
      BY <1>7, <3>1 DEF RefreshReused, Before
  <2>2. [Idle EXCEPT !.step = "reuse", !.sid = s, !.seen = seen] \in Request
    BY IdleType DEF Request, Before
  <2>3. QED
    BY <1>7, <2>1, <2>2, RequestBegins DEF RefreshReused, TypeOK, tables, limiter, history
<1>8. ASSUME NEW t \in Threads, RevokeAll(t)
      PROVE  TypeOK'
  <2>1. sessions' \in [Sids -> SessionRow]
    BY <1>8 DEF RevokeAll, TypeOK, SessionRow
  <2>2. QED
    BY <1>8, <2>1, RequestLeaves DEF RevokeAll, TypeOK, limiter, history
<1>9. ASSUME NEW t \in Threads, RefreshRefused(t) \/ GateRefused(t)
      PROVE  TypeOK'
  <2>1. sessions' \in [Sids -> SessionRow]
    BY <1>9, Revokes DEF RefreshRefused, GateRefused, TypeOK
  <2>2. QED
    BY <1>9, <2>1, RequestLeaves DEF RefreshRefused, GateRefused, TypeOK, limiter, history
<1>10. ASSUME NEW t \in Threads, Rotate(t)
       PROVE  TypeOK'
  <2>1. req[t].sid \in Sids
    BY DEF TypeOK, Request
  <2>2. minted' \in Nat /\ held' \in [Sids -> Nat] /\ lost' \subseteq Sids
    BY <1>10, <2>1 DEF Rotate, TypeOK
  <2>3. QED
    BY <1>10, <2>2, RotatedFacts, RequestLeaves DEF Rotate, TypeOK, limiter
<1>11. ASSUME NEW s \in Sids, Logout(s)
       PROVE  TypeOK'
  <2>1. sessions' \in [Sids -> SessionRow]
    BY <1>11 DEF Logout, TypeOK, Revoked, SessionRow
  <2>2. QED
    BY <1>11, <2>1 DEF Logout, TypeOK, limiter, history
<1>12. ASSUME NEW t \in Threads, NEW s \in Sids, GateRead(t, s)
       PROVE  TypeOK'
  <2>1. [Idle EXCEPT !.step = "gate", !.sid = s, !.session = sessions[s], !.user = sessions[s].user] \in Request
    BY IdleType DEF Request, TypeOK, SessionRow
  <2>2. QED
    BY <1>12, <2>1, RequestBegins DEF GateRead, TypeOK, tables, limiter, history
<1>13. ASSUME NEW t \in Threads, GatePassed(t)
       PROVE  TypeOK'
  <2>1. req' \in [Threads -> Request]
    <3>1. [req[t] EXCEPT !.step = "handle", !.session = NoSession] \in Request
      BY IdleType DEF TypeOK, Request
    <3>2. QED
      BY <1>13, <3>1, RequestLeaves DEF GatePassed, TypeOK
  <2>2. QED
    BY <1>13, <2>1, GateKeeps DEF GatePassed, TypeOK, limiter, history
<1>14. ASSUME NEW t \in Threads, NEW step \in MfaSteps, MfaRead(t, step)
       PROVE  TypeOK'
  <2>0. req[t].user \in Users
    BY <1>14 DEF MfaRead, At, Requesters
  <2>1. req' \in [Threads -> Request]
    <3>1. [req[t] EXCEPT !.step = step, !.account = users[req[t].user]] \in Request
      BY <2>0 DEF TypeOK, Request
    <3>2. QED
      BY <1>14, <3>1 DEF MfaRead, TypeOK
  <2>2. mixed' \subseteq Users
    BY <1>14, <2>0 DEF MfaRead, TypeOK
  <2>3. QED
    BY <1>14, <2>1, <2>2 DEF MfaRead, TypeOK, tables, limiter
<1>15. ASSUME NEW t \in Threads, MfaCommit(t)
       PROVE  TypeOK'
  <2>1. users' \in [Users -> UserRow]
    BY <1>15, MfaWrites
  <2>2. QED
    BY <1>15, <2>1, RequestLeaves DEF MfaCommit, TypeOK, limiter, history
<1>16. ASSUME NEW t \in Threads, IssueTicket(t)
       PROVE  TypeOK'
  <2>1. tickets' \in [Tickets -> TicketRow]
    BY <1>16 DEF IssueTicket, TypeOK, TicketRow, Request
  <2>2. QED
    BY <1>16, <2>1, RequestLeaves DEF IssueTicket, TypeOK, limiter, history
<1>17. ASSUME NEW w \in Sockets, NEW k \in Tickets, TicketRead(w, k)
       PROVE  TypeOK'
  BY <1>17 DEF TicketRead, TypeOK, tables, limiter, history
<1>18. ASSUME NEW w \in Sockets, TicketConsume(w)
       PROVE  TypeOK'
  <2>1. /\ tickets' \in [Tickets -> TicketRow] /\ opening' \in [Sockets -> SUBSET Tickets]
        /\ admitted' \in [Tickets -> Nat]
    <3>1. PICK k \in opening[w] :
            /\ tickets' = [tickets EXCEPT ![k].state = "consumed"]
            /\ opening' = [opening EXCEPT ![w] = {}]
            /\ admitted' = [admitted EXCEPT ![k] = IF Live(tickets[k].sid) THEN @ + 1 ELSE @]
      BY <1>18 DEF TicketConsume
    <3>2. k \in Tickets
      BY <3>1 DEF TypeOK
    <3>3. tickets' \in [Tickets -> TicketRow]
      BY <3>1, <3>2 DEF TypeOK, TicketRow
    <3>4. admitted' \in [Tickets -> Nat]
      BY <3>1, <3>2 DEF TypeOK
    <3>5. QED
      BY <3>1, <3>3, <3>4 DEF TypeOK
  <2>2. QED
    BY <1>18, <2>1 DEF TicketConsume, TypeOK, limiter
<1>19. ASSUME Restart
       PROVE  TypeOK'
  <2>1. tickets' \in [Tickets -> TicketRow]
    BY <1>19 DEF Restart, TypeOK, TicketRow
  <2>2. QED
    BY <1>19, <2>1, IdleType DEF Restart, TypeOK, history
<1>20. ASSUME Tick \/ UNCHANGED vars
       PROVE  TypeOK'
  BY <1>20 DEF Tick, vars, TypeOK, tables, limiter, history
<1>21. QED
  BY <1>1, <1>2, <1>3, <1>4, <1>5, <1>6, <1>7, <1>8, <1>9, <1>10, <1>11, <1>12, <1>13, <1>14,
     <1>15, <1>16, <1>17, <1>18, <1>19, <1>20 DEF Next

-----------------------------------------------------------------------------
(* Tokens and clients. *)

LEMMA TokensStep ==
  ASSUME IndInv, [Next]_vars
  PROVE  TokensMinted' /\ ClientStaysIn'
<1> USE DEF IndInv
<1>0. /\ \A s \in Sids : sessions[s] \in SessionRow
      /\ \A t \in Threads : req[t].session \in SessionRow /\ req[t].sid \in Sids
      /\ minted \in Nat /\ req \in [Threads -> Request] /\ sessions \in [Sids -> SessionRow]
      /\ held \in [Sids -> Nat]
  BY DEF TypeOK, Request
<1>f. Idle.session.cur = 0 /\ NoSession.cur = 0 /\ NoSession.user = NoUser /\ NoSession.revoked = FALSE
  BY DEF Idle, NoSession
\* The copies the requests hold.
<1>1. ASSUME NEW t \in Threads,
             \/ Leave(t)
             \/ \E step \in Steps : Move(t, step)
             \/ \E r : r.session.cur <= minted /\ req' = [req EXCEPT ![t] = r]
      PROVE  \A x \in Threads : req'[x].session.cur <= minted
  <2>1. CASE Leave(t)
    BY <1>0, <2>1, <1>f DEF Leave, TokensMinted
  <2>2. CASE \E step \in Steps : Move(t, step)
    BY <1>0, <2>2 DEF Move, Request, TokensMinted
  <2>3. CASE \E r : r.session.cur <= minted /\ req' = [req EXCEPT ![t] = r]
    BY <1>0, <2>3 DEF TokensMinted
  <2>4. QED
    BY <1>1, <2>1, <2>2, <2>3
<1>t. \A x \in Threads : req'[x].session.cur \in Nat
  BY TypeStep DEF TypeOK, Request, SessionRow
\* Steps that leave sessions and clients alone.
<1>2. ASSUME UNCHANGED <<sessions, minted, held, lost>>,
             \A x \in Threads : req'[x].session.cur <= minted
      PROVE  TokensMinted' /\ ClientStaysIn'
  BY <1>2 DEF TokensMinted, ClientStaysIn, Live
\* Steps that revoke.
<1>3. ASSUME UNCHANGED <<minted, held, lost>>,
             \A s \in Sids : /\ sessions'[s].cur = sessions[s].cur
                             /\ sessions'[s].user = sessions[s].user
                             /\ sessions[s].revoked => sessions'[s].revoked,
             \A x \in Threads : req'[x].session.cur <= minted
      PROVE  TokensMinted' /\ ClientStaysIn'
  BY <1>3 DEF TokensMinted, ClientStaysIn, Live
<1>4. ASSUME NEW t \in Threads, NEW u \in Users, NEW register \in BOOLEAN, Attempt(t, u, register)
      PROVE  TokensMinted' /\ ClientStaysIn'
  <2> DEFINE r == [Idle EXCEPT !.step = "verify", !.user = u, !.register = register, !.since = now]
  <2>1. r.session.cur <= minted /\ req' = [req EXCEPT ![t] = r]
    BY <1>0, <1>4, <1>f DEF Attempt, Begin, Idle
  <2>2. \A x \in Threads : req'[x].session.cur <= minted
    BY <2>1, <1>1
  <2>3. QED
    BY <1>4, <2>2, <1>2 DEF Attempt, tables, history
<1>5. ASSUME NEW t \in Threads,
             Refuse(t) \/ LoginVerified(t) \/ RegisterVerified(t) \/ RegisterUser(t)
             \/ MfaCommit(t) \/ IssueTicket(t)
      PROVE  TokensMinted' /\ ClientStaysIn'
  <2>1. \A x \in Threads : req'[x].session.cur <= minted
    BY <1>5, <1>1 DEF Refuse, LoginVerified, RegisterVerified, RegisterUser, MfaCommit, IssueTicket, Steps
  <2>2. UNCHANGED <<sessions, minted, held, lost>>
    BY <1>5 DEF Refuse, LoginVerified, RegisterVerified, RegisterUser, MfaCommit, IssueTicket,
                tables, history
  <2>3. QED
    BY <2>1, <2>2, <1>2
<1>6. ASSUME NEW t \in Threads, Enter(t)
      PROVE  TokensMinted' /\ ClientStaysIn'
  <2>1. \A x \in Threads : req'[x].session.cur <= minted
    BY <1>6, <1>1 DEF Enter
  <2>2. PICK s \in Sids : /\ sessions' = [sessions EXCEPT ![s] = Fresh(req[t].user, minted + 1)]
                          /\ held' = [held EXCEPT ![s] = minted + 1]
    BY <1>6 DEF Enter
  <2>3. Fresh(req[t].user, minted + 1).cur = minted + 1
    BY DEF Fresh
  <2>4. minted' = minted + 1 /\ lost' = lost
    BY <1>6 DEF Enter
  <2>5. TokensMinted'
    BY <1>0, <1>t, <2>1, <2>2, <2>3, <2>4 DEF TokensMinted, SessionRow
  <2>6. ClientStaysIn'
    BY <1>0, <2>2, <2>3, <2>4 DEF ClientStaysIn, Live
  <2>7. QED
    BY <2>5, <2>6
<1>7. ASSUME NEW t \in Threads, NEW token \in 1..minted, RefreshFound(t, token) \/ RefreshReused(t, token)
      PROVE  TokensMinted' /\ ClientStaysIn'
  <2>1. \A x \in Threads : req'[x].session.cur <= minted
    <3>1. CASE RefreshFound(t, token)
      <4>1. PICK s \in With(token) :
              Begin(t, [Idle EXCEPT !.step = "rotate", !.sid = s, !.session = sessions[s]])
        BY <3>1 DEF RefreshFound
      <4> DEFINE r == [Idle EXCEPT !.step = "rotate", !.sid = s, !.session = sessions[s]]
      <4>2. r.session.cur <= minted /\ req' = [req EXCEPT ![t] = r]
        BY <4>1 DEF With, Begin, Idle, TokensMinted
      <4>3. QED
        BY <4>2, <1>1
    <3>2. CASE RefreshReused(t, token)
      <4>1. PICK s \in Before(token), seen \in SUBSET Sids :
              Begin(t, [Idle EXCEPT !.step = "reuse", !.sid = s, !.seen = seen])
        <5>1. \A s \in Sids : {x \in Sids : sessions[x].user = sessions[s].user /\ Live(x)} \in SUBSET Sids
          OBVIOUS
        <5>2. QED
          BY <3>2, <5>1 DEF RefreshReused, Before
      <4> DEFINE r == [Idle EXCEPT !.step = "reuse", !.sid = s, !.seen = seen]
      <4>2. r.session.cur <= minted /\ req' = [req EXCEPT ![t] = r]
        BY <4>1, <1>0, <1>f DEF Begin, Idle
      <4>3. QED
        BY <4>2, <1>1
    <3>3. QED
      BY <1>7, <3>1, <3>2
  <2>2. QED
    BY <1>7, <2>1, <1>2 DEF RefreshFound, RefreshReused, tables, history
<1>8. ASSUME NEW t \in Threads, RevokeAll(t)
      PROVE  TokensMinted' /\ ClientStaysIn'
  <2>1. \A s \in Sids : /\ sessions'[s].cur = sessions[s].cur
                        /\ sessions'[s].user = sessions[s].user
                        /\ sessions[s].revoked => sessions'[s].revoked
    BY <1>8, <1>0 DEF RevokeAll, SessionRow
  <2>2. QED
    BY <1>8, <2>1, <1>1, <1>3 DEF RevokeAll, history
<1>9. ASSUME NEW t \in Threads, RefreshRefused(t) \/ GateRefused(t)
      PROVE  TokensMinted' /\ ClientStaysIn'
  <2>1. \A s \in Sids : /\ sessions'[s].cur = sessions[s].cur
                        /\ sessions'[s].user = sessions[s].user
                        /\ sessions[s].revoked => sessions'[s].revoked
    BY <1>9, Revokes DEF RefreshRefused, GateRefused
  <2>2. Leave(t) /\ UNCHANGED <<minted, history>>
    BY <1>9 DEF RefreshRefused, GateRefused
  <2>3. QED
    BY <2>1, <2>2, <1>1, <1>3 DEF history
<1>10. ASSUME NEW t \in Threads, Rotate(t)
       PROVE  TokensMinted' /\ ClientStaysIn'
  <2>1. \A x \in Threads : req'[x].session.cur <= minted
    BY <1>10, <1>1 DEF Rotate
  <2>2. /\ minted' = minted + 1
        /\ \/ held' = [held EXCEPT ![req[t].sid] = minted + 1] /\ UNCHANGED lost
           \/ lost' = lost \cup {req[t].sid} /\ UNCHANGED held
    BY <1>10 DEF Rotate
  <2>3. /\ sessions' \in [Sids -> SessionRow]
        /\ sessions'[req[t].sid].cur = minted + 1
        /\ \A s \in Sids \ {req[t].sid} : sessions'[s] = sessions[s]
    BY <1>10, RotatedFacts
  <2>4. TokensMinted'
    BY <1>0, <1>t, <2>1, <2>2, <2>3 DEF TokensMinted, SessionRow
  <2>5. ClientStaysIn'
    BY <1>0, <2>2, <2>3 DEF ClientStaysIn, Live
  <2>6. QED
    BY <2>4, <2>5
<1>11. ASSUME NEW s \in Sids, Logout(s)
       PROVE  TokensMinted' /\ ClientStaysIn'
  <2>1. \A x \in Sids : /\ sessions'[x].cur = sessions[x].cur
                        /\ sessions'[x].user = sessions[x].user
                        /\ sessions[x].revoked => sessions'[x].revoked
    BY <1>11, <1>0 DEF Logout, Revoked, SessionRow
  <2>2. \A x \in Threads : req'[x].session.cur <= minted
    BY <1>11 DEF Logout, TokensMinted
  <2>3. QED
    BY <1>11, <2>1, <2>2, <1>3 DEF Logout, history
<1>12. ASSUME NEW t \in Threads, NEW s \in Sids, GateRead(t, s)
       PROVE  TokensMinted' /\ ClientStaysIn'
  <2> DEFINE r == [Idle EXCEPT !.step = "gate", !.sid = s, !.session = sessions[s], !.user = sessions[s].user]
  <2>1. r.session.cur <= minted /\ req' = [req EXCEPT ![t] = r]
    BY <1>12 DEF GateRead, Begin, Idle, TokensMinted
  <2>3. \A x \in Threads : req'[x].session.cur <= minted
    BY <2>1, <1>1
  <2>4. QED
    BY <1>12, <2>3, <1>2 DEF GateRead, tables, history
<1>13. ASSUME NEW t \in Threads, GatePassed(t)
       PROVE  TokensMinted' /\ ClientStaysIn'
  <2> DEFINE r == [req[t] EXCEPT !.step = "handle", !.session = NoSession]
  <2>1. r.session.cur <= minted
    BY <1>0, <1>f DEF TypeOK, Request
  <2>3. \A x \in Threads : req'[x].session.cur <= minted
    BY <1>13, <2>1, <1>1 DEF GatePassed
  <2>4. QED
    BY <1>13, <2>3, <1>2, GateKeeps DEF GatePassed, history
<1>14. ASSUME NEW t \in Threads, NEW step \in MfaSteps, MfaRead(t, step)
       PROVE  TokensMinted' /\ ClientStaysIn'
  <2>1. req[t].user \in Users
    BY <1>14 DEF MfaRead, At, Requesters
  <2> DEFINE r == [req[t] EXCEPT !.step = step, !.account = users[req[t].user]]
  <2>2. r.session.cur <= minted
    BY DEF TypeOK, Request, TokensMinted
  <2>4. \A x \in Threads : req'[x].session.cur <= minted
    BY <1>14, <2>2, <1>1 DEF MfaRead
  <2>5. QED
    BY <1>14, <2>4, <1>2 DEF MfaRead, tables
<1>15. ASSUME (\E w \in Sockets, k \in Tickets : TicketRead(w, k)) \/ (\E w \in Sockets : TicketConsume(w))
              \/ Tick \/ UNCHANGED vars
       PROVE  TokensMinted' /\ ClientStaysIn'
  <2>1. UNCHANGED <<sessions, minted, held, lost, req>>
    BY <1>15 DEF TicketRead, TicketConsume, Tick, vars, tables, history
  <2>2. QED
    BY <2>1, <1>2 DEF TokensMinted
<1>16. ASSUME Restart
       PROVE  TokensMinted' /\ ClientStaysIn'
  <2>1. \A x \in Threads : req'[x].session.cur <= minted
    BY <1>16, <1>0, <1>f DEF Restart
  <2>2. QED
    BY <1>16, <2>1, <1>2 DEF Restart, history
<1>17. QED
  BY <1>4, <1>5, <1>6, <1>7, <1>8, <1>9, <1>10, <1>11, <1>12, <1>13, <1>14, <1>15, <1>16 DEF Next

-----------------------------------------------------------------------------
(* Requests. *)

(* What a step does to the request of a thread that has an account. *)
LEMMA Accounted ==
  ASSUME IndInv, [Next]_vars
  PROVE  /\ Requesters'
         /\ \A x \in Threads :
              \/ req'[x] = req[x]
              \/ req'[x].step \in {"idle", "rotate", "reuse", "gate", "handle"}
              \/ /\ req'[x].step = "verify" /\ req'[x].since = now
                 /\ req'[x].user \in Users
                 /\ \A k \in KeysOf(req'[x].user) : Admits(k)
              \/ /\ req'[x].step \in {"create", "enter"} /\ req[x].step \in {"verify", "create"}
                 /\ req'[x].since = req[x].since /\ req'[x].user = req[x].user
              \/ /\ req'[x].step \in MfaSteps /\ req[x].step = "handle" /\ MfaRead(x, req'[x].step)
                 /\ req'[x].user = req[x].user /\ req'[x].account = users[req[x].user]
<1> USE DEF IndInv
<1>0. req \in [Threads -> Request] /\ sessions \in [Sids -> SessionRow]
  BY DEF TypeOK
<1>f. Idle.step = "idle"
  BY DEF Idle
<1> DEFINE Fine(x) ==
              \/ req'[x] = req[x]
              \/ req'[x].step \in {"idle", "rotate", "reuse"}
              \/ req'[x].step \in {"gate", "handle"} /\ req'[x].user \in Users
              \/ /\ req'[x].step = "verify" /\ req'[x].since = now
                 /\ req'[x].user \in Users
                 /\ \A k \in KeysOf(req'[x].user) : Admits(k)
              \/ /\ req'[x].step \in {"create", "enter"} /\ req[x].step \in {"verify", "create"}
                 /\ req'[x].since = req[x].since /\ req'[x].user = req[x].user
              \/ /\ req'[x].step \in MfaSteps /\ req[x].step = "handle" /\ MfaRead(x, req'[x].step)
                 /\ req'[x].user = req[x].user /\ req'[x].account = users[req[x].user]
<1>1. ASSUME NEW t \in Threads, NEW u \in Users, NEW register \in BOOLEAN, Attempt(t, u, register)
      PROVE  \A x \in Threads : Fine(x)
  <2> DEFINE r == [Idle EXCEPT !.step = "verify", !.user = u, !.register = register, !.since = now]
  <2>1. r.step = "verify" /\ r.user = u /\ r.since = now
    BY DEF Idle
  <2>2. req' = [req EXCEPT ![t] = r] /\ \A k \in KeysOf(u) : Admits(k)
    BY <1>1 DEF Attempt, Begin
  <2> HIDE DEF r
  <2>3. QED
    BY <1>0, <2>1, <2>2
<1>2. ASSUME NEW t \in Threads, Leave(t)
      PROVE  \A x \in Threads : Fine(x)
  BY <1>0, <1>2, <1>f DEF Leave
<1>3. ASSUME NEW t \in Threads, LoginVerified(t) \/ RegisterVerified(t) \/ RegisterUser(t), ~Leave(t)
      PROVE  \A x \in Threads : Fine(x)
  <2>1. req[t].step \in {"verify", "create"} /\ (Move(t, "enter") \/ Move(t, "create"))
    BY <1>3 DEF LoginVerified, RegisterVerified, RegisterUser, At
  <2>2. QED
    BY <1>0, <2>1 DEF Move, Request
<1>4. ASSUME NEW t \in Threads, NEW token \in 1..minted, RefreshFound(t, token) \/ RefreshReused(t, token)
      PROVE  \A x \in Threads : Fine(x)
  <2>1. req'[t].step \in {"rotate", "reuse"} /\ \A x \in Threads \ {t} : req'[x] = req[x]
    <3>1. CASE RefreshFound(t, token)
      <4>1. PICK s \in With(token) :
              Begin(t, [Idle EXCEPT !.step = "rotate", !.sid = s, !.session = sessions[s]])
        BY <3>1 DEF RefreshFound
      <4>2. QED
        BY <4>1, <1>0 DEF Idle, Begin
    <3>2. CASE RefreshReused(t, token)
      <4>1. PICK s, seen : Begin(t, [Idle EXCEPT !.step = "reuse", !.sid = s, !.seen = seen])
        BY <3>2 DEF RefreshReused
      <4>2. QED
        BY <4>1, <1>0 DEF Idle, Begin
    <3>3. QED
      BY <1>4, <3>1, <3>2
  <2>2. QED
    BY <2>1
<1>5. ASSUME NEW t \in Threads, NEW s \in Sids, GateRead(t, s)
      PROVE  \A x \in Threads : Fine(x)
  <2>1. PICK r : r.step = "gate" /\ r.user = sessions[s].user /\ req' = [req EXCEPT ![t] = r]
    BY <1>5 DEF GateRead, Begin, Idle
  <2>2. sessions[s].user \in Users
    BY <1>0, <1>5 DEF GateRead, Live, SessionRow
  <2>3. QED
    BY <1>0, <2>1, <2>2
<1>6. ASSUME NEW t \in Threads, GatePassed(t), ~Leave(t)
      PROVE  \A x \in Threads : Fine(x)
  <2>1. req' = [req EXCEPT ![t] = [req[t] EXCEPT !.step = "handle", !.session = NoSession]]
    BY <1>6 DEF GatePassed
  <2>2. req[t].user \in Users
    BY <1>6 DEF GatePassed, At, Requesters
  <2>3. QED
    BY <1>0, <2>1, <2>2 DEF Request
<1>7. ASSUME NEW t \in Threads, NEW step \in MfaSteps, MfaRead(t, step)
      PROVE  \A x \in Threads : Fine(x)
  <2>1. /\ req' = [req EXCEPT ![t] = [req[t] EXCEPT !.step = step, !.account = users[req[t].user]]]
        /\ req[t].step = "handle"
    BY <1>7 DEF MfaRead, At
  <2>2. /\ req'[t].step = step /\ req'[t].account = users[req[t].user] /\ req'[t].user = req[t].user
        /\ \A x \in Threads \ {t} : req'[x] = req[x]
    BY <1>0, <2>1 DEF Request
  <2>3. QED
    BY <1>7, <2>1, <2>2
<1>8. ASSUME Restart
      PROVE  \A x \in Threads : Fine(x)
  BY <1>8, <1>f DEF Restart
<1>9. ASSUME UNCHANGED req
      PROVE  \A x \in Threads : Fine(x)
  BY <1>9
<1>10. \A x \in Threads : Fine(x)
  <2> HIDE DEF Fine
  <2>1. ASSUME NEW t \in Threads,
               Refuse(t) \/ Enter(t) \/ RevokeAll(t) \/ RefreshRefused(t) \/ Rotate(t) \/ GateRefused(t)
               \/ MfaCommit(t) \/ IssueTicket(t)
        PROVE  Leave(t)
    BY <2>1 DEF Refuse, Enter, RevokeAll, RefreshRefused, Rotate, GateRefused, MfaCommit, IssueTicket
  <2>2. ASSUME (\E s \in Sids : Logout(s)) \/ (\E w \in Sockets, k \in Tickets : TicketRead(w, k))
               \/ (\E w \in Sockets : TicketConsume(w)) \/ Tick \/ UNCHANGED vars
        PROVE  UNCHANGED req
    BY <2>2 DEF Logout, TicketRead, TicketConsume, Tick, vars
  <2>3. QED
    BY <1>1, <1>2, <1>3, <1>4, <1>5, <1>6, <1>7, <1>8, <1>9, <2>1, <2>2 DEF Next
<1>11. Requesters'
  BY <1>10 DEF Requesters, MfaSteps
<1>12. QED
  BY <1>10, <1>11

(* Who is let in, and what becomes of the lockouts meanwhile. *)
LEMMA LetInStep ==
  ASSUME IndInv, [Next]_vars
  PROVE  AttemptsLetIn'
<1> USE DEF IndInv
<1>1. TypeOK' /\ Requesters'
  BY TypeStep, Accounted
<1>2. /\ \A k \in Keys : blocked[k] \in Nat /\ blocked'[k] \in Nat
      /\ now \in Nat /\ now' \in Nat /\ now <= now'
  <2>1. now' = now \/ now' = now + 1
    BY DEF Next, vars, Attempt, Refuse, LoginVerified, RegisterVerified, RegisterUser, Enter, RefreshFound,
           RefreshReused, RevokeAll, RefreshRefused, Rotate, GateRead, GateRefused, GatePassed, MfaRead,
           MfaCommit, IssueTicket, Logout, TicketRead, TicketConsume, Restart, Tick
  <2>2. QED
    BY <1>1, <2>1 DEF TypeOK
<1>3. \A k \in Keys : blocked'[k] \in {blocked[k], 0, now + Lockout}
  BY DEF Next, vars, Attempt, Refuse, LoginVerified, RegisterVerified, RegisterUser, Enter, RefreshFound,
         RefreshReused, RevokeAll, RefreshRefused, Rotate, GateRead, GateRefused, GatePassed, MfaRead,
         MfaCommit, IssueTicket, Logout, TicketRead, TicketConsume, Restart, Tick, limiter, RecordFailure, Reset
<1>4. \A k \in Keys : blocked'[k] <= now' + Lockout
  BY <1>2, <1>3, AccountsAssumption DEF AttemptsLetIn
<1>5. ASSUME NEW x \in Threads, req'[x].step \in {"verify", "create", "enter"}
      PROVE  /\ req'[x].since <= now'
             /\ \A k \in KeysOf(req'[x].user) : LetIn(x, k)'
  <2>1. req[x].since \in Nat /\ req'[x].since \in Nat /\ KeysOf(req'[x].user) \subseteq Keys
    <3>1. req'[x].user \in Users
      BY <1>1, <1>5 DEF Requesters
    <3>2. QED
      BY <1>1, <3>1 DEF TypeOK, Request, KeysOf, Keys
  <2>2. /\ req'[x].since <= now
        /\ \A k \in KeysOf(req'[x].user) : blocked[k] <= req'[x].since \/ req'[x].since + Lockout <= blocked[k]
    <3>1. CASE req'[x] = req[x]
      BY <1>5, <3>1 DEF AttemptsLetIn, LetIn
    <3>2. CASE req'[x].step = "verify" /\ req'[x].since = now /\ \A k \in KeysOf(req'[x].user) : Admits(k)
      BY <3>2, <1>2, <2>1 DEF Admits
    <3>3. CASE req[x].step \in {"verify", "create"} /\ req'[x].since = req[x].since /\ req'[x].user = req[x].user
      BY <3>3 DEF AttemptsLetIn, LetIn
    <3>4. QED
      BY <1>5, <3>1, <3>2, <3>3, Accounted DEF MfaSteps
  <2>3. QED
    BY <1>2, <1>3, <2>1, <2>2, AccountsAssumption DEF LetIn
<1>6. QED
  BY <1>4, <1>5 DEF AttemptsLetIn

-----------------------------------------------------------------------------
(* Two-factor authentication. *)

(* Of the accounts whose requests never overlapped, a step changes at most *)
(* the one whose only request it is.                                       *)
LEMMA MfaStep ==
  ASSUME IndInv, [Next]_vars
  PROVE  MfaAlone' /\ MfaHasSecret'
<1> USE DEF IndInv
<1>0. users \in [Users -> UserRow] /\ req \in [Threads -> Request] /\ mixed \subseteq Users
  BY DEF TypeOK
<1>1. CASE \E t \in Threads, step \in MfaSteps : MfaRead(t, step)
  <2>1. PICK t \in Threads, step \in MfaSteps : MfaRead(t, step)
    BY <1>1
  <2> DEFINE u == req[t].user
  <2>2. /\ req' = [req EXCEPT ![t] = [req[t] EXCEPT !.step = step, !.account = users[u]]]
        /\ users' = users /\ req[t].step = "handle"
        /\ mixed' = IF \E x \in Threads : req[x].step \in MfaSteps /\ req[x].user = u
                    THEN mixed \cup {u} ELSE mixed
    BY <2>1 DEF MfaRead, tables, At
  <2>3. /\ req'[t].step = step /\ req'[t].user = u /\ req'[t].account = users[u]
        /\ \A x \in Threads \ {t} : req'[x] = req[x]
    BY <1>0, <2>2 DEF Request
  <2>4. MfaAlone'
    BY <2>2, <2>3 DEF MfaAlone
  <2>5. MfaHasSecret'
    BY <2>2 DEF MfaHasSecret, MfaPassable
  <2>6. QED
    BY <2>4, <2>5
<1>2. CASE \E t \in Threads : MfaCommit(t)
  <2>1. PICK t \in Threads : MfaCommit(t)
    BY <1>2
  <2> DEFINE u == req[t].user
  <2>2. /\ \A x \in Users \ {u} : users'[x] = users[x]
        /\ u \in Users
        /\ /\ req[t].account.mfa = users[u].mfa /\ req[t].account.secret = users[u].secret
           /\ users[u].mfa => users[u].secret
           => (users'[u].mfa => users'[u].secret)
    BY <2>1, MfaWrites
  <2>3. /\ req[t].step \in MfaSteps /\ mixed' = mixed
        /\ req'[t].step = "idle" /\ \A x \in Threads \ {t} : req'[x] = req[x]
    BY <1>0, <2>1 DEF MfaCommit, Leave, Idle, history
  <2>4. MfaAlone'
    BY <2>2, <2>3, Accounted DEF MfaAlone, Requesters, MfaSteps
  <2>5. MfaHasSecret'
    BY <2>2, <2>3 DEF MfaHasSecret, MfaPassable, MfaAlone
  <2>6. QED
    BY <2>4, <2>5
<1>3. CASE ~\E t \in Threads : MfaCommit(t) \/ \E step \in MfaSteps : MfaRead(t, step)
  <2>1. mixed' = mixed
    BY <1>3 DEF Next, vars, history, Attempt, Refuse, LoginVerified, RegisterVerified, RegisterUser, Enter,
           RefreshFound, RefreshReused, RevokeAll, RefreshRefused, Rotate, GateRead, GateRefused, GatePassed,
           IssueTicket, Logout, TicketRead, TicketConsume, Restart, Tick
  <2>2. \A u \in Users : users'[u].mfa = users[u].mfa /\ users'[u].secret = users[u].secret
    <3>1. CASE \E t \in Threads : RegisterUser(t)
      BY <1>0, <3>1 DEF RegisterUser, UserRow
    <3>2. CASE ~\E t \in Threads : RegisterUser(t)
      <4>1. users' = users
        BY <1>3, <3>2 DEF Next, vars, tables, Attempt, Refuse, LoginVerified, RegisterVerified, Enter,
               RefreshFound, RefreshReused, RevokeAll, RefreshRefused, Rotate, GateRead, GateRefused,
               GatePassed, IssueTicket, Logout, TicketRead, TicketConsume, Restart, Tick
      <4>2. QED
        BY <4>1
    <3>3. QED
      BY <3>1, <3>2
  <2>3. \A x \in Threads : req'[x].step \in MfaSteps => req'[x] = req[x]
    BY <1>3, Accounted DEF MfaSteps
  <2>4. MfaAlone'
    BY <1>0, <2>1, <2>2, <2>3 DEF MfaAlone, Requesters, MfaSteps
  <2>5. MfaHasSecret'
    BY <2>1, <2>2 DEF MfaHasSecret, MfaPassable
  <2>6. QED
    BY <2>4, <2>5
<1>4. QED
  BY <1>1, <1>2, <1>3

-----------------------------------------------------------------------------
(* The invariant. *)

LEMMA Invariance == Spec => []IndInv
<1>1. Init => IndInv
  <2>1. ASSUME Init PROVE IndInv
    <3>1. TypeOK
      BY <2>1, TypeInit
    <3>2. \A t \in Threads : req[t].step = "idle" /\ req[t].session.cur = 0
      BY <2>1 DEF Init, Idle, NoSession
    <3>3. \A s \in Sids : sessions[s].cur = 0 /\ sessions[s].user = NoUser
      BY <2>1 DEF Init, NoSession
    <3>4. \A u \in Users : users[u].mfa = FALSE
      BY <2>1 DEF Init, Unknown
    <3>5. QED
      BY <2>1, <3>1, <3>2, <3>3, <3>4, AccountsAssumption DEF Init, IndInv, TokensMinted, Requesters, ClientStaysIn, Live,
         MfaAlone, MfaSteps, MfaHasSecret, MfaPassable, AttemptsLetIn
  <2>2. QED
    BY <2>1
<1>2. IndInv /\ [Next]_vars => IndInv'
  <2>1. ASSUME IndInv, [Next]_vars PROVE IndInv'
    BY <2>1, TypeStep, TokensStep, Accounted, MfaStep, LetInStep DEF IndInv
  <2>2. QED
    BY <2>1
<1>3. QED
  BY <1>1, <1>2, PTL DEF Spec

(* Rows, tokens, requests and lockouts fit together, and an account whose  *)
(* MFA requests never overlapped has a secret whenever MFA is on.          *)
THEOREM Coherence == Spec => []IndInv
BY Invariance

(* A client that loses no answer keeps the token its session stores.       *)
THEOREM ClientsStayIn == Spec => []ClientStaysIn
<1>1. IndInv => ClientStaysIn
  BY DEF IndInv
<1>2. QED
  BY <1>1, Invariance, PTL

(* No step of any request takes a revocation back.                         *)
THEOREM RevocationHolds == Spec => RevokedIsFinal
<1>1. ASSUME IndInv, [Next]_vars, NEW s \in Sids, sessions[s].revoked
      PROVE  sessions'[s].revoked
  <2>0. sessions \in [Sids -> SessionRow] /\ TypeOK /\ TokensMinted
    BY <1>1 DEF IndInv, TypeOK
  <2>1. CASE \E t \in Threads : Enter(t)
    BY <2>0, <2>1, <1>1 DEF Enter, NoSession
  <2>2. CASE \E t \in Threads : RevokeAll(t)
    BY <2>0, <2>2, <1>1 DEF RevokeAll, SessionRow
  <2>3. CASE \E t \in Threads : RefreshRefused(t) \/ GateRefused(t)
    BY <2>0, <2>3, <1>1, Revokes DEF RefreshRefused, GateRefused
  <2>4. CASE \E t \in Threads : Rotate(t)
    BY <2>0, <2>4, <1>1, RotatedFacts
  <2>5. CASE \E x \in Sids : Logout(x)
    BY <2>0, <2>5, <1>1 DEF Logout, Revoked, SessionRow
  <2>6. CASE UNCHANGED sessions
    BY <2>6, <1>1
  <2>7. CASE \E t \in Threads : GatePassed(t)
    BY <2>0, <2>7, <1>1, GateKeeps
  <2>8. QED
    BY <1>1, <2>1, <2>2, <2>3, <2>4, <2>5, <2>6, <2>7
       DEF Next, vars, tables, Attempt, Refuse, LoginVerified, RegisterVerified, RegisterUser, RefreshFound,
           RefreshReused, GateRead, MfaRead, MfaCommit, IssueTicket, TicketRead, TicketConsume, Restart, Tick
<1>2. IndInv /\ [Next]_vars => [\A s \in Sids : sessions[s].revoked => sessions'[s].revoked]_vars
  BY <1>1
<1>3. QED
  BY <1>2, Invariance, PTL DEF Spec, RevokedIsFinal

(* Only a login that was let in before a lockout began ends it early, or   *)
(* the end of the process.                                                 *)
THEOREM LockoutHolds == Spec => LockoutFirm
<1> USE DEF EndsEarly, EnteredBefore, AllGone
<1>1. ASSUME IndInv, [Next]_vars, NEW k \in Keys, EndsEarly(k)
      PROVE  AllGone \/ EnteredBefore(k)
  <2>0. blocked[k] \in Nat /\ now \in Nat /\ \A t \in Threads : req[t].since \in Nat
    BY <1>1 DEF IndInv, TypeOK, Request
  <2>1. CASE \E t \in Threads : Enter(t)
    <3>1. PICK t \in Threads : Enter(t)
      BY <2>1
    <3>2. At(t, "enter") /\ k \in KeysOf(req[t].user)
      BY <1>1, <2>0, <3>1 DEF Enter, Reset
    <3>3. req[t].since <= now /\ LetIn(t, k)
      BY <1>1, <3>2 DEF IndInv, AttemptsLetIn, At
    <3>4. req[t].since + Lockout <= blocked[k]
      BY <2>0, <3>3, <1>1 DEF LetIn
    <3>5. QED
      BY <3>2, <3>4
  <2>2. CASE \E t \in Threads : Refuse(t)
    <3>1. blocked[k] <= now + Lockout /\ blocked'[k] \in {blocked[k], now + Lockout}
      BY <2>2, <1>1 DEF IndInv, AttemptsLetIn, Refuse, RecordFailure
    <3>2. QED
      BY <2>0, <3>1, <1>1, AccountsAssumption
  <2>3. CASE Restart
    BY <2>3 DEF Restart
  <2>4. CASE UNCHANGED blocked
    BY <2>0, <2>4, <1>1
  <2>5. QED
    BY <1>1, <2>1, <2>2, <2>3, <2>4
       DEF Next, vars, limiter, Attempt, LoginVerified, RegisterVerified, RegisterUser, RefreshFound,
           RefreshReused, RevokeAll, RefreshRefused, Rotate, GateRead, GateRefused, GatePassed, MfaRead,
           MfaCommit, IssueTicket, Logout, TicketRead, TicketConsume, Tick
<1>2. IndInv /\ [Next]_vars => [\A k \in Keys : EndsEarly(k) => AllGone \/ EnteredBefore(k)]_vars
  BY <1>1
<1>3. QED
  BY <1>2, Invariance, PTL DEF Spec, LockoutFirm

-----------------------------------------------------------------------------
(* Tickets. *)

(* With one event loop, no ticket opens two websockets.                    *)
THEOREM TicketsOnce ==
  ASSUME \A w, x \in Sockets : Loop[w] = Loop[x]
  PROVE  Spec => []TicketOnce
<1> DEFINE TInv == TicketsFresh /\ TicketOnce
<1>1. Init => TInv
  BY DEF Init, TicketsFresh, TicketOnce
<1>2. IndInv /\ TInv /\ [Next]_vars => TInv'
  <2> SUFFICES ASSUME IndInv, TInv, [Next]_vars PROVE TInv'
    OBVIOUS
  <2>0. /\ tickets \in [Tickets -> TicketRow] /\ opening \in [Sockets -> SUBSET Tickets]
        /\ admitted \in [Tickets -> Nat]
    BY DEF IndInv, TypeOK
  <2>1. CASE \E t \in Threads : IssueTicket(t)
    BY <2>0, <2>1 DEF IssueTicket, TicketsFresh, TicketOnce, TicketRow, history
  <2>2. CASE \E w \in Sockets, k \in Tickets : TicketRead(w, k)
    BY <2>0, <2>2 DEF TicketRead, LoopFree, TicketsFresh, TicketOnce, tables, history
  <2>3. CASE \E w \in Sockets : TicketConsume(w)
    <3>0. PICK w \in Sockets : TicketConsume(w)
      BY <2>3
    <3>1. PICK k \in opening[w] :
            /\ tickets' = [tickets EXCEPT ![k].state = "consumed"]
            /\ opening' = [opening EXCEPT ![w] = {}]
            /\ admitted' = [admitted EXCEPT ![k] = IF Live(tickets[k].sid) THEN @ + 1 ELSE @]
      BY <3>0 DEF TicketConsume
    <3>2. k \in Tickets /\ admitted[k] = 0
      BY <2>0, <3>1 DEF TicketsFresh
    <3>3. admitted'[k] \in {0, 1} /\ \A j \in Tickets \ {k} : admitted'[j] = admitted[j]
      BY <2>0, <3>1, <3>2
    <3>4. tickets'[k].state = "consumed" /\ \A j \in Tickets \ {k} : tickets'[j] = tickets[j]
      BY <2>0, <3>1, <3>2 DEF TicketRow
    <3>5. \A x \in Sockets : opening'[x] = {} \/ (x # w /\ opening'[x] = opening[x])
      BY <2>0, <3>1
    <3>6. \A x \in Sockets : opening'[x] = {}
      BY <3>1, <3>5 DEF TicketsFresh
    <3>7. QED
      BY <3>3, <3>4, <3>6 DEF TicketsFresh, TicketOnce
  <2>4. CASE Restart
    BY <2>0, <2>4 DEF Restart, Purgeable, TicketsFresh, TicketOnce, TicketRow, history
  <2>5. CASE UNCHANGED <<tickets, opening, admitted>>
    BY <2>5 DEF TicketsFresh, TicketOnce
  <2>6. QED
    BY <2>1, <2>2, <2>3, <2>4, <2>5
       DEF Next, vars, tables, history, Attempt, Refuse, LoginVerified, RegisterVerified, RegisterUser, Enter,
           RefreshFound, RefreshReused, RevokeAll, RefreshRefused, Rotate, GateRead, GateRefused, GatePassed,
           MfaRead, MfaCommit, Logout, Tick
<1>3. QED
  BY <1>1, <1>2, Invariance, PTL DEF Spec
=============================================================================
