\* One account with two sessions, two requests and two websockets at a time.
CONSTANTS
  u1 = u1 s1 = s1 s2 = s2 t1 = t1 t2 = t2 w1 = w1 w2 = w2
  Users = {u1}
  Ip = ip
  NoUser = none
  Sids = {s1, s2}
  Tickets = {1}
  Threads = {t1, t2}
  Sockets = {w1, w2}
  Loop <- OneLoop
  Limit = 2
  Window = 1
  Lockout = 2
  SessionTTL = 2
  TicketTTL = 1
  MaxNow = 2
  MaxTokens = 3
  MaxRequests = 4
SPECIFICATION Spec
INVARIANTS IndInv ClientStaysIn TicketOnce
PROPERTIES RevokedIsFinal LockoutFirm
CHECK_DEADLOCK FALSE
