\* Two users, two characters, a hub and another level, two requests at a time.
CONSTANTS
  None = None
  Deleted = Deleted
  u1 = u1
  u2 = u2
  s1 = s1
  s2 = s2
  c1 = c1
  c2 = c2
  hub = hub
  wild = wild
  p1 = p1
  n1 = n1
  n2 = n2
  r1 = r1
  r2 = r2
  Users = {u1, u2}
  Names = {c1, c2}
  Levels = {hub, wild}
  Hubs = {hub}
  First = wild
  PartyIds = {p1}
  Sessions = {s1, s2}
  UserOf <- Owners
  Admins = {u1, u2}
  Nonces = {n1, n2}
  Grants = {3}
  XpToLevelup = 2
  Requests = {r1, r2}
  MaxChanges = 2
  MaxRequests = 5
SPECIFICATION EntrySpec
INVARIANTS OneSelected ExpiredIsDue RewardedOnce EarnedIsKept
SYMMETRY Symmetry
CHECK_DEADLOCK FALSE
