\* Two users, one party, one invite: the owner leaves.
CONSTANTS
  u1 = u1
  u2 = u2
  u3 = u3
  p1 = p1
  p2 = p2
  i1 = i1
  i2 = i2
  r1 = r1
  r2 = r2
  None = None
  Users = {u1, u2}
  PartyIds = {p1}
  InviteIds = {i1}
  Requests = {r1, r2}
SPECIFICATION PartiesSpec
PROPERTY LeaveLeaves
CHECK_DEADLOCK FALSE
