\* Three users, two parties, two invites, two requests at a time.
CONSTANTS
  u1 = u1
  u2 = u2
  u3 = u3
  p1 = p1
  p2 = p2
  i1 = i1
  i2 = i2
  r1 = r1
  r2 = r2
  None = None
  Users = {u1, u2, u3}
  PartyIds = {p1, p2}
  InviteIds = {i1, i2}
  Requests = {r1, r2}
SPECIFICATION PartiesSpec
INVARIANTS OwnerLeads OneParty
SYMMETRY Symmetry
CHECK_DEADLOCK FALSE
