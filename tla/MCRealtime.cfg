CONSTANTS
  a = a
  b = b
  c = c
  a1 = a1
  a2 = a2
  b1 = b1
  z1 = z1
  z2 = z2
  None = None
  Global = Global
  Users = {a, b, c}
  Sockets = {a1, a2, b1}
  UserOf <- MCUserOf
  Requests = {q1}
  Zones = {z1, z2}
  Hubs = {z1}
  Places <- MCPlaces
  Direct = {d1}
  Pairs <- MCPairs
  MaxInputs = 4
SPECIFICATION Spec
INVARIANT Coherent
PROPERTY GoneAreForgotten
CHECK_DEADLOCK FALSE
