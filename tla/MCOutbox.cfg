CONSTANTS
  k1 = k1
  k2 = k2
  r1 = r1
  r2 = r2
  r3 = r3
  r4 = r4
  h1 = h1
  h2 = h2
  None = None
  Keys = {k1, k2}
  Requests = {r1, r2, r3, r4}
  KeyOf <- MCKeyOf
  HashOf <- MCHashOf
  Workers = {w1}
  Limit = 2
  MaxAttempts = 2
  MaxFaults = 1
SPECIFICATION Spec
INVARIANTS AnsweredTruly
PROPERTY Delivers
