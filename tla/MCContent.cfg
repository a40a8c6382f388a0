\* Three versions of two domains, two editors, three activations, crashes at any point.
CONSTANTS
  t1 = t1
  t2 = t2
  Domains = {"skills", "stats"}
  Edits = {"edited"}
  Threads = {t1, t2}
  Phase = "drain_enforced"
  Releases <- Pipeline
  MaxVersions = 3
  MaxActivations = 3
  MaxBuild = 2
  MaxEdits = 4
SPECIFICATION Spec
INVARIANTS IndInv ServedIsActive
PROPERTIES ContentKeepsBinary
CHECK_DEADLOCK FALSE
