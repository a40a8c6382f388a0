\* One process that may crash once, fair: two players, an administrator, two
\* publishes, a half-second clock.
CONSTANTS
  s1 = s1 s2 = s2 a1 = a1 p1 = p1 t1 = t1
  Sessions = {s1, s2, a1}
  Admins = {a1}
  Procs = {p1}
  Threads = {t1}
  Home <- OneProcHome
  MaxConcurrent = 1
  Grace = 1
  Second = 2
  MaxEvents = 2
  MaxNow = 3
  MaxCrashes = 1
SPECIFICATION FairSpec
INVARIANTS IndInv AuditTruthful NoEscape OneDrainAtATime PublishIsDrained
PROPERTIES GraceHonoured DrainEnds
CHECK_DEADLOCK FALSE
