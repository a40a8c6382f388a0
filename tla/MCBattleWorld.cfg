\* Three battles in a chain of rivals, each id of which can be asked for again, weak
\* enough to be over after at most four steps, and a log of two results.
CONSTANTS
  Ids = {1, 2, 3}
  Armies = {6, 7, 8, 9}
  Orders <- SkirmishOrders
  Pressures = {100}
  MaxSteps = 4
  MaxRecent = 2
  LastQueue = 3
  MaxTick = 7
SPECIFICATION FairTicksSpec
INVARIANTS IndInv ResultsTruthful
PROPERTIES TroopsNeverGrow SeenAsLives BattleEnds
CHECK_DEADLOCK FALSE
