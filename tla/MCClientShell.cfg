\* One character, battle commands between the polls, a session that is cleared,
\* a request that fails and a world that restarts, under fairness.
CONSTANTS
  c1 = c1
  Characters = {c1}
  NoCharacter = none
  Rosters = {{c1}}
  Lanes = {"battle"}
  BasePoll = 1
  MaxBackoff = 2
  StaleAfter = 1
  Timeout = 1
  MaxTick = 1
  MaxFailures = 1
  MaxRestarts = 1
  MaxClears = 1
SPECIFICATION FairSpec
INVARIANTS IndInv LiveIsRecent SyncsAwaited
PROPERTIES Recovers
