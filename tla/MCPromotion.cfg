\* Two designers, three promotions, two packs staged, one push by others, a legacy province.
CONSTANTS
  None = None
  Truncated = Truncated
  Garbled = Garbled
  d1 = d1
  d2 = d2
  Packs <- Worlds
  Designers = {d1, d2}
  Legacy <- Road
  MaxKey = 3
  MaxPromotions = 3
  MaxStages = 2
  MaxPushes = 1
SPECIFICATION PromotionSpec
  
PROPERTIES StageKept
SYMMETRY Symmetry
CHECK_DEADLOCK FALSE
