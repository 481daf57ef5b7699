SPECIFICATION Spec
CONSTANTS
  p1 = p1
  p2 = p2
  NoPlan = NoPlan
  Plans <- TwoPlans
  Rank <- Alphabet
  MaxOrder = 3
  Ops <- Orderly
  Torn <- AllButRemove
  Overlap = FALSE
  MaxOps = 2
  MaxTrouble = 2
PROPERTIES KeepsOrder CompletedMeansLanded LandedRunsOnce EveryPlanLands
CHECK_DEADLOCK FALSE
