SPECIFICATION RestartSpec
CONSTANTS
  p1 = p1 p2 = p2 p3 = p3
  Plan <- MCPlan
  Phases <- MCPhases
  Stories <- OneStory
  Parallelize = TRUE
  MaxParallel = 2
  Costs = {1}
  Caps = {2, 9}
  MaxFailures = 2
  MaxCrashes = 1
  MaxInterrupts = 1
  Removals = {p1}
INVARIANTS ArchivedMeansIntegrated ProgressStays CursorTruthful CapOvershoot
PROPERTIES KeepsOrder FailureIsReported BatchFinishes
CHECK_DEADLOCK FALSE
