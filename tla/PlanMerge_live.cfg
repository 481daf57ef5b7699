SPECIFICATION RestartSpec
CONSTANTS
  Commit <- MCCommit
  Reach <- MCReach
  Tree <- MCTree
  Origin = "base"
  None = "none"
  MaxFaults = 1
  Recover = {"reset"}
  LiveRecover = FALSE
  User = {"edit", "stash", "switch"}
CHECK_DEADLOCK FALSE
INVARIANTS IntegratedIsClean
PROPERTIES EditsSurvive PublishIsCompleted
