SPECIFICATION Spec
CONSTANTS
  Commit <- MCCommit
  Reach <- MCReach
  Tree <- MCTree
  Origin = "base"
  None = "none"
  MaxFaults = 2
  Recover = {"reset", "retry-integration", "retry-merge"}
  LiveRecover = FALSE
  User = {"push", "rewind"}
CHECK_DEADLOCK FALSE
INVARIANTS SuccessIsTrue PublishIsRecorded
PROPERTIES DeleteAfterRecord PublishFastForwards KeepsCustody
