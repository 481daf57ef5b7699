SPECIFICATION Spec
CONSTANTS
  p1 = p1 p2 = p2
  Plans <- TwoPlans
  Ref <- SecondOnFeat
  Branch = {"main", "feat"}
  Protected = {"main"}
  AutoNames <- Names
  Requests <- Asks
  Losses = {p1}
  MaxFaults = 2
  None = "none"
INVARIANTS ModeIsFixed NewsIsTrue
PROPERTIES AutoBranchIsBase PauseIsAnswered
CHECK_DEADLOCK FALSE
