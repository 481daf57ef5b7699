SPECIFICATION FairSpec
CONSTANTS
  s1 = s1 s2 = s2 Fix = Fix
  Stories <- MCStories
  Deps <- MCDeps
  Rank <- MCRank
  Setup = TRUE Verify = TRUE Review = TRUE
  IterCap = 2
  MaxVerify = 3
  MaxReview = 2
  Kinds <- Trouble
  MaxTrouble = 5
INVARIANTS GatesNeedEveryStory GatedCompletion SuccessIsDurable
PROPERTIES PlanCompletes
CHECK_DEADLOCK FALSE
