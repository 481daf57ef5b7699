CONSTANTS
  DefaultCooldown = 1
  MaxCooldown = 2
  Lists <- SomeLists
  Stories = 2
SPECIFICATION FairChainSpec
INVARIANTS SuccessIsWork ThrashFallsThrough
PROPERTIES CooldownIsServed
