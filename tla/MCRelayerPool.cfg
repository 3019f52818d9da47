SPECIFICATION FairSpec
CONSTANTS
  N = 2
  Amount = 1
  Eth = 2
  Worlds <- AllWorlds
INVARIANTS TypeOK PoolIsDeployed NoOverFunding NotLeftLazy
PROPERTIES PoolCompletes
CHECK_DEADLOCK FALSE
