SPECIFICATION FairSpec
CONSTANTS
  PreEip155 <- OneTransaction
  Worlds <- AllWorlds
INVARIANTS TypeOK CoinbaseNeverZero CoinbaseIsKnown RecordedEvmIsDeployed RecordedTokenIsAuthorized
PROPERTIES RunsNeverRaise DeploymentConverges
CHECK_DEADLOCK FALSE
