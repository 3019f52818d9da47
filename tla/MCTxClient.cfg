SPECIFICATION FairSpec
CONSTANTS
  c1 = c1
  c2 = c2
  Client <- Two
  Worlds <- AllWorlds
  Retries = 1
INVARIANTS TypeOK NoNonceGap QuietCallIsFresh InSync
PROPERTIES CallsEnd
CHECK_DEADLOCK FALSE
