SPECIFICATION Spec
CONSTANTS
  Contracts <- Mixed
  Cairo1 <- Package
  Pattern <- Globs
  Worlds <- AllWorlds
  MaxEdits = 1
INVARIANTS TypeOK DeclarationsAreOnChain MakeDeclaresSources
CHECK_DEADLOCK FALSE
