SPECIFICATION Spec
CONSTANTS
  Word <- Words
  GasLimits <- Limits
  Intrinsic <- Base
  Costs <- CostsOfOpcodes
  GasParams <- Params
  Sizes <- Lengths
  MaxDepth = 2
  MaxSteps = 3
INVARIANTS TypeOK RefundIsEarned ChargeWithinLimit
PROPERTIES GasIsNeverCreated
CHECK_DEADLOCK FALSE
