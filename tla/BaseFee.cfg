SPECIFICATION Spec
CONSTANTS
  Fee = {1, 2, 3}
  MaxBlock = 5
INVARIANTS
  LastFeeInForce
  NoEarlyFee
PROPERTY
  ReadingIsStable
