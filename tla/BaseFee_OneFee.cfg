SPECIFICATION Spec
CONSTANTS
  Fee = {1, 2}
  MaxBlock = 3
PROPERTY
  OneFeePerBlock
