SPECIFICATION Spec
CONSTANTS
  eoa = eoa
  other = other
  dapp = dapp
  fresh = fresh
  coinbase = coinbase
  burn = burn
  callPrecompile = callPrecompile
  multicallPrecompile = multicallPrecompile
  whitelistedPrecompile = whitelistedPrecompile
  ecrecover = ecrecover
  Addr <- AllAddresses
  Word = {0, 1}
  MaxUint = 20
  Eoa = {eoa, other}
  Contracts = {dapp}
  CreateTargets = {fresh}
  Coinbase = coinbase
  BurnAddress = burn
  CairoCall = callPrecompile
  CairoMulticall = multicallPrecompile
  CairoWhitelisted = whitelistedPrecompile
  EthPrecompiles = {ecrecover}
  Whitelist = {dapp}
  GenesisBalance <- Balances
  Values = {1}
  MaxFee = 2
  MaxNonce = 2
  MaxDepth = 1
  AccessLists = {{}, {fresh, other}}
  CairoMovesNative = TRUE
  FieldPrime = 65521
  Callees = {dapp, fresh, callPrecompile}
  MaxBatch = 1
  Opcodes = {"CALL", "CREATE", "SSTORE", "LOG", "SELFDESTRUCT"}
  MaxSteps = 2
  MaxTxs = 2
PROPERTIES
  TransactionsAreAtomic
CHECK_DEADLOCK FALSE
