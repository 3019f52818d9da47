SPECIFICATION Spec
CONSTANTS
  eoa = eoa
  other = other
  dapp = dapp
  fresh = fresh
  coinbase = coinbase
  burn = burn
  callPrecompile = callPrecompile
  multicallPrecompile = multicallPrecompile
  whitelistedPrecompile = whitelistedPrecompile
  ecrecover = ecrecover
  Addr <- AllAddresses
  Word = {0, 1}
  MaxUint = 20
  Eoa = {eoa, other}
  Contracts = {dapp}
  CreateTargets = {fresh}
  Coinbase = coinbase
  BurnAddress = burn
  CairoCall = callPrecompile
  CairoMulticall = multicallPrecompile
  CairoWhitelisted = whitelistedPrecompile
  EthPrecompiles = {ecrecover}
  Whitelist = {dapp}
  GenesisBalance <- Balances
  Values = {0}
  MaxFee = 2
  MaxNonce = 10
  MaxDepth = 2
  AccessLists = {{}}
  CairoMovesNative = FALSE
  FieldPrime = 3
  Callees = {dapp, callPrecompile}
  MaxBatch = 1
  Opcodes = {"CALL"}
  MaxSteps = 3
  MaxTxs = 1
INVARIANTS
  RevertUndoesCairoCalls
