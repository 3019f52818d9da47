--------------------------- MODULE MCInterpreter ---------------------------
(***************************************************************************)
(* Small instances of Interpreter for TLC.                                 *)
(***************************************************************************)
EXTENDS InterpreterProperties

CONSTANTS eoa, other, dapp, fresh, coinbase, burn, callPrecompile,
          multicallPrecompile, whitelistedPrecompile, ecrecover

AllAddresses ==
  {eoa, other, dapp, fresh, coinbase, burn, callPrecompile,
   multicallPrecompile, whitelistedPrecompile, ecrecover}

\* Enough for two transactions that carry a value.
Balances == [a \in AllAddresses |-> IF a = eoa THEN 5 ELSE IF a = dapp THEN 1 ELSE 0]
=============================================================================
