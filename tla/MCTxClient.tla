----------------------------- MODULE MCTxClient -----------------------------
(***************************************************************************)
(* Instances of TxClient for TLC: one process and a prompt node, two that    *)
(* share the accounts, a node that lags, and a multisig.                   *)
(***************************************************************************)
EXTENDS TxClient

CONSTANTS c1, c2

Two == {c1, c2}
Calls(first, second) == [p \in Two |-> IF p = c1 THEN first ELSE second]
Alone == [calls |-> Calls({"invoke", "evm"}, {}), multisig |-> FALSE, lag |-> 0, txs |-> 4]
Prompt == [calls |-> Calls({"invoke", "evm"}, {"evm"}), multisig |-> FALSE, lag |-> 0, txs |-> 2]
Lagging == [Prompt EXCEPT !.lag = 1]
Owners == [calls |-> Calls({"invoke"}, {"invoke"}), multisig |-> TRUE, lag |-> 0, txs |-> 2]
AllWorlds == {Alone, Prompt, Lagging, Owners}
=============================================================================
