# Kakarot in TLA+

Kakarot is an Ethereum execution environment written in Cairo that runs as a
contract of Starknet (`src/cairo_zero`). One Starknet transaction carries one EVM
transaction: Kakarot interprets it against a cache of the Starknet storage and,
when it is over, writes the cache back, emits the events and moves the native
token. This directory is a model of that program, checked with TLC on small
instances and proved about with TLAPS.

The hard part of the system is that two machines with different rules about
failure are coupled. The EVM undoes a failed context and goes on; Starknet undoes a
whole transaction or nothing. EVM effects wait in a journaled state; effects of
Cairo contracts, which an EVM program reaches through precompiles, are immediate.
Everything that keeps the two consistent is spread over `interpreter.cairo`,
`system_operations.cairo`, `kakarot_precompiles.cairo`, `state.cairo` and
`backend/starknet.cairo`.

Around the contracts stands a second program, in Python (`src/kakarot_scripts`): it
compiles and declares the classes, deploys and upgrades Kakarot, funds the relayers
that carry EVM transactions, and sends transactions for the scripts and the tests. It
is asynchronous, keeps its state in json files and in the memory of a process, and
talks to a chain that answers late or not at all. Its models are the second half of
this directory.

Contents: [inventory](#inventory), [modules](#modules), [what the runs
check](#what-the-runs-check), [bounds](#bounds), [fairness](#fairness), [what is
proved](#what-is-proved), [divergences](#divergences-from-the-comments), [what is
not modelled](#what-is-not-modelled), [plan](#plan).

## Inventory

Paths are relative to `src/cairo_zero` unless they start with `src/`.

| Component | State | Operations | Talks to |
|---|---|---|---|
| Base fee (`kakarot/library.cairo`, `backend/starknet.cairo`) | `Kakarot_base_fee`: two entries `(fee, first block)` | `set_base_fee` (owner), `get_base_fee` (every transaction; writes storage) | read by entry points and `get_env` |
| Transaction entry points (`kakarot/eth_rpc.cairo`) | none | `eth_send_transaction`, `eth_send_raw_unsigned_tx`, `eth_call`, `eth_estimate_gas` | accounts call them; they call `Interpreter.execute` and `Starknet.commit` |
| Interpreter (`kakarot/interpreter.cairo`, `evm.cairo`, `model.cairo`) | the chain of contexts through `message.parent`, each with gas, stack, memory, return data | `execute`, `run`, `exec_opcode` | opcodes, precompiles, journaled state |
| System and logging opcodes (`kakarot/instructions/system_operations.cairo`, ...) | none | CALL family, CREATE and CREATE2, SELFDESTRUCT, RETURN, REVERT, LOG, SSTORE; `finalize_parent` of calls and of creations | open and close contexts, change the journaled state |
| Journaled state (`kakarot/state.cairo`, `account.cairo`) | accounts read so far, recorded transfers, queued events | `get_account`, `update_account`, `add_transfer`, `copy`, `finalize` | reads account contracts and the native token lazily |
| Cairo precompiles (`kakarot/precompiles/`) | none in the EVM; whatever the called contracts keep | 0x75001 (whitelisted callers), 0x75003 (batch), 0x75004 (call by anyone) | `execute_starknet_call` of the caller's account contract |
| Ethereum precompiles | none | 0x01-0x0a, 0x100 | pure |
| Commit (`backend/starknet.cairo`) | none | `_commit_accounts`, `_emit_events`, `_transfer_eth` | deploys and writes account contracts, emits events, `transferFrom` of the native token |
| Account contracts (`kakarot/accounts/`) | nonce, bytecode, storage, code hash, jump destinations, authorizations | `initialize`, `set_nonce`, `write_storage`, `execute_from_outside`, `execute_starknet_call` | Kakarot, any relayer |
| Administration (`kakarot/kakarot.cairo`, `library.cairo`) | owner, paused flag, class hashes, whitelist, address registry | setters, `register_account`, `upgrade` | owner, accounts |
| Gas (`kakarot/gas.cairo`) | none | costs, memory expansion, 63/64 rule | opcodes |
| Stack, memory, arithmetic, hashing opcodes, utilities (RLP, transaction decoding) | local | pure | opcodes, entry points |
| `src/cairo/kakarot-ssj` | a second EVM, in Cairo 1 | only `cairo1_helpers` is used by the contracts here | - |
| Compilation and declaration (`compile_kakarot.py`, `utils/starknet.py`, `deployment/declarations.py`, `Makefile`) | `build/`, `class_hashes.json`, `declarations.json` | `make build`, `make declare` | compilers, node |
| Deployment scripts (`deployment/*.py`) | `deployments.json`, `kakarot_deployments.json`, the queue of the lazy account | `make deploy` and six scripts that are run alone | node, Kakarot, relayers |
| Transaction client (`utils/starknet.py`, `utils/kakarot.py`) | the next nonce of each account, per process | `get_nonce`, `execute_v1`, `invoke`, `eth_send_transaction`, the multisig API | node, Argent API |
| Relayer pool and funding (`utils/starknet.py`, `utils/kakarot.py`) | cached relayers, the mark and the queue of a lazy account | `RelayerPool`, `fund_address`, `deploy_starknet_account`, `deploy_and_fund_evm_address` | node |
| Account withdrawal, L1 client, startup constants, fee balancer, Solidity libraries | - | - | around the system |

Paths of the scripts are relative to `src/kakarot_scripts`.

**Hard behaviours and the properties that make each component correct.**

* *Base fee.* The owner's writes and everybody's reads, which write too, interleave
  in any order within and between blocks. The fee set in a block must be the one of
  later blocks, never of an earlier one, and reading it must not change it.
* *Journaled state and commit.* Balances move in the cache at once and in the token
  at the very end, in several calls, each of which may fail. The recorded transfers
  must explain the cached balances in every state a failure may go back to; none of
  the commit's transfers may fail; accounts that a transaction creates and destroys
  must leave nothing.
* *Interpreter and opcodes.* Contexts fail independently, at any depth, by three
  ways out (RETURN of code that cannot be deployed included). A failed transaction
  must leave the nonce, the fee and nothing else; static contexts must pass the
  restriction on to all they call.
* *Cairo precompiles.* Their effects cannot be undone by the EVM. Each context keeps
  a record of whether Cairo was called (`cairo_precompile_called`), inherited,
  overwritten and added up as contexts open and close; a failure with a record must
  revert the Starknet transaction.
* *Gas.* Frames charge, hand gas to their callees and take it back with a stipend on
  top, a rule of 63/64, three ways to end, and a refund counter that may go down. No gas
  may be created, and the sender must be charged between four fifths of what was
  required and the limit.
* *Accounts and administration.* Deployment by anyone, initialization once,
  registration at the computed address, replay of nonces and authorizations. Not modelled.
* *Compilation and declaration.* Two programs that share files: one may be interrupted,
  or a source edited, while the other reads. A name must stand for the class that was
  built and that the chain knows.
* *Deployment.* What the files say must be so on the chain, wherever a run was killed;
  a deployment that is run again must repair what the last one left; fees must never go to
  the zero address.
* *Transaction client.* Nonces are read, compared, cached and given back around
  awaits, by several processes: no gap may keep transactions from being included, and
  a client must recover from stale answers by itself.
* *Relayer pool.* A creation is cut short by any failure and begun again: relayers must be
  deployed and approved in the end, and not be funded twice.

`PROJECT.json` lists the hazards line by line with the properties that cover them, and
says of the others why nothing does.

## Modules

| Module | Models |
|---|---|
| `BaseFee` | `set_base_fee`, `get_base_fee`, the passage of blocks |
| `BaseFeeProofs` | theorems about it |
| `EvmState` | `state.cairo` and `account.cairo`: operators that take a state and return one, as the Cairo functions rebind their implicit argument `state` |
| `Interpreter` | transactions, contexts, opcodes, precompiles, commit; Cairo properties and liveness |
| `InterpreterProperties` | the properties that need sums over transfers, and the refinement mapping |
| `AtomicTx` | the abstract specification: what Kakarot promises of a transaction |
| `InterpreterProofs` | theorems about `Interpreter`: types, the record of Cairo calls, static contexts, balances and transfers; it implements `AtomicTx`; accounts that vanish leave nothing |
| `MCInterpreter` | the small instance for TLC; each `MCInterpreter_*.cfg` is one question |
| `FrameGas` | gas and refunds of the frames of a transaction, and what its sender is charged |
| `FrameGasProofs` | theorems about it |
| `Artifacts` | compilation and declaration, over the files they share |
| `ArtifactsProofs` | theorems about it |
| `Deployment` | the deployment scripts over their files and the chain |
| `DeploymentProofs` | theorems about it: what the files and the chain agree on |
| `RunProofs` | that no run of a script raises |
| `TxClient` | the nonces of the Starknet and of the EVM account, and the sending of transactions |
| `TxClientProofs` | theorems about it |
| `RelayerPool` | creation of the pool, funding, withdrawal |
| `RelayerPoolProofs` | theorems about it |
| `MCFrameGas`, `MCArtifacts`, `MCDeployment`, `MCTxClient`, `MCRelayerPool` | their small instances |

### BaseFee

`current_block` and `next_block` are the two entries of the storage variable, `block`
is `get_block_number()`. `SetBaseFee` and `GetBaseFee` are the two functions (a call of
`get_base_fee` that promotes nothing changes nothing, and is the guard's negation);
`NewBlock` is Starknet's. `in_force`, `last_set` and `set_this_block` are history
variables: what a reader of the code expects the fee to be, kept apart from how it is
stored.

### EvmState

`Chain` is what Starknet stores: balances of the native token, nonce, code and storage of
account contracts, which accounts are registered, and two counters, the events emitted
and the effects that Cairo contracts were asked to have. `State` is the
journaled state: `accounts` and `cached` are the accounts dictionary and its keys,
`transfers` and `events` the two lists. `AccountOf` is the value `get_account` returns,
`CacheAccount` the state it leaves; `AddTransfer` moves cached balances and records the
transfer. An account's code is a Boolean, its storage one slot, the events a number: no
property here tells more apart.

### Interpreter

The program is any program: each running context may take any opcode next and may
halt exceptionally at any time, which is what running out of gas, a bad jump, a stack
underflow and an invalid opcode amount to.

| Code | Model |
|---|---|
| `message.parent` pointers | `frames`, the root first; `Top` is the running context |
| implicit argument `state` | `state`; a caller's state is `parent_state` of the context it opened |
| `Starknet` storage, and the rollback of a failed Starknet transaction | `chain`, `base`; `Abort` is any failed Cairo assertion |
| `eth_send_transaction`, `execute` up to `run` | `SendTransaction` (`RejectTransaction`, `EnterRoot`) |
| `exec_call`, `exec_callcode`, `exec_delegatecall`, `exec_staticcall`, `generic_call` | `ExecCall`, `ExecCallcode`, `ExecDelegatecall`, `ExecStaticcall`, `ChildFrame` |
| `exec_create`, `exec_selfdestruct`, `exec_sstore`, `exec_log` | `ExecCreate`, `ExecSelfdestruct`, `ExecSstore`, `ExecLog` |
| STOP, RETURN, REVERT, errors | `ExecReturn`, `ExecRevert`, `ExceptionalHalt` |
| `exec_precompile`, `is_call_authorized`, `cairo_call_precompile`, `execute_multiple_cairo_calls` | `EthPrecompile`, `CairoPrecompileRefuses`, `CairoPrecompileExecutes`, `CairoBatchFails`, `CairoCallPanics` |
| `CallHelper.finalize_parent`, `CreateHelper.finalize_parent` | `FinalizeCall`, `FinalizeCreate` |
| the end of `execute` (fee, refunds of the reservation) | `FinalizeRoot`, `PayFee`, `PayFeeAfterRevert` |
| `_commit_accounts`, `_emit_events`, `_transfer_eth` | `CommitAccount`, `EmitEvents`, `TransferEth`, `Commit` |

The commit takes one step per account and per transfer, since each is a call of
another contract that may fail. Accounts are committed in an arbitrary but fixed order
(they are written to distinct contracts). `cairo_before` and `leaked_before` of a
frame, `tx.leaked` and `tx.wrapped` are history variables: how many Cairo effects there
were when a context was entered, how many effects were made by batches that failed
afterwards, and whether a sum of records exceeded the field.

Abstractions: the Ethereum precompiles succeed or fail; the input of a Cairo
precompile is well-formed or not; the fee of a transaction is any amount from 1 to the
largest (a gas price of zero is not modelled, and adds no transfer); CREATE, CREATE2 and
deploy transactions choose their address among `CreateTargets`, so that an address may
collide or be used again, as with CREATE2; an SSTORE writes the one slot.

### AtomicTx

An EVM transaction begins (`Begin`) and ends in one step, which the status on its receipt
names: `Reject` (accounts may have been deployed, nothing else), `Fail(origin)` (the nonce
and a fee), `Succeed(origin)` (within limits: the token is conserved, nobody without code
who did not send the transaction loses any, nonces count up and those of other senders
stay, code is written once and with a nonce), or `Abort` (nothing at all). The
refinement mapping shows `base`, what Starknet would restore, while a transaction runs, and
`chain` when it has ended; the receipt is `tx`, "running" until then. The status matters:
a transaction that reports a revert may not leave what only a success may.

### FrameGas

`frames` is the chain of contexts, the root first; of a context it keeps the gas left, the
refund counter, whether it is static or a creation, how it ended, and the value of one
storage slot as this context sees it. The counter is a sum over slots, and no slot bears
on another, so that one stands for all.

| Code | Model |
|---|---|
| `charge_gas` | `Charge`; `Other` is any opcode that only charges |
| `exec_sstore` | `Sstore`, with `ChangeCost` and `SlotRefund` |
| `compute_message_call_gas`, and the 63/64 rule of `exec_create` | `AllButOne64th`, `MessageCallGas` |
| `exec_call` and the other three, `generic_call` | `Call`, with `ExtraGas` |
| `exec_create` | `Create` |
| the two `finalize_parent` | `FinalizeCall`, `FinalizeCreate` |
| `execute`: intrinsic gas, and the charge in the end | `Execute`, `Settle`, `Capped` |

`below`, `before`, `paid` and `kept` of a frame are history: the gas and the counters of the
frames under it, what the writes that stand have cost beyond access, and what creations
that reverted have left in the counter.

### Artifacts

One compilation and one declaration run at a time, each killed at any step. `build` is the
directory of artifacts, `hashes` is `class_hashes.json` (emptied when it is opened, written
a step later), `declarations` the file of that name. `CompileCairoZeroContract` and
`CompileScarbPackage` are the two pools of `compile_kakarot.py`; `Artifact` is
`get_artifact`, which takes the first file its glob matches. `Declare` and `WaitDeclared`
are `declare`, in two steps around its await. A class hash is the contract and the version
of its source. What `get_artifact` takes from `build/ssj` instead (`Cairo1Helpers` and its
fixture, from an archive that is downloaded once) never changes, and is left out.
`world.make` is a declaration that make runs after a compilation that succeeded; without it
either is run whenever somebody likes.

### Deployment

A script is a process that runs a list of steps, `proc.todo`, each of a kind and for one
contract or account; a step that decides to deploy something puts the steps of that
deployment in front. `Main`, `StarknetMain` and so on are
the main functions. While the deployer is lazy, `Invoke` appends to `proc.queue`, and
`Execute` sends the queue as one transaction: `Executed` makes its calls one after the
other, or none if one of them is refused.
Steps of relayers act on the chain at once. `Crash` ends a process at any step and loses its
queue; `ResetChain` is a development network that is started again over the same files;
`Build` compiles new classes. A call carries the classes that were declared when it was
queued. Fixtures that are treated alike are one name (see the head of the module).
`Upgrade` leaves out `initialize_chain_id` (`kakarot_deployment.py:57`), which is for instances
older than this source: the constructor sets the chain id.

### TxClient

`call[p]` is what the process `p` is doing: the steps are the awaits of `get_nonce`,
`execute_v1` and `send_starknet_transaction`. `cache` is `_nonces` of both modules.
`TakeNonce` is the end of the polling loop; `Wait` and `Receipt` give nonces back as the
code does, the one after a rejection, the other after a revert. A rejected transaction has
no receipt, so that `Receipt` raises and the EVM nonce stays taken. `Propose` and `Poll` are
the path of a multisig. Any request may raise: the readings before a transaction
(`ReadRaises`), the sending of it, whether the node has it (`Accepted`) or not
(`Refused`), and the API (`NotFound`). Nodes answer with a nonce that may be `lag` behind
(`Readings`), include, revert and drop transactions (`Include`, `Reject`); owners sign or
decline. `result` says what a call has learnt of its transaction when it ends.
`quiet` is a history variable: the call began with nothing on its way and was alone since.
A process makes one call at a time, as the scripts and the tests do.

### RelayerPool

One process, a script or a session of tests, whose steps are the awaits of
`RelayerPool.create`, `get`, `withdraw_all` and `deploy_and_fund_evm_address`. `lazy` and
`queue` are the module globals `_lazy_execute` and `_logs` of the main account, `pool` says
whether the relayers are cached. `Executes` is what may become of a multicall: done, reverted
(which is logged only), or late. `RequestRaises` is a reading, or a request of a relayer, that
raises; `ExecuteCalls` and `DeployRelayer` say what is left when their own requests do. `Raise`
is an exception that reaches the top: it ends a script, while a session keeps its memory.
`DeployAndFundEvmAddress` keeps the units as the code has them: a balance in wei is compared
with an amount in ETH. A deployment that is included after the wait for it has no action of
its own: it leaves what a deployment in time and a kill leave.

## What the runs check

| Run | Checks | Shows |
|---|---|---|
| `base_fee` | `LastFeeInForce`, `NoEarlyFee`, `ReadingIsStable` | any interleaving of sets, reads and blocks |
| `base_fee_one_fee` | `OneFeePerBlock` (violated) | one set in a block, after a read that promoted and zeroed the entry, changes the fee of that block to 0 |
| `cairo_record` | `TypeOK`, `EffectsOnRecord`, `NoOrphanCairoEffect`, `FailedContextsLeaveNoCairoEffect` | contexts that call, delegate to and create one another and reach all three Cairo precompiles and an Ethereum one, with batches |
| `contexts` | `StaticContextsChangeNothing`, `LedgerMatches`, `CommitNeverFails`, `VanishedAccountsLeaveNothing`, `TransactionsEnd` | all eight opcodes in contexts four deep, static ones too, with transfers to oneself and to the coinbase, and liveness under `FairSpec` |
| `atomic` | `TransactionsAreAtomic` | the refinement of `AtomicTx`: two transactions in a row, two senders, access lists, the nonce limit, and Cairo calls that move the native token of their caller, so that the cached balance is stale and the commit may fail |
| `cairo_batch`, `cairo_field` | `RevertUndoesCairoCalls` (violated) | see [divergences](#divergences-from-the-comments) |
| `gas` | `TypeOK`, `RefundIsEarned`, `ChargeWithinLimit`, `GasIsNeverCreated` | gas and refunds through calls, creations, writes, stipends and failures, three frames deep |
| `artifacts` | `TypeOK`, `DeclarationsAreOnChain`, `MakeDeclaresSources` | builds and declarations that are interrupted, edited sources, sources that do not compile, an ambiguous glob |
| `deployment` | `TypeOK`, `CoinbaseNeverZero`, `CoinbaseIsKnown`, `RecordedEvmIsDeployed`, `RecordedTokenIsAuthorized`, `RunsNeverRaise`, `DeploymentConverges` | every script in every order on three kinds of network: killed at any step, with a chain that is reset, new builds, or multicalls that revert |
| `client` | `TypeOK`, `NoNonceGap`, `QuietCallIsFresh`, `InSync`, `CallsEnd` | one process alone, two that share the accounts, a node that lags, the owners of a multisig; transactions that are reverted, dropped or declined, requests that raise, answers that are lost |
| `pool` | `TypeOK`, `PoolIsDeployed`, `NoOverFunding`, `NotLeftLazy`, `PoolCompletes` | creations that are cut short by every failure and begun again, in a script and in a session, whose requests may raise or not |

`TypeOK` earns its place in each run: in `cairo_record` it fails if the cached balance of
a sender wraps around when the largest fee is subtracted without a check, in `gas` if gas
is charged that a frame does not have, in `client` if the retries are not counted.
`CommitNeverFails` is checked where Cairo calls do not move the native token; where they
do it is false, and `atomic` shows that atomicity does not depend on it.
`TransactionsAreAtomic` is checked with batches of one call: longer ones are the divergence
`cairo_batch` shows. `StaticContextsChangeNothing` is about the state of the EVM. A static
context may call a Cairo precompile (no `read_only` check stands before `exec_precompile`),
whose effects are outside that state.

Several properties of the scripts say in their first line under which circumstances they
are asked, because the code does not promise them otherwise, and the other circumstances
are in the same run:

* `QuietCallIsFresh` and `InSync` need a node that answers with the present nonce, and are
  about calls that began with nothing on its way and were alone. `InSync` leaves out no way
  of ending: it says of each nonce the call took whether the cache is now that of the chain or
  one ahead. Ahead stay the EVM nonce of a rejected transaction, both nonces of a request that
  raised or an answer that was lost (unless the transaction is included all the same), and
  the Starknet nonce of a proposal that was declined; `QuietCallIsFresh` is how the next call
  gets over it, after its retries.
* `DeploymentConverges` is asked of runs that do not start from an instance which is recorded
  and was never deployed (`InstanceLost`), and without reverts. Such a record is what a run
  leaves that is killed between `dump_deployments` (`kakarot_deployment.py:90`) and
  `execute_calls` (`:104`); on staging and production every later run then raises at `:41`, and
  somebody has to edit the file. A development network deploys another instance.
* `RecordedEvmIsDeployed` and `RecordedTokenIsAuthorized` need transactions that are not
  reverted for reasons of their own: a revert is logged, and the address is noted all the
  same. `RunsNeverRaise` is asked of development networks: elsewhere `get_class_hash_at`
  raises for a recorded instance that was never deployed. It excuses a run when a class that
  `declarations.json` names is missing on the chain, which takes a chain that was restarted
  and a `make deploy` that was killed among its declarations: the scripts that are run
  alone ask for the class of Kakarot only (`kakarot_deployment.py:94`).
* `NoOverFunding` needs transfers that are in time: a late one is not seen by the next
  creation and is made twice. `NotLeftLazy` leaves out exceptions of the funding itself,
  which do leave the account lazy.
* `DeclarationsAreOnChain` needs declarations that make runs: run alone after an interrupted
  build, `declare` sends the class it finds and returns the hash of the file.

Every property of a passing run has a mutant of the code, next to the definition it
changes, which violates it. Mutants are not part of the specification.

## Bounds

Each bound is a constant; a configuration names its value.

| Constant | Stands for | Values | Why enough |
|---|---|---|---|
| `Addr` | 2^160 addresses | 10 | one of each role: two senders, a contract, an address to create at, coinbase, burn address, three Cairo precompiles, one Ethereum precompile |
| `MaxUint` | 2^256 - 1 | 20 | above the sum of all balances, as in reality; the overflow guard of `add_transfer` is not reachable either way |
| `Values`, `GenesisBalance` | amounts | 0 and 1; 5 and 1 | the balance suffices, exactly suffices and does not suffice, in one transaction |
| `MaxFee` | gas limit times gas price | 2 | the fee is less than the reservation, or all of it |
| `MaxNonce` | 2^64 - 1 | 10; 2 in `atomic` | 2 makes the sender reach the limit |
| `MaxDepth` | 1024 | 2; 3 in `contexts`; 1 in `atomic` | a context, one it opens and one that fails below both; a depth that is exceeded |
| `MaxSteps` | the gas limit | 2 to 5 opcodes that are not final | with ends and precompiles, a dozen steps per transaction |
| `MaxBatch` | calls in a batch | 1; 2 | 2 has a first and a last call |
| `MaxTxs` | transactions | 1; 2 in `atomic` | a second transaction starts from what the first committed |
| `FieldPrime` | the prime of felts | 65521; 3 in `cairo_field` | out of reach of five calls, or reached by two |
| `Callees`, `Opcodes`, `AccessLists` | what programs name | per run | the opcodes that the run's properties are about |
| `MaxBlock`, `Fee` (`BaseFee`) | - | 5, 3 fees | an entry is set, waits, is promoted, is overwritten, in different blocks |
| `Word`, `GasLimits`, `Intrinsic` (`FrameGas`) | words of a slot, limits, 21000 and data | 0..2; 20999 and 100000; 21000 | the original value, zero and another one; a limit under the intrinsic cost and one for several writes |
| `Costs`, `GasParams`, `Sizes` | other opcodes, gas operands, code lengths | 0 and 90000; 0 and 1000000; 0 and 400 | nothing and nearly all; none and more than 63/64; a code that can and one that cannot be paid for |
| `MaxDepth`, `MaxSteps` (`FrameGas`) | 1024, the gas limit | 2, 3 | three frames, a depth that is exceeded; two writes and what stands between them |
| `MaxEdits` (`Artifacts`) | edits of the sources | 1 | a source that changes during, between or after the two programs |
| `Contracts` | `DECLARED_CONTRACTS` | 3 | two of Cairo 0, one of whose globs matches both, and one of the Scarb package |
| `runs`, `crashes`, `builds` (`Deployment`) | - | 2 to 4, 1 or 2, 2 | a run that is killed, one after it, and one that repairs both; with a chain that is restarted, one more before; old and new classes |
| `PreEip155` | `PRE_EIP155_TX` | 1 | each is handled by itself, in a loop |
| `txs`, `lag` (`TxClient`) | transactions, delay of answers | 4 for one process, 2 for two or for a multisig; 0 and 1 | a transaction before, during and after the call that a property is about; with two processes, one of each |
| `Retries` | 10 | 1 | a reading that disagrees and is repeated, and one that is not |
| `N`, `Amount`, `Eth` (`RelayerPool`) | relayers, funds of each, 10^18 | 2, 1, 2 | a first and a last relayer; wei and ETH are told apart |
| `failures`, `funds`, `dust` | failures and kills, balances | 2 or 3; 3 to 18; 0 to 2 | funds that suffice in spite of the failures, and funds that do not |
| `queued` | transfers in the queue when an EVM address is funded | 0; 2 where a session keeps its queue | a session that stays lazy adds to its queue at each call; two are left by one funding and added to by the next |

The circumstances of a run of the scripts (network, faults, bounds) are a record, `world`,
which `Init` chooses from `Worlds` and no action changes but for its counters: one run has
all of them, and a property can say which it is asked of.

The largest runs (`atomic`, `contexts`, `deployment`) have up to about one and a half million
distinct states and end within a few minutes. `Init` leaves accounts and fees as after
deployment. No symmetry is used: every address has a role, and liveness is checked.

## Fairness

`FairSpec` is `Spec /\ WF_vars(Proceed)`: a Starknet sequencer that has started a
transaction executes it to its end; it never abandons one half-way. No fairness is
assumed of users (`Send`), nor of single actions of the program (a program need not
ever return). `TransactionsEnd` therefore rests on the gas limit (`MaxSteps`), on
`finalize_parent` removing a context each time, and on the commit's loops.

`FairSpec` of `Deployment` is weak fairness of `Run`: a script that runs goes on. Nobody has
to start one again, and `DeploymentConverges` therefore speaks of the runs that were
started: each ends, and unless it was killed it ends with everything in place.

`FairSpec` of `TxClient` has weak fairness of each process, whose loops are bounded, and,
for a multisig only, of the environment: `Poll` asks the API with no limit, so a call of a
multisig ends because its owners decide and the node settles what they signed.
Everywhere else calls end whatever the node does (`Wait` gives up). No call is relied upon
to raise: `Raises` is in no fairness condition.

`FairSpec` of `RelayerPool` has weak fairness of the steps of a run and of the inclusion of
what is late, and strong fairness of `Get` and `End`: a script that needs the pool is run
again, whatever else is run in between. Failures are bounded, so the last runs have none.

## What is proved

TLAPS checks these for every value of the constants that satisfies the named
assumptions (`FeeAssumption`, `MaxBlockAssumption`; `WordAssumption`,
`MaxUintAssumption`, `AddressAssumption`, `AmountAssumption`, `LimitAssumption`;
`AmountsAssumption` of `FrameGas`; `RetriesAssumption` and `WorldsAssumption` of
`TxClient`; `ContractsAssumption`, `PatternAssumption` and `WorldsAssumption` of
`Artifacts`; `BoundsAssumption` of `RelayerPool`;
`PreEip155Assumption` and `WorldsAssumption` of `Deployment`): any number of addresses, amounts,
depth, steps, batches, transactions, clients, contracts and relayers. The assumptions say that constants have the types the code gives them, that
precompiles are not accounts, that senders are not contracts and that there is a sender.

`BaseFeeProofs`: `LastFeeAlwaysInForce`, `NoFeeAppliesEarly`, `ReadsAreStable`. The
inductive invariant says where the fee in force is stored before the owner's call in a
block (`BeforeSet`: in the entry that a read would return, promoted or not) and after it
(`AfterSet`: in `current_block`, unless it has been lost).

`InterpreterProofs`: `TypeCorrect`, `CairoEffectsOnRecord`, `RevertedLeavesNoCairoEffect`,
`FailedContextsAreClean`, all from `InterpreterInvariant`. The property that matters,
`EffectsOnRecord`, says that whatever was done by Cairo contracts since a context was
entered is on the record of that context or of one above it. It is not inductive:
each precompile overwrites the record its context inherited, an Ethereum precompile
with zero. Nothing is lost because the caller still holds the same record, which takes
two more facts: a context without code that is running has made no Cairo call itself and
has the record of its caller (`InheritedOnly`), and only contexts with code have opened
others (`CallersHaveCode`). `RootSawBase` and `FramesWhileRunning` connect
the root context to what Starknet would restore, so that `NoOrphanCairoEffect`
follows when a transaction is settled as reverted. The proof has a lemma per action; the
eight opcodes share one (`ContextStepPreserves`), since all that matters is that each
keeps the contexts, stops the top one, or opens one with the caller's record.

`TypeCorrect` contains one arithmetic fact: no balance, cached or of the token,
becomes negative. It rests on the check of `eth_send_raw_unsigned_tx` for the reservation
of the fee, and on the guards of `add_transfer` and of `transferFrom`.

Its second part: `StaticContextsLeaveNoTrace`, which assumes `~CairoMovesNative`. The
property speaks of every static context on the stack, a step changes the top one and its
caller. `StaticBelow` (what a static context calls is static) carries the claim from one to the
other when a call ends, `NoStaticCreation` excludes the end of a creation, which writes code
without looking at the flag. An account that is not cached shows what Starknet stores, so a
Cairo call that registers an account while static contexts wait must show nothing new:
the storage of an account that is not registered is empty (`UnregisteredEmpty`). The
assumption is needed: a precompile does not look at `read_only`, and a Cairo call that moves
the native token changes the balance that an account not cached shows.

Its third part: `LedgerAlwaysMatches`, `CommitsNeverFail`, both from `LedgerInvariant`, which
assumes `~CairoMovesNative`. `LedgerMatches` compares the sum of a list of transfers with
balances that were changed one by one; it says nothing of the order, and the commit makes
the transfers one after the other. The invariant (`Good`) says of a state that its transfers
can be made in their order (`Payable`), that they lead to its balances, and that the
accounts they name are cached and no precompiles, so that `_commit_accounts` deploys every
sender; it holds of the present state, of each state a context below would restore, and,
with the reserved fee counted apart (`Reserved`), from the reservation to the settlement. A
transfer that is added was affordable in the cache, hence is at the end of the list
(`PayableAppend`); one that is made by the commit leaves the rest as it was to be
(`PayableTail`). The assumption is needed for the reason given above: a Cairo call may spend
what the cache has promised.

Its fourth part: `AtomicTransactions`, that `Interpreter` implements `AtomicTx`. Until a
transaction ends, the abstract ledger is `base`, what Starknet would restore, and nothing
moves; at its last step the whole of `chain` has to be one step of `AtomicTx` away from it.
The invariant (`AInv`) says all along what `chain` and the states may differ in from `base`.
In the execution a state is `Sound`: each account in it is `Lawful` (its nonce counts up, a
sender's by its own transactions, code comes with a creation and with a nonce, a slot is
written to an account with a nonce), only those make transfers who have code, were created or
sent the transaction (`SpendersOnly`), and the sender has lost no more than the fee
and the value (`Solvent`). SSTORE does not look at the nonce: that a context with code has
an account with one is a claim about the state in which the context will go on, the present
one or one that a failing callee gives back (`Born`, `Contexts`). In the commit, the accounts
that were written are lawful as Starknet stores them, those that were not reached are as
they were, and the transfers still to be made are by spenders; after a failure all that is
left to write is a nonce, and all that moves is the fee (`FailureInv`). The sum of
all balances is conserved (`SumMoved`), from which it follows that the fee can be paid after
a revert: the coinbase cannot overflow. What the sender is left with comes from the ledger,
or, when Cairo calls may move its tokens, from the supply. The theorem assumes that there are
finitely many addresses and a largest value of messages (as for 160 and 256 bits), and that
the supply of the token fits in a `Uint256`, as the total supply that its contract keeps does (`SupplyFits`).
`Tame` leaves out the behaviours with one of the two exceptions that the runs `cairo_batch` and
`cairo_field` show: a reverted transaction may then leave a Cairo effect, and is not atomic.

The same invariant says what an account was that a transaction created: neither code nor a
nonce, hence no slot. `VanishedLeaveNothing` adds that it leaves nothing when it is destroyed
as well. `VInv` says of the commit that a vanished account which it has passed is empty
in the state and as before in storage (`Burnt`); that it can be emptied at all rests on
the supply, for its balance and that of the burn address fit in a `Uint256` together
(`BurnPossible`), and then what is proved of the ledger carries the empty balance over to
Starknet. It takes two hypotheses more: Cairo calls do not move the native token, for one that
does can leave a vanished account with what the commit does not know of, and no creation
computes the burn address, whose balance the commit raises while it burns that of another.
A hash would have to be found for the second to fail; the code does not test it.

`FrameGasProofs`: `TypeCorrect`, `RefundIsEarnedHolds`, `ChargeWithinLimitHolds`,
`GasIsNeverCreatedHolds`. The first idea, that the counter equals what the writes cost less
what the slot is worth, is not enough for the charge, since the counter may be negative in a
frame. The invariant adds that a frame whose slot has changed has paid at least `Least` for
it, which is never less than `Worth`: so the counter of the root, under which there is
nothing, is not negative, apart from what creations that reverted left in it (`kept`).
`Linked` says that the history fields of a frame are those of the frames under it, and
`Waiting` that only the last frame may have stopped, so that a parent which goes on is still
what the invariant said of it. That gas is never created rests on one inequality of
constants: the stipend of 2300 is less than the 9000 charged for a transfer. The three
ways in which the stack of frames changes have a lemma each (`BecomesInv`, `StartsInv`,
`ResumesInv`), and the opcodes show that they meet their hypotheses.

`TxClientProofs`: `TypeCorrect`, `NoNonceGapHolds`, `QuietCallIsFreshHolds`, `InSyncHolds`. The chain
never goes
back, so a nonce that was read is a nonce the account has reached when it is used
(`CallReached`). That the caches stay natural numbers takes a fact about what is given
back (`Taken`): until a call has its answer, the cache is one more than the nonce it took.
`QuietCallIsFresh` needs a second invariant (`QInv`): while a quiet call prepares its
transaction nothing is on its way and no other call goes on, so that the nonces it has taken
stay those of the chain. `InSyncHolds` continues it to the end of the call (`SInv`): its
transaction is then the only one on its way (`Only`), the chain is where that transaction's
nonces and status put it (`Settlement`), whatever the call knows of it, and the caches are what
the call took and gave back (`Holds`), which it does for an answer that is true (`Learnt`). A
call that raised before it sent anything has changed nothing but its caches (`Unsent`).

`ArtifactsProofs`: `TypeCorrect`, `DeclarationsAreOnChainHolds`, `MakeDeclaresSourcesHolds`.
From the end of a successful compilation until the next one begins, class_hashes.json holds
the hashes of the artifacts (`Built`), and a declaration by make runs at no other time
(`Declaring`). Versions of sources only grow, so an artifact compiled during a build
whose sources are still there lies between two equal numbers, and is the one that was
declared (`Compiling`, `Completed`).

`RelayerPoolProofs`: `TypeCorrect`, `PoolIsDeployedHolds`, `NoOverFundingHolds`,
`NotLeftLazyHolds`. The loop
that deploys relayers may leave one undeployed; the loop that asks each for its key raises
then. The invariant says how far that loop has come (`Answered`). `TypeCorrect` says that a
multicall, all of whose transfers are made or none, never takes more than there is
(`BalancesType`). `NoOverFundingHolds` assumes that the relayers begin with no more than they
are to have. A queue counts for nothing until it is sent, and by then the balances that the
amounts were computed from may have changed; the invariant therefore says that a queue pays
each relayer once, no more than it lacks (`Sparing`), of which relayers it may speak yet
(`Funding`), and what becomes of the queue that a funding which raised leaves in the memory
of a session: the main account stays lazy, no balance moves, and the next creation raises
where the last one did (`Stuck`), so that it is never sent. `NotLeftLazyHolds` is about a main
account that has enough for all (`Solvent`) and requests that do not raise: no funding raises
either, since what a relayer lacks is in the main account. All balances together stay what
they were at the start (`Totals`, by induction on the accounts and on the calls), and what
everyone but the main account has is bounded: it is what it began with, the amount once, and
the amount again for each funding that came late, of which there are no more than failures,
counting those still to come (`Book`, `Share`).

`DeploymentProofs`: `TypeCorrect`, `CoinbaseNeverZeroHolds`, `RecordedEvmIsDeployedHolds`,
`RecordedTokenIsAuthorizedHolds`, `CoinbaseIsKnownHolds`. A script is a list of steps, so
what holds of a run is what is still to be done after each step. `TypeCorrect` needs that
the steps which use a recorded address or a new contract stand behind those which provide
it (`Gate`, `Behind`), in every program and in every list that a step puts in front.
`CoinbaseNeverZeroHolds` is a claim about the queue: each call that deploys an instance of
Kakarot is followed by one that sets the coinbase of that address to something else than
zero (`Provided`), and nothing separates the two, since a queue is sent as a whole and
lost as a whole. What a transaction of many calls leads to is a recursive function; that
it gives a coinbase to all that it deploys is proved by induction on the calls
(`ProvidedExecuted`). The other claims are about the order of the steps: something that
holds now, or that a step still to come brings about, holds when the step that relies on
it is reached, unless one in between undoes it (`Settled`); it is proved for every program
once (`Flow`, part by part) and kept by each step, those that put steps in front included.
`RecordedEvmIsDeployedHolds` uses it for the transactions of PRE_EIP155_TX: when one is to
be sent or skipped, the process has found out which, for the instance of Kakarot that
stands (`SendersFirst`, `KnownStays`), and one that is skipped was sent before, so that it
created its contract (`Fruitful`). `RecordedTokenIsAuthorizedHolds` holds with restarts of
the chain too. The authorization stands right behind the deployment of the token, in
whatever list the loop puts in front (`TokenFollowed`), and the account is not lazy when
it is made (`PromptKept`), so that the call is sent before the file is written. A record
may outlive its instance when the chain is restarted; addresses are used once, and what
instantiates Kakarot is a queued call, so that the instance does not come back at that
address without its authorizations (`FInv`). `CoinbaseIsKnownHolds` follows a coinbase
from the file to the chain and back (`KInv`): whoever deploys or writes has loaded what
the file knows, so that the contract `Coinbase` is deployed again only where the deployer
is paid; the call that pays it instead is queued, since the account is lazy at that step,
and the steps that send the queue stand behind the one that writes the file, but for those
that stand before the deployment, when the queue pays the deployer alone (`Due` says what
each step finds). A run that is killed in between loses the call, never the record.

`RunProofs`: `RunsNeverRaiseHolds`, an action property. A step raises when something it
asks for is missing: an account that is not deployed, funded or listed, a token that is not
there, a transaction that was sent already. The proof is that of a sequential program. Facts
(`InForce`) stand between the steps; `Ready` says which a kind of step relies on, `Brings`
and `Loses` what it does to them, `Carried` that a list of steps leads from some facts to
others. That every program is carried from a fresh process is proved once, part by part
(`ProgramsCarried`), and so is every list that a step puts in its place (`InsertedCarried`).
The invariant (`RInv`) says that facts are in force from which the steps still to be done
are carried; each step keeps those it does not lose (`Stays`) and brings those it promises
(`Brought`). Two matters make this more than bookkeeping. First, most calls wait in the
queue, and a call that is refused reverts all of it, which is only logged: that an account
is funded once the queue is executed holds only if every call in the queue is accepted
behind those that stand before it (`Sound`, kept by `SoundKeeps`, used by `AllExecuted`). It
is why an account is deployed, by a relayer, before the queue that lists it is sent, and why
no class may be missing. Second, `CreatePool` sends the queue at any step that needs a
relayer, earlier than the script asks: facts speak of what is done or still queued (`paid`,
`listed`, `coming`), so that nothing depends on the moment. That the recorded address holds
Kakarot, if it holds anything, is an invariant of its own (`AInv`), since the files outlive
the chain. Facts about the accounts of PRE_EIP155_TX bind only while the process is to
send their transaction (`Wanted`).

**Induction over data.** The library's induction theorems take an operator as a parameter,
which no prover installed here can instantiate. What `InterpreterProofs`, `RelayerPoolProofs`,
`DeploymentProofs` and `RunProofs` need of lists, sums and the calls of a transaction is
proved without them: the models state loops as recursive
functions over a prefix of a list, the least number principle (`NatLessThanWellFounded`
and `WFMin` of `WellFoundedInduction`, whose parameters are sets) gives induction for a set of
numbers (`NatSet`), and with it that such a function exists and that what one step preserves
all of it preserves. The models nest `EXCEPT`s where a function is changed at two points: the
prover reads `@` in the second update as the value before the first.

**Only model-checked:** the liveness properties `TransactionsEnd`, `CallsEnd`,
`DeploymentConverges` and `PoolCompletes`: fairness, and `ENABLED` on which it rests, are
out of the prover's reach. Every other property of a passing run is a theorem.

## Divergences from the comments

1. *One base fee per block* (`base_fee_one_fee`). `library.cairo:152` says "There can
   only be one base fee for a given block." When `get_base_fee` has promoted the entry of
   'next_block' it zeroes it; the first `set_base_fee` of the block then copies that
   zero entry to `current_block`, and the transactions of the rest of the block see
   the fee 0. `NoEarlyFee` and `LastFeeInForce` state what does hold.
2. *Batches* (`cairo_batch`). `kakarot_precompiles.cairo:164` says "If any of the internal
   calls revert, the entire batch reverts", and `interpreter.cairo:97` "If it did revert,
   we're ensured no state changes were made in the cairo call". The calls of a batch
   are made one by one; one whose encoding is malformed ends the batch with an EVM
   exception and the record 0, after the calls before it have taken effect.
3. *The record as a felt* (`cairo_field`). `system_operations.cairo:1005` reverts the
   Starknet transaction "If a call to a cairo precompile has been made". The record is a
   felt that a child inherits and adds to its caller's, so that it may double with
   every call, and the sum may come back to zero. The run uses a field of three
   elements; with the real prime about 250 calls by contracts made for it would be needed.

The theorems state exactly these two exceptions (`tx.leaked`, `tx.wrapped`), and prove
that there is no other.

Seen while reading and modelling, and not claimed as divergences (the models have the
behaviour, and the properties above say what holds in spite of it):

* The comment of `get_base_fee` (`starknet.cairo:135`, `library.cairo:176`) returns and promotes
  the fee of 'next_block' "If the block_number of the existing "next_block" entry is greater
  or equal to the current block_number", so that a fee that was just set would apply at once.
  The code does so when it is less or equal (`starknet.cairo:145`) and a fee waits for its block,
  which is what `NoEarlyFee` and `LastFeeInForce` state: the comment has the comparison reversed.
* The comment on the nonce of new accounts (`account.cairo:151`) and
  `accounts/library.cairo` differ.
* A creation that ends in REVERT adds the child's refund to its caller's
  (`system_operations.cairo:1254`), unlike a call. The writes it refunds are undone, so the
  counter may be negative in the end and the charge exceed the limit:
  `ChargeWithinLimit` asks for `kept >= 0`.
* `deployments.json` is written before the queue is sent (`kakarot_deployment.py:90`), and a
  production instance is compared by the class of `kakarot` alone: a build that changes
  `account_contract` only is not deployed. On staging and production a run that is killed
  before the queue is sent makes every later one raise.
* `get_nonce` gives up after ten readings and takes the last one, whatever is in flight.
  When an owner declines a proposal no nonce is given back; nor is the EVM nonce of a
  transaction that the sequencer rejects (`kakarot.py:776` raises, only `:796` gives it back).
* `declare` sends the artifact and returns the hash that `class_hashes.json` holds;
  `get_artifact` takes the first file its glob matches, and `uninitialized_account` matches
  two.
* `deploy_and_fund_evm_address` compares a balance in wei with an amount in ETH, and asks
  `fund_address` for the difference of the two.
* An exception of `fund_address` or `execute_calls` in the creation of a pool leaves the
  main account lazy, with its queue, for the rest of a session.

## What is not modelled

* Several transactions at a time: Starknet executes them one after the other, and a Cairo call
  cannot run another one inside a transaction, which the `ReentrancyGuard` of
  `Kakarot.eth_call` (`library.cairo:102`) excludes.
* Gas and the rest of the interpreter together: in `Interpreter` any context may run out of
  gas at any time and the fee is any amount up to the limit, which is more than the code
  allows, so that the safety properties carry over; `FrameGas` has the gas and leaves
  what the programs compute open.
* Stack, memory, jumps, arithmetic, hashing, and the other opcodes that only compute
  or read; transient storage, warm slots; several storage slots.
* The checks of a transaction other than its balance; signatures, chain identifier.
* `eth_call` and `eth_estimate_gas`, which run the interpreter and do not commit.
* Account contracts as contracts (deployment, upgrade, `execute_from_outside`) and the
  administration of Kakarot.
* Ethereum precompiles (pure cryptography), RLP and transaction decoding.
* `kakarot-ssj`, of which only `cairo1_helpers` is used here, and the Solidity libraries.
* Of the scripts: the withdrawal of the coinbase's fees at the end of `main.py`, benchmark
  contracts and the mock oracle; `initialize_chain_id` in an upgrade; the branch of
  `fund_address` for a local devnet, which mints; the prebuilt artifacts of `build/ssj`;
  several calls of one process at a time; fees of Starknet transactions in `TxClient` (they are
  in `RelayerPool` only as a balance that must not be empty); the path of
  `eth_send_transaction` through an RPC node (`WEB3`); `withdraw_accounts.py`, a one-off
  operation that upgrades accounts to a class that pays out and back again, and leaves an
  account with that class when it is killed in between; `l1.py`, `constants.py`, the fee
  balancer, which keep no state of their own.

## Plan

In the order of what matters most; the rows marked "done" exist.

| Module | Content | Runs and theorems |
|---|---|---|
| `BaseFee`, `BaseFeeProofs` | done | done |
| `EvmState` | done | its lemmas are in `InterpreterProofs` |
| `Interpreter`, `AtomicTx`, `InterpreterProperties`, `MCInterpreter` | done | five runs |
| `InterpreterProofs` | types, the record of Cairo calls, static contexts; cached balances and recorded transfers agree; no transfer of the commit fails; the refinement of `AtomicTx`; accounts that vanish | done |
| `FrameGas`, `FrameGasProofs` | done | done |
| `Artifacts`, `ArtifactsProofs` | done | done |
| `RelayerPool`, `RelayerPoolProofs` | done | done |
| `Deployment`, `DeploymentProofs` | types; the coinbase is never zero; the order of the steps; what the file names is deployed, the token authorized, and the coinbase named | done |
| `RunProofs` | no run raises: the facts that each step relies on | done |
| `TxClient`, `TxClientProofs` | done | done |
| `EthSendRaw` | validation of transactions, nonces, pre-EIP-155 authorizations, `execute_from_outside` | no transaction runs twice by whatever entry point; abstract specification: a set of executed nonces |
| `AccountRegistry` | deployment, initialization, registration, ownership, pause, upgrade, with anyone deploying the uninitialized class | registered once, at the computed address; only the owner changes the configuration; theorem |
| `JumpDests` | the cache of valid jump destinations | cached answers equal the analysis of the code |
| `Memory` | word-aligned dictionary against an array of bytes | equality over all short sequences of reads and writes |
