---------------------------- MODULE Interpreter ----------------------------
(***************************************************************************)
(* The execution of EVM transactions by Kakarot, from eth_send_transaction  *)
(* to the last token transfer of the commit.                                *)
(*                                                                         *)
(*   execute, run          cairo_zero/kakarot/interpreter.cairo             *)
(*   CALL, CREATE, ...     cairo_zero/kakarot/instructions/                 *)
(*   commit                cairo_zero/backend/starknet.cairo                *)
(*                                                                         *)
(* The program is any program: each running context may take any opcode     *)
(* next, and may halt exceptionally at any time (out of gas, bad jump,      *)
(* stack underflow, invalid opcode).  The stack of contexts is the chain of *)
(* model.Message.parent pointers.  One Starknet transaction carries one EVM *)
(* transaction; a failed Cairo assertion reverts the whole of it.           *)
(***************************************************************************)
EXTENDS EvmState

CONSTANTS
  Eoa,                    \* accounts that send transactions; deployed, no code
  Contracts,              \* accounts that have code at the start
  CreateTargets,          \* addresses that CREATE, CREATE2 and deploy transactions compute
  Coinbase,               \* receives the fees
  BurnAddress,            \* 0xdead
  CairoCall,              \* 0x75004, callable by anyone, never by delegation
  CairoMulticall,         \* 0x75003, likewise, for a batch of calls
  CairoWhitelisted,       \* 0x75001, for whitelisted callers, by delegation too
  EthPrecompiles,         \* 0x01 to 0x0a and 0x100
  Whitelist,              \* Kakarot_authorized_cairo_precompiles_callers
  GenesisBalance,         \* initial balances, a function of Addr
  Values,                 \* the amounts messages carry
  MaxFee,                 \* gas limit times gas price
  MaxNonce,               \* 2^64 - 1 in the code
  MaxDepth,               \* STACK_MAX_DEPTH, 1024 in the code
  AccessLists,            \* the access lists of transactions, sets of addresses
  CairoMovesNative,       \* whether Cairo calls may move the native token of their caller
  FieldPrime,             \* arithmetic on felts is modulo this prime
  Callees,                \* bound: the addresses that transactions and programs name
  MaxBatch,               \* bound: calls in one multicall
  Opcodes,                \* bound: the opcodes that programs use
  MaxSteps,               \* bound: non-final opcodes per transaction (the gas limit)
  MaxTxs                  \* bound: transactions

CairoPrecompiles == {CairoCall, CairoMulticall, CairoWhitelisted}
Precompiles == CairoPrecompiles \cup EthPrecompiles

ASSUME AddressAssumption ==
  /\ Eoa \cup Contracts \cup CreateTargets \cup Precompiles \subseteq Addr
  /\ {Coinbase, BurnAddress} \subseteq Addr
  /\ Whitelist \subseteq Addr
  /\ Callees \subseteq Addr
  /\ AccessLists \subseteq SUBSET Addr
  /\ CairoPrecompiles \cap EthPrecompiles = {}
  /\ Precompiles \cap (Eoa \cup Contracts \cup CreateTargets) = {}
  /\ Eoa \cap (Contracts \cup CreateTargets) = {}
  /\ Eoa # {}
ASSUME AmountAssumption ==
  /\ GenesisBalance \in [Addr -> Nat]
  /\ Values \subseteq Nat
  /\ MaxFee \in Nat \ {0}
ASSUME LimitAssumption ==
  /\ MaxNonce \in Nat /\ MaxDepth \in Nat /\ MaxBatch \in Nat
  /\ FieldPrime \in Nat /\ FieldPrime > 1
  /\ CairoMovesNative \in BOOLEAN

VARIABLES
  chain,      \* what Starknet stores, with the writes of the present transaction
  base,       \* what Starknet restores if the present transaction panics
  phase,      \* "idle", "run", "accounts" (_commit_accounts) or "transfers" (_transfer_eth)
  tx,         \* the present or last EVM transaction
  frames,     \* the execution contexts, the root first
  state,      \* the state of the top context (implicit argument `state`)
  to_commit,  \* accounts that _commit_accounts has not reached
  steps,      \* opcodes executed by the present transaction
  txs         \* transactions sent

vars == <<chain, base, phase, tx, frames, state, to_commit, steps, txs>>

-----------------------------------------------------------------------------
(***************************************************************************)
(* Types.                                                                  *)
(***************************************************************************)
Status == {"running", "success", "REVERT", "EXCEPTIONAL_HALT"}
Reverted == {"REVERT", "EXCEPTIONAL_HALT"}

\* Return data matters only to the end of a creation: nothing, code that can
\* be deployed, or code that cannot (too long, 0xEF prefix, deposit not paid).
Output == {"none", "code", "invalid"}

Felt == 0..(FieldPrime - 1)

\* model.Message and model.EVM.
Frame ==
  [address : Addr, code_address : Addr, caller : Addr,
   has_code : BOOLEAN, read_only : BOOLEAN, is_create : BOOLEAN,
   cairo_precompile_called : Felt,
   status : Status, output : Output,
   parent_state : State,    \* message.parent.state
   cairo_before : Nat,      \* history: chain.cairo when the context was entered
   leaked_before : Nat]     \* history: tx.leaked when the context was entered

TxStatus == {"none", "running", "invalid", "success", "reverted", "aborted"}

Transaction ==
  [origin : Addr, status : TxStatus, fee : Nat,
   leaked : Nat,         \* history: Cairo calls made by batches that failed afterwards
   wrapped : BOOLEAN]    \* history: a record of Cairo calls exceeded the field

TypeOK ==
  /\ chain \in Chain
  /\ base \in Chain
  /\ phase \in {"idle", "run", "accounts", "transfers"}
  /\ tx \in Transaction
  /\ frames \in Seq(Frame)
  /\ state \in State
  /\ to_commit \in SUBSET Addr
  /\ steps \in Nat
  /\ txs \in Nat
  /\ phase = "run" => frames # <<>>

Genesis ==
  [balance |-> GenesisBalance,
   nonce |-> [a \in Addr |-> IF a \in Contracts THEN 1 ELSE 0],
   code |-> [a \in Addr |-> a \in Contracts],
   slot |-> [a \in Addr |-> 0],
   registered |-> Eoa \cup Contracts,
   events |-> 0, cairo |-> 0]

Init ==
  /\ chain = Genesis
  /\ base = Genesis
  /\ phase = "idle"
  /\ tx = [origin |-> CHOOSE a \in Eoa : TRUE, status |-> "none", fee |-> 0,
            leaked |-> 0, wrapped |-> FALSE]
  /\ frames = <<>>
  /\ state = InitState
  /\ to_commit = {}
  /\ steps = 0
  /\ txs = 0

-----------------------------------------------------------------------------
(***************************************************************************)
(* The transaction: eth_send_transaction, and Interpreter.execute up to run.*)
(***************************************************************************)
Depth == Len(frames)      \* message.depth + 1
Top == frames[Depth]

NewTx(origin, status) ==
  [origin |-> origin, status |-> status, fee |-> 0, leaked |-> 0, wrapped |-> FALSE]

\* The coinbase, the precompiles, the target and the access list are warm.
WarmState(to, access_list) ==
  CacheAll(chain, InitState, {Coinbase, to} \cup Precompiles \cup access_list)

\* The gas limit is below the intrinsic gas, or the init code is too long:
\* nothing is charged, the accounts that were cached are committed.
RejectTransaction(origin, s) ==
  /\ tx' = NewTx(origin, "invalid")
  /\ state' = s
  /\ phase' = "accounts"
  /\ to_commit' = s.cached
  /\ UNCHANGED frames

\* The largest fee is taken out of the sender's cached balance without a
\* transfer, its nonce is incremented, the value is moved to the target.
ReserveFee(s, origin) ==
  LET sender == AccountOf(chain, s, origin)
  IN UpdateAccount(s, origin, [sender EXCEPT !.balance = @ - MaxFee, !.nonce = @ + 1])

EnterRoot(origin, to, value, deploy, warm) ==
  LET reserved == ReserveFee(warm, origin)
      possible == TransferPossible(chain, reserved, origin, to, value)
      paid == AddTransfer(chain, reserved, origin, to, value)
      target == AccountOf(chain, paid, to)
      collision == deploy /\ HasCodeOrNonce(target)
  IN /\ tx' = NewTx(origin, "running")
     /\ state' = UpdateAccount(paid, to, [target EXCEPT
                     !.nonce = IF deploy THEN 1 ELSE @, !.created = deploy])
     /\ frames' = << [address |-> to, code_address |-> to, caller |-> origin,
                      has_code |-> deploy \/ (to \in chain.registered /\ chain.code[to]),
                      read_only |-> FALSE, is_create |-> deploy,
                      cairo_precompile_called |-> 0,
                      status |-> IF collision \/ ~possible THEN "EXCEPTIONAL_HALT"
                                                           ELSE "running",
                      output |-> "none", parent_state |-> InitState,
                      cairo_before |-> chain.cairo, leaked_before |-> 0] >>
     /\ phase' = "run"
     /\ UNCHANGED to_commit

\* Mutant of SendTransaction: only the value is checked against the balance.
SendTransactionFeeUnchecked(origin, to, value, deploy, access_list) ==
  /\ phase = "idle"
  /\ txs < MaxTxs
  /\ chain.balance[origin] >= value
  /\ EnterRoot(origin, to, value, deploy, WarmState(to, access_list))
  /\ base' = chain
  /\ steps' = 0
  /\ txs' = txs + 1
  /\ UNCHANGED chain

\* eth_send_raw_unsigned_tx has checked that the sender can pay both the value
\* and the largest fee.
SendTransaction(origin, to, value, deploy, access_list) ==
  /\ phase = "idle"
  /\ txs < MaxTxs
  /\ chain.balance[origin] >= value + MaxFee
  /\ LET warm == WarmState(to, access_list)
     IN \/ RejectTransaction(origin, warm)
        \/ /\ chain.nonce[origin] = MaxNonce
           /\ RejectTransaction(origin, CacheAccount(chain, warm, origin))
        \/ /\ chain.nonce[origin] # MaxNonce
           /\ EnterRoot(origin, to, value, deploy, warm)
  /\ base' = chain
  /\ steps' = 0
  /\ txs' = txs + 1
  /\ UNCHANGED chain

Send ==
  \E origin \in Eoa, value \in Values, access_list \in AccessLists :
    \/ \E to \in Callees : SendTransaction(origin, to, value, FALSE, access_list)
    \/ \E to \in CreateTargets : SendTransaction(origin, to, value, TRUE, access_list)

\* A Cairo assertion fails: Starknet reverts the whole transaction.
Abort ==
  /\ chain' = base
  /\ phase' = "idle"
  /\ tx' = [tx EXCEPT !.status = "aborted"]
  /\ frames' = <<>>
  /\ state' = InitState
  /\ to_commit' = {}
  /\ steps' = 0
  /\ UNCHANGED <<base, txs>>

-----------------------------------------------------------------------------
(***************************************************************************)
(* Opcodes.  Every opcode acts on the top context and leaves the Starknet   *)
(* storage and the transaction alone.                                       *)
(***************************************************************************)
Running == phase = "run" /\ Top.status = "running"

Executes(opcode) ==
  /\ Running
  /\ Top.has_code
  /\ opcode \in Opcodes
  /\ steps < MaxSteps
  /\ steps' = steps + 1
  /\ UNCHANGED <<chain, base, phase, tx, to_commit, txs>>

Stopped(frame, status, output) == [frame EXCEPT !.status = status, !.output = output]

StopTop(status, output) ==
  frames' = [frames EXCEPT ![Depth] = Stopped(@, status, output)]

Continue(s) == state' = s /\ UNCHANGED frames

StateModificationError == StopTop("EXCEPTIONAL_HALT", "none") /\ UNCHANGED state

Self(s) == AccountOf(chain, s, Top.address)

\* Mutant of ChildFrame: only STATICCALL makes a context static.
ChildFrameNotStatic(s, caller, to, code_address, is_staticcall) ==
  [address |-> to, code_address |-> code_address, caller |-> caller,
   has_code |-> AccountOf(chain, s, code_address).code,
   read_only |-> is_staticcall, is_create |-> FALSE,
   cairo_precompile_called |-> Top.cairo_precompile_called,
   status |-> "running", output |-> "none",
   parent_state |-> s, cairo_before |-> chain.cairo, leaked_before |-> tx.leaked]

\* CallHelper.generic_call: the child inherits the static flag and the record
\* of Cairo calls; the caller's state is kept to be restored.
ChildFrame(s, caller, to, code_address, is_staticcall) ==
  [address |-> to, code_address |-> code_address, caller |-> caller,
   has_code |-> AccountOf(chain, s, code_address).code,
   read_only |-> is_staticcall \/ Top.read_only, is_create |-> FALSE,
   cairo_precompile_called |-> Top.cairo_precompile_called,
   status |-> "running", output |-> "none",
   parent_state |-> s, cairo_before |-> chain.cairo, leaked_before |-> tx.leaked]

EnterCall(s, caller, to, code_address, is_staticcall) ==
  /\ frames' = Append(frames, ChildFrame(s, caller, to, code_address, is_staticcall))
  /\ state' = s

\* The value is moved in the child's copy of the state; if it cannot be, the
\* child halts before its first opcode.
EnterCallWithTransfer(s, to, value) ==
  LET child == ChildFrame(s, Top.address, to, to, FALSE)
  IN /\ frames' = Append(frames,
            IF TransferPossible(chain, s, Top.address, to, value) THEN child
            ELSE Stopped(child, "EXCEPTIONAL_HALT", "none"))
     /\ state' = AddTransfer(chain, s, Top.address, to, value)

TooDeep == Depth = MaxDepth + 1

ExecCall(to, value) ==
  /\ Executes("CALL")
  /\ LET s == CacheAccount(chain, state, to)
     IN \/ /\ Top.read_only /\ value > 0
           /\ StateModificationError
        \/ /\ ~(Top.read_only /\ value > 0)
           /\ Self(s).balance < value \/ TooDeep
           /\ Continue(s)
        \/ /\ ~(Top.read_only /\ value > 0)
           /\ Self(s).balance >= value /\ ~TooDeep
           /\ EnterCallWithTransfer(s, to, value)

ExecStaticcall(to) ==
  /\ Executes("STATICCALL")
  /\ LET s == CacheAccount(chain, state, to)
     IN \/ TooDeep /\ Continue(s)
        \/ ~TooDeep /\ EnterCall(s, Top.address, to, to, TRUE)

\* The code runs on the caller's own account; the value stays where it is.
ExecCallcode(code_address, value) ==
  /\ Executes("CALLCODE")
  /\ LET s == CacheAccount(chain, state, code_address)
     IN \/ /\ Self(s).balance < value \/ TooDeep
           /\ Continue(s)
        \/ /\ Self(s).balance >= value /\ ~TooDeep
           /\ EnterCall(s, Top.address, Top.address, code_address, FALSE)

\* As CALLCODE, with the caller of the present context as the caller.
ExecDelegatecall(code_address) ==
  /\ Executes("DELEGATECALL")
  /\ LET s == CacheAccount(chain, state, code_address)
     IN \/ TooDeep /\ Continue(s)
        \/ ~TooDeep /\ EnterCall(s, Top.caller, Top.address, code_address, FALSE)

\* CREATE and CREATE2: the caller's nonce is incremented in the caller's state,
\* so that it survives a failure of the init code; the rest is the child's.
CreateFrame(s, target) ==
  [address |-> target, code_address |-> target, caller |-> Top.address,
   has_code |-> TRUE, read_only |-> FALSE, is_create |-> TRUE,
   cairo_precompile_called |-> Top.cairo_precompile_called,
   status |-> "running", output |-> "none",
   parent_state |-> s, cairo_before |-> chain.cairo, leaked_before |-> tx.leaked]

CreatedAccount(s, target) ==
  UpdateAccount(s, target,
    [AccountOf(chain, s, target) EXCEPT !.nonce = 1, !.created = TRUE])

WithNonceIncremented(s) ==
  UpdateAccount(s, Top.address, [Self(s) EXCEPT !.nonce = @ + 1])

ExecCreate(target, value) ==
  LET s == CacheAccount(chain, state, target)
      sender == Self(s)
      refused == sender.nonce = MaxNonce \/ sender.balance < value \/ TooDeep
      collision == HasCodeOrNonce(AccountOf(chain, s, target))
      counted == WithNonceIncremented(s)
  IN /\ Executes("CREATE")
     /\ \/ Top.read_only /\ StateModificationError
        \/ ~Top.read_only /\ refused /\ Continue(s)
        \/ ~Top.read_only /\ ~refused /\ collision /\ Continue(counted)
        \/ /\ ~Top.read_only /\ ~refused /\ ~collision
           /\ frames' = Append(frames, CreateFrame(counted, target))
           /\ state' = AddTransfer(chain, CreatedAccount(counted, target),
                                   Top.address, target, value)

ExecSstore(value) ==
  /\ Executes("SSTORE")
  /\ \/ Top.read_only /\ StateModificationError
     \/ /\ ~Top.read_only
        /\ Continue(UpdateAccount(state, Top.address,
                                  [Self(state) EXCEPT !.slot = value]))

ExecLog ==
  /\ Executes("LOG")
  /\ \/ Top.read_only /\ StateModificationError
     \/ ~Top.read_only /\ Continue([state EXCEPT !.events = @ + 1])

\* SELFDESTRUCT moves the whole balance and marks the account.  An account
\* created by the same transaction that names itself burns its balance.
ExecSelfdestruct(named) ==
  LET s == CacheAccount(chain, state, named)
      recipient == IF Self(s).created /\ named = Top.address THEN BurnAddress ELSE named
      swept == AddTransfer(chain, CacheAccount(chain, s, recipient),
                           Top.address, recipient, Self(s).balance)
  IN /\ Executes("SELFDESTRUCT")
     /\ \/ Top.read_only /\ StateModificationError
        \/ /\ ~Top.read_only
           /\ state' = UpdateAccount(swept, Top.address,
                                     [Self(swept) EXCEPT !.selfdestruct = TRUE])
           /\ StopTop("success", "none")

-----------------------------------------------------------------------------
(***************************************************************************)
(* The end of a context.                                                   *)
(***************************************************************************)
Ends == Running /\ UNCHANGED <<chain, base, phase, tx, state, to_commit, steps, txs>>

\* STOP, RETURN, and the end of the bytecode, which an account without code
\* reaches at once.
ExecReturn ==
  /\ Ends
  /\ Top.has_code \/ Top.code_address \notin Precompiles
  /\ \E output \in IF Top.is_create THEN Output ELSE {"none"} : StopTop("success", output)

ExecRevert == Ends /\ Top.has_code /\ StopTop("REVERT", "none")

ExceptionalHalt == Ends /\ Top.has_code /\ StopTop("EXCEPTIONAL_HALT", "none")

-----------------------------------------------------------------------------
(***************************************************************************)
(* The Cairo precompiles (cairo_zero/kakarot/precompiles).  Their calls     *)
(* take effect at once: no EVM context can undo them.                       *)
(***************************************************************************)

\* PrecompilesHelpers.is_call_authorized.  A context entered by DELEGATECALL
\* or CALLCODE has an address other than that of the precompile.
Authorized(frame) ==
  LET delegated == frame.address # frame.code_address
  IN IF frame.code_address = CairoWhitelisted
       THEN (IF delegated THEN frame.address ELSE frame.caller) \in Whitelist
       ELSE ~delegated

StopPrecompile(status, called) ==
  frames' = [frames EXCEPT ![Depth] = [Stopped(@, status, "none") EXCEPT
                                         !.cairo_precompile_called = called]]

InPrecompile(precompiles) ==
  /\ Running
  /\ ~Top.has_code
  /\ Top.code_address \in precompiles

\* The Ethereum precompiles only compute; they may fail.  Like any precompile
\* they overwrite the record of Cairo calls that the context inherited.
EthPrecompile ==
  /\ InPrecompile(EthPrecompiles)
  /\ \E status \in {"success", "EXCEPTIONAL_HALT"} : StopPrecompile(status, 0)
  /\ UNCHANGED <<chain, base, phase, tx, state, to_commit, steps, txs>>

\* The call is not authorized, or its input is malformed.
CairoPrecompileRefuses ==
  /\ InPrecompile(CairoPrecompiles)
  /\ StopPrecompile("EXCEPTIONAL_HALT", 0)
  /\ UNCHANGED <<chain, base, phase, tx, state, to_commit, steps, txs>>

\* The caller's account contract, deployed if need be, makes n calls; they may
\* move the native token it owns.
AfterCairoCalls(n, balance) ==
  [chain EXCEPT !.cairo = @ + n, !.registered = @ \cup {Top.caller}, !.balance = balance]

NativeMoved(a, amount) ==
  [chain.balance EXCEPT ![Top.caller] = @ - amount, ![a] = @ + amount]

BalancesAfterCairoCalls ==
  {chain.balance} \cup
  {NativeMoved(a, amount) :
     a \in IF CairoMovesNative THEN Addr \ {Top.caller} ELSE {},
     amount \in {v \in Values : v <= chain.balance[Top.caller]}}

\* Enough gas or not, the context records that Cairo was called.
CairoPrecompileExecutes ==
  /\ InPrecompile(CairoPrecompiles)
  /\ Authorized(Top)
  /\ \E n \in IF Top.code_address = CairoMulticall THEN 0..MaxBatch ELSE {1},
        balance \in BalancesAfterCairoCalls, status \in {"success", "EXCEPTIONAL_HALT"} :
       /\ chain' = IF n = 0 THEN chain ELSE AfterCairoCalls(n, balance)
       /\ StopPrecompile(status, 1)
  /\ UNCHANGED <<base, phase, tx, state, to_commit, steps, txs>>

\* A batch stops at a malformed call: the precompile fails, and the calls made
\* before are not recorded.
CairoBatchFails ==
  /\ InPrecompile(CairoPrecompiles)
  /\ Authorized(Top)
  /\ Top.code_address = CairoMulticall
  /\ \E n \in 1..(MaxBatch - 1), balance \in BalancesAfterCairoCalls :
       /\ chain' = AfterCairoCalls(n, balance)
       /\ tx' = [tx EXCEPT !.leaked = @ + n]
  /\ StopPrecompile("EXCEPTIONAL_HALT", 0)
  /\ UNCHANGED <<base, phase, state, to_commit, steps, txs>>

\* The called contract panics, or the batch holds another number of calls than
\* announced: neither can be caught.  (execute_cairo_call would also turn a
\* call that is not successful into an EVM exception, the caller's account
\* deployed; but new_call_contract_syscall, of Cairo1Helpers, panics instead.)
CairoCallPanics ==
  /\ InPrecompile(CairoPrecompiles)
  /\ Authorized(Top)
  /\ Abort

-----------------------------------------------------------------------------
(***************************************************************************)
(* Interpreter.run on a context that has stopped.                           *)
(***************************************************************************)
TopStopped == phase = "run" /\ Top.status # "running"
HasReverted == Top.status \in Reverted
Parent == frames[Depth - 1]

\* Mutant of CairoCalled: the child's record replaces the parent's.
CairoCalledByChild == Top.cairo_precompile_called

\* The record of Cairo calls of the context that resumes: a sum of felts, of
\* which only the comparison with zero is used.
SumOfCalls == Top.cairo_precompile_called + Parent.cairo_precompile_called
CairoCalled == SumOfCalls % FieldPrime

\* The parent resumes with the state s.
Resume(s) ==
  /\ frames' = [SubSeq(frames, 1, Depth - 1) EXCEPT
                  ![Depth - 1].cairo_precompile_called = CairoCalled]
  /\ state' = s
  /\ tx' = [tx EXCEPT !.wrapped = @ \/ SumOfCalls >= FieldPrime]
  /\ UNCHANGED <<chain, base, phase, to_commit, steps, txs>>

\* CallHelper.finalize_parent.
FinalizeCall ==
  /\ TopStopped /\ Depth > 1 /\ ~Top.is_create
  /\ \/ HasReverted /\ CairoCalled # 0 /\ Abort
     \/ /\ HasReverted /\ CairoCalled = 0
        /\ Resume(CacheAccount(chain, Top.parent_state, Top.code_address))
     \/ /\ ~HasReverted
        /\ Resume(CacheAccount(chain, state, Top.code_address))

\* CreateHelper.finalize_parent: returned data that cannot be deployed fails
\* the creation as a revert does.
CreationFails == HasReverted \/ Top.output = "invalid"

\* Account.set_code.
WithCode(s, frame) ==
  UpdateAccount(s, frame.address,
    [AccountOf(chain, s, frame.address) EXCEPT !.code = frame.output = "code",
                                               !.created = TRUE])

\* Mutant of FinalizeCreate: only a revert is checked for Cairo calls, not the
\* return of code that cannot be deployed.
FinalizeCreateUnchecked ==
  /\ TopStopped /\ Depth > 1 /\ Top.is_create
  /\ \/ HasReverted /\ CairoCalled # 0 /\ Abort
     \/ HasReverted /\ CairoCalled = 0 /\ Resume(Top.parent_state)
     \/ /\ ~HasReverted
        /\ Resume(IF CreationFails THEN Top.parent_state ELSE WithCode(state, Top))

FinalizeCreate ==
  /\ TopStopped /\ Depth > 1 /\ Top.is_create
  /\ \/ CreationFails /\ CairoCalled # 0 /\ Abort
     \/ CreationFails /\ CairoCalled = 0 /\ Resume(Top.parent_state)
     \/ ~CreationFails /\ Resume(WithCode(state, Top))

-----------------------------------------------------------------------------
(***************************************************************************)
(* The rest of Interpreter.execute: the fee, with the state of the root     *)
(* context or, if it reverted, with a new one.                              *)
(***************************************************************************)
RootFails == HasReverted \/ (Top.is_create /\ Top.output = "invalid")

RootState == IF Top.is_create THEN WithCode(state, Top) ELSE state

\* The reservation is returned and the fee becomes a transfer.
PayFee(s, fee) ==
  LET sender == AccountOf(chain, s, tx.origin)
  IN AddTransfer(chain,
       UpdateAccount(s, tx.origin, [sender EXCEPT !.balance = @ + MaxFee]),
       tx.origin, Coinbase, fee)

\* Mutant of PayFeeAfterRevert: the state of the reverted context is kept.
PayFeeKeepingState(fee) == PayFee(state, fee)

\* After a revert only the nonce and the fee are left of the transaction.
PayFeeAfterRevert(fee) ==
  LET sender == AccountOf(chain, InitState, tx.origin)
  IN AddTransfer(chain,
       UpdateAccount(InitState, tx.origin, [sender EXCEPT !.nonce = @ + 1]),
       tx.origin, Coinbase, fee)

Settle(status, fee, s) ==
  /\ tx' = [tx EXCEPT !.status = status, !.fee = fee]
  /\ state' = s
  /\ to_commit' = s.cached
  /\ phase' = "accounts"
  /\ frames' = <<>>
  /\ UNCHANGED <<chain, base, steps, txs>>

\* Mutant of FinalizeRoot: a failed transaction never aborts.
FinalizeRootUnchecked ==
  /\ TopStopped /\ Depth = 1
  /\ \E fee \in 1..MaxFee :
       IF RootFails THEN Settle("reverted", fee, PayFeeAfterRevert(fee))
                    ELSE Settle("success", fee, PayFee(RootState, fee))

\* The gas used, hence the fee, is anything up to the limit.
FinalizeRoot ==
  /\ TopStopped /\ Depth = 1
  /\ \/ RootFails /\ Top.cairo_precompile_called # 0 /\ Abort
     \/ /\ RootFails /\ Top.cairo_precompile_called = 0
        /\ \E fee \in 1..MaxFee : Settle("reverted", fee, PayFeeAfterRevert(fee))
     \/ /\ ~RootFails
        /\ \E fee \in 1..MaxFee : Settle("success", fee, PayFee(RootState, fee))

-----------------------------------------------------------------------------
(***************************************************************************)
(* Starknet.commit: the accounts one by one, the events, the transfers in   *)
(* order.  Contracts are deployed here if they are not yet.                 *)
(***************************************************************************)
Vanishes(account) == account.created /\ account.selfdestruct

\* Mutant of WriteAccount: an account that vanishes is not deployed.
WriteAccountUndeployed(account, a) ==
  IF Vanishes(account) THEN chain
  ELSE [chain EXCEPT
         !.registered = @ \cup {a},
         !.nonce = IF HasCodeOrNonce(account) THEN [@ EXCEPT ![a] = account.nonce] ELSE @,
         !.slot = IF HasCodeOrNonce(account) THEN [@ EXCEPT ![a] = account.slot] ELSE @,
         !.code = IF account.created THEN [@ EXCEPT ![a] = account.code] ELSE @]

WriteAccount(account, a) ==
  [chain EXCEPT
     !.registered = @ \cup {a},
     !.nonce = IF Vanishes(account) \/ ~HasCodeOrNonce(account) THEN @
               ELSE [@ EXCEPT ![a] = account.nonce],
     !.slot = IF Vanishes(account) \/ ~HasCodeOrNonce(account) THEN @
              ELSE [@ EXCEPT ![a] = account.slot],
     !.code = IF Vanishes(account) \/ ~account.created THEN @
              ELSE [@ EXCEPT ![a] = account.code]]

\* Mutant of CommitAccount: the balance of a vanished account is not burnt.
CommitAccountUnburnt ==
  LET a == CHOOSE x \in to_commit : TRUE
  IN /\ phase = "accounts" /\ to_commit # {}
     /\ to_commit' = to_commit \ {a}
     /\ chain' = IF a \in Precompiles THEN chain ELSE WriteAccount(state.accounts[a], a)
     /\ UNCHANGED <<base, phase, tx, frames, state, steps, txs>>

\* Precompiles are skipped.  What is left to an account that was created and
\* destroyed by this transaction is burnt.
CommitAccount ==
  LET a == CHOOSE x \in to_commit : TRUE
      account == state.accounts[a]
  IN /\ phase = "accounts" /\ to_commit # {}
     /\ to_commit' = to_commit \ {a}
     /\ \/ a \in Precompiles /\ UNCHANGED <<chain, state>>
        \/ /\ a \notin Precompiles
           /\ chain' = WriteAccount(account, a)
           /\ state' = IF Vanishes(account)
                         THEN AddTransfer(chain, state, a, BurnAddress, account.balance)
                         ELSE state
     /\ UNCHANGED <<base, phase, tx, frames, steps, txs>>

EmitEvents ==
  /\ phase = "accounts" /\ to_commit = {}
  /\ chain' = [chain EXCEPT !.events = @ + state.events]
  /\ phase' = "transfers"
  /\ UNCHANGED <<base, tx, frames, state, to_commit, steps, txs>>

\* transferFrom needs the sender's balance, and the allowance that an account
\* gives Kakarot when it is deployed.
CanTransfer(t) == t.amount <= chain.balance[t.sender] /\ t.sender \in chain.registered

Transferred(balance, t) ==
  LET sent == [balance EXCEPT ![t.sender] = @ - t.amount]
  IN  [sent EXCEPT ![t.recipient] = @ + t.amount]

\* Mutant of TransferEth: the transfer stays on the list.
TransferEthRepeated ==
  LET t == Head(state.transfers)
  IN /\ phase = "transfers" /\ state.transfers # <<>>
     /\ IF ~CanTransfer(t) THEN Abort
        ELSE UNCHANGED vars

TransferEth ==
  LET t == Head(state.transfers)
  IN /\ phase = "transfers" /\ state.transfers # <<>>
     /\ \/ ~CanTransfer(t) /\ Abort
        \/ /\ CanTransfer(t)
           /\ chain' = [chain EXCEPT !.balance = Transferred(@, t)]
           /\ state' = [state EXCEPT !.transfers = Tail(@)]
           /\ UNCHANGED <<base, phase, tx, frames, to_commit, steps, txs>>

\* The Starknet transaction succeeds.
Commit ==
  /\ phase = "transfers" /\ state.transfers = <<>>
  /\ phase' = "idle"
  /\ state' = InitState
  /\ steps' = 0
  /\ UNCHANGED <<chain, base, tx, frames, to_commit, txs>>
-----------------------------------------------------------------------------
Opcode ==
  \/ \E to \in Callees :
       \/ \E value \in Values : ExecCall(to, value) \/ ExecCallcode(to, value)
       \/ ExecStaticcall(to)
       \/ ExecDelegatecall(to)
       \/ ExecSelfdestruct(to)
  \/ \E target \in CreateTargets, value \in Values : ExecCreate(target, value)
  \/ \E value \in Word : ExecSstore(value)
  \/ ExecLog

End ==
  \/ ExecReturn
  \/ ExecRevert
  \/ ExceptionalHalt
  \/ EthPrecompile
  \/ CairoPrecompileRefuses
  \/ CairoPrecompileExecutes
  \/ CairoBatchFails
  \/ CairoCallPanics

Finalize == FinalizeCall \/ FinalizeCreate \/ FinalizeRoot

CommitStep == CommitAccount \/ EmitEvents \/ TransferEth \/ Commit

\* What the Starknet transaction does once it has started.
Proceed == Opcode \/ End \/ Finalize \/ CommitStep

\* Nobody sends any more transactions.
NoMoreTransactions ==
  /\ phase = "idle"
  /\ txs = MaxTxs
  /\ UNCHANGED vars

Next == Send \/ Proceed \/ NoMoreTransactions

Spec == Init /\ [][Next]_vars

\* A sequencer runs a transaction it has started to its end.
FairSpec == Spec /\ WF_vars(Proceed)

-----------------------------------------------------------------------------
(***************************************************************************)
(* Properties.                                                             *)
(***************************************************************************)
\* Cairo contracts did something since the context was entered that no batch
\* which failed did.
CalledCairo(frame) ==
  chain.cairo + frame.leaked_before # frame.cairo_before + tx.leaked

(***************************************************************************)
(* Whatever a context and those above it have made Cairo contracts do is on *)
(* the record of one of these contexts, although each precompile overwrites *)
(* the record it inherits and records are added up on the way down.  (Two   *)
(* exceptions are counted in tx.leaked and noted in tx.wrapped.)            *)
(***************************************************************************)
EffectsOnRecord ==
  ~tx.wrapped =>
    \A i \in 1..Depth :
      CalledCairo(frames[i]) =>
        \E j \in i..Depth : frames[j].cairo_precompile_called # 0

(***************************************************************************)
(* An EVM transaction that reverted, and was committed, leaves nothing that *)
(* a Cairo contract did (interpreter.cairo:1004, "EVM tx reverted,          *)
(* reverting SN tx because of previous calls to cairo precompiles").        *)
(***************************************************************************)
NoOrphanCairoEffect ==
  tx.status = "reverted" /\ ~tx.wrapped => chain.cairo = base.cairo + tx.leaked

(***************************************************************************)
(* A context that fails while its transaction goes on has made no Cairo     *)
(* contract do anything since it was entered: a call or a creation that     *)
(* reverts or halts, and a creation that returns code which cannot be       *)
(* deployed, which CreateHelper.finalize_parent finds out by itself.        *)
(***************************************************************************)
FailedContextsLeaveNoCairoEffect ==
  [][((FinalizeCall /\ HasReverted) \/ (FinalizeCreate /\ CreationFails))
       /\ phase' = "run" /\ ~tx.wrapped'
         => ~CalledCairo(Top)]_vars

(***************************************************************************)
(* "If it did revert, we're ensured no state changes were made in the cairo *)
(* call" (interpreter.cairo:97): a reverted transaction that is committed   *)
(* leaves no Cairo effect, without exception.                               *)
(***************************************************************************)
RevertUndoesCairoCalls == tx.status = "reverted" => chain.cairo = base.cairo

(***************************************************************************)
(* A transaction that has started ends.                                     *)
(***************************************************************************)
TransactionsEnd == phase # "idle" ~> phase = "idle"
=============================================================================
