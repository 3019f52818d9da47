------------------------- MODULE InterpreterProofs -------------------------
(***************************************************************************)
(* Theorems about Interpreter: its types, the record of Cairo calls, static *)
(* contexts, the agreement of balances and transfers, and the refinement of *)
(* AtomicTx.                                                               *)
(*                                                                         *)
(* EffectsOnRecord is not inductive: a precompile overwrites the record it  *)
(* inherited.  That loses nothing because its caller still holds the same   *)
(* record, which InheritedOnly states of the context that runs without code *)
(* and CallersHaveCode makes available to it.                               *)
(*                                                                         *)
(* StaticContextsChangeNothing speaks of every static context on the stack, *)
(* but a step sees only the top one and its caller.  The invariant SInv,    *)
(* in the second part of this module, adds that whatever a static context   *)
(* calls is static too (StaticBelow) and that no creation is static         *)
(* (NoStaticCreation), since its end writes the code of the new account,    *)
(* whatever the flag says.                                                  *)
(*                                                                         *)
(* The state is a cache: what it shows of an account that is not cached is  *)
(* what Starknet stores.  A Cairo call may register an account while static *)
(* contexts wait, which shows nothing new because the storage of an account *)
(* that is not registered is empty (UnregisteredEmpty).                     *)
(*                                                                         *)
(* The third part: the cached balances and the transfers to come agree, and *)
(* the transfers of a commit never fail.  The state keeps balances and      *)
(* transfers apart.  Good says of a state that its transfers can be made    *)
(* one after the other, that they lead to its balances, and that the        *)
(* accounts they name are cached and no precompiles, so that the commit,    *)
(* which skips precompiles, deploys every sender before the transfers       *)
(* begin.  It holds of the present state and of every one that a context    *)
(* below would restore (LInv).  What a sequence of transfers does is a      *)
(* recursive function: the facts about it are proved by induction on the    *)
(* number of transfers, which rests on the least number principle of        *)
(* WellFoundedInduction.                                                    *)
(***************************************************************************)
EXTENDS InterpreterProperties, TLAPS, WellFoundedInduction, FiniteSetTheorems

\* Only a context with code has opened another.
CallersHaveCode == \A i \in 1..(Depth - 1) : frames[i].has_code

\* A context without code that still runs has made no Cairo call.
InheritedOnly ==
  Running /\ ~Top.has_code =>
    /\ ~CalledCairo(Top)
    /\ Depth > 1 => Top.cairo_precompile_called = Parent.cairo_precompile_called

\* The root context saw the Cairo effects that Starknet would restore.
RootSawBase ==
  frames # <<>> => frames[1].cairo_before = base.cairo /\ frames[1].leaked_before = 0

FramesWhileRunning ==
  /\ phase = "run" <=> frames # <<>>
  /\ phase = "run" => tx.status = "running"

IInv ==
  /\ TypeOK
  /\ CallersHaveCode
  /\ InheritedOnly
  /\ RootSawBase
  /\ FramesWhileRunning
  /\ EffectsOnRecord
  /\ NoOrphanCairoEffect

-----------------------------------------------------------------------------
(***************************************************************************)
(* What the operators of EvmState return: every operation of state.cairo    *)
(* leads from a well-formed state to a well-formed one.                     *)
(***************************************************************************)
\* An account that was never touched is one.
LEMMA EmptyAccountType == EmptyAccount \in Account
BY WordAssumption DEF EmptyAccount, Account

\* State.init returns a state without accounts.
LEMMA InitStateType == InitState \in State
BY EmptyAccountType DEF InitState, State

\* Account.fetch_or_create returns an account for any address.
LEMMA FetchAccountType ==
  ASSUME NEW ch \in Chain, NEW a \in Addr
  PROVE  FetchAccount(ch, a) \in Account
BY WordAssumption DEF FetchAccount, EmptyAccount, Account, Chain

\* So does State.get_account, cached or not.
LEMMA AccountOfType ==
  ASSUME NEW ch \in Chain, NEW s \in State, NEW a \in Addr
  PROVE  AccountOf(ch, s, a) \in Account
BY FetchAccountType DEF AccountOf, State

\* State.update_account keeps the state well formed.
LEMMA UpdateAccountType ==
  ASSUME NEW s \in State, NEW a \in Addr, NEW account \in Account
  PROVE  UpdateAccount(s, a, account) \in State
BY DEF UpdateAccount, State

\* So does reading an account into the cache.
LEMMA CacheAccountType ==
  ASSUME NEW ch \in Chain, NEW s \in State, NEW a \in Addr
  PROVE  CacheAccount(ch, s, a) \in State
BY AccountOfType, UpdateAccountType DEF CacheAccount

\* So does caching the precompiles or an access list.
LEMMA CacheAllType ==
  ASSUME NEW ch \in Chain, NEW s \in State, NEW as \in SUBSET Addr
  PROVE  CacheAll(ch, s, as) \in State
<1>1. \A a \in Addr : (IF a \in as THEN AccountOf(ch, s, a) ELSE s.accounts[a]) \in Account
  BY AccountOfType DEF State
<1> QED BY <1>1 DEF CacheAll, State

\* So does State.add_transfer, which makes no balance negative.
LEMMA AddTransferType ==
  ASSUME NEW ch \in Chain, NEW s \in State, NEW from \in Addr, NEW to \in Addr,
         NEW amount \in Nat
  PROVE  AddTransfer(ch, s, from, to, amount) \in State
<1> DEFINE sender == AccountOf(ch, s, from)
           recipient == AccountOf(ch, s, to)
           t == [sender |-> from, recipient |-> to, amount |-> amount]
<1>1. CASE NullTransfer(from, to, amount) \/ ~TransferPossible(ch, s, from, to, amount)
  BY <1>1 DEF AddTransfer
<1>2. CASE ~(NullTransfer(from, to, amount) \/ ~TransferPossible(ch, s, from, to, amount))
  <2>1. sender \in Account /\ recipient \in Account
    BY AccountOfType
  <2>2. amount <= sender.balance
    BY <1>2 DEF TransferPossible
  <2>3. [sender EXCEPT !.balance = @ - amount] \in Account
    BY <2>1, <2>2 DEF Account
  <2>4. [recipient EXCEPT !.balance = @ + amount] \in Account
    BY <2>1 DEF Account
  <2>5. t \in Transfer
    BY DEF Transfer
  <2>6. Append(s.transfers, t) \in Seq(Transfer)
    BY <2>5 DEF State
  <2> DEFINE next == [s.accounts EXCEPT ![from] = [sender EXCEPT !.balance = @ - amount],
                                        ![to] = [recipient EXCEPT !.balance = @ + amount]]
  <2>7. next \in [Addr -> Account]
    BY <2>3, <2>4 DEF State
  <2>8. AddTransfer(ch, s, from, to, amount) =
          [s EXCEPT !.accounts = next, !.cached = @ \cup {from, to},
                    !.transfers = Append(@, t)]
    BY <1>2, Zenon DEF AddTransfer
  <2> HIDE DEF next, t, sender, recipient
  <2>9. /\ s.cached \cup {from, to} \in SUBSET Addr
        /\ s = [accounts |-> s.accounts, cached |-> s.cached,
                transfers |-> s.transfers, events |-> s.events]
        /\ s.events \in Nat
    BY DEF State
  <2>10. AddTransfer(ch, s, from, to, amount) =
           [accounts |-> next, cached |-> s.cached \cup {from, to},
            transfers |-> Append(s.transfers, t), events |-> s.events]
    BY <2>8, <2>9
  <2> QED BY <2>6, <2>7, <2>9, <2>10 DEF State
<1> QED BY <1>1, <1>2

-----------------------------------------------------------------------------
(***************************************************************************)
(* Sequences of frames.                                                    *)
(***************************************************************************)
\* Appending an element keeps the ones below and puts it on top.
LEMMA PushFrame ==
  ASSUME NEW S, NEW seq \in Seq(S), NEW e \in S
  PROVE  /\ Append(seq, e) \in Seq(S)
         /\ Len(Append(seq, e)) = Len(seq) + 1
         /\ \A i \in 1..Len(seq) : Append(seq, e)[i] = seq[i]
         /\ Append(seq, e)[Len(seq) + 1] = e
OBVIOUS

\* Replacing the last element keeps the ones below.
LEMMA ReplaceTop ==
  ASSUME NEW S, NEW seq \in Seq(S), seq # <<>>, NEW e \in S
  PROVE  LET new == [seq EXCEPT ![Len(seq)] = e]
         IN /\ new \in Seq(S)
            /\ Len(new) = Len(seq)
            /\ \A i \in 1..(Len(seq) - 1) : new[i] = seq[i]
            /\ new[Len(seq)] = e
OBVIOUS

\* Dropping the last element and replacing the one before keeps the rest.
LEMMA PopFrame ==
  ASSUME NEW S, NEW seq \in Seq(S), Len(seq) > 1, NEW e \in S
  PROVE  LET n == Len(seq) - 1
             new == [SubSeq(seq, 1, n) EXCEPT ![n] = e]
         IN /\ new \in Seq(S)
            /\ Len(new) = n
            /\ \A i \in 1..(n - 1) : new[i] = seq[i]
            /\ new[n] = e
<1> DEFINE n == Len(seq) - 1
           below == SubSeq(seq, 1, n)
<1>1. n \in Nat /\ n > 0
  OBVIOUS
<1>2. below \in Seq(S) /\ Len(below) = n /\ \A i \in 1..n : below[i] = seq[i]
  <2>1. below = [i \in 1..n |-> seq[i]]
    BY <1>1
  <2>2. \A i \in 1..n : seq[i] \in S
    BY <1>1
  <2> QED BY <1>1, <2>1, <2>2
<1>3. below # <<>>
  BY SMTT(60), <1>1, <1>2
<1> HIDE DEF below, n
<1>4. LET new == [below EXCEPT ![Len(below)] = e]
      IN /\ new \in Seq(S)
         /\ Len(new) = Len(below)
         /\ \A i \in 1..(Len(below) - 1) : new[i] = below[i]
         /\ new[Len(below)] = e
  BY <1>2, <1>3, ReplaceTop
<1> QED BY <1>1, <1>2, <1>4 DEF below, n

-----------------------------------------------------------------------------
(***************************************************************************)
(* Opcodes: each keeps the contexts, stops the top one, or opens another.   *)
(***************************************************************************)
StopsTop ==
  \E status \in Status \ {"running"}, output \in Output :
    frames' = [frames EXCEPT ![Depth] = Stopped(Top, status, output)]

OpensContext ==
  \E frame \in Frame :
    /\ frames' = Append(frames, frame)
    /\ frame.cairo_precompile_called = Top.cairo_precompile_called
    /\ frame.cairo_before = chain.cairo
    /\ frame.leaked_before = tx.leaked

ContextStep ==
  /\ Running
  /\ state' \in State
  /\ steps' \in Nat
  /\ chain' = chain /\ base' = base /\ phase' = phase /\ tx' = tx
  /\ to_commit' = to_commit /\ txs' = txs
  /\ \/ frames' = frames
     \/ StopsTop
     \/ Top.has_code /\ OpensContext

\* While a transaction runs there is a top context.
LEMMA TopIsFrame ==
  ASSUME TypeOK, phase = "run"
  PROVE  /\ Depth \in Nat /\ Depth > 0
         /\ Top \in Frame
         /\ \A i \in 1..Depth : frames[i] \in Frame
BY DEF TypeOK, Depth, Top

\* The types of the fields of the top context.
LEMMA TopFields ==
  ASSUME NEW frame \in Frame
  PROVE  /\ frame.address \in Addr /\ frame.code_address \in Addr /\ frame.caller \in Addr
         /\ frame.cairo_precompile_called \in Felt
         /\ frame.parent_state \in State
         /\ frame.cairo_before \in Nat /\ frame.leaked_before \in Nat
         /\ frame.has_code \in BOOLEAN /\ frame.read_only \in BOOLEAN
         /\ frame.is_create \in BOOLEAN
BY DEF Frame

\* The types of the variables, as separate facts.
LEMMA TypesOfVariables ==
  ASSUME TypeOK
  PROVE  /\ chain \in Chain /\ base \in Chain /\ state \in State
         /\ tx \in Transaction /\ tx.origin \in Addr /\ tx.leaked \in Nat
         /\ chain.cairo \in Nat /\ base.cairo \in Nat
         /\ steps \in Nat /\ txs \in Nat
BY DEF TypeOK, Transaction, Chain

\* A context that is stopped is still a context.
LEMMA StoppedType ==
  ASSUME NEW frame \in Frame, NEW status \in Status, NEW output \in Output
  PROVE  /\ Stopped(frame, status, output) \in Frame
         /\ Stopped(frame, status, output).status = status
BY DEF Stopped, Frame

\* generic_call builds a context that inherits its caller's record.
LEMMA ChildFrameType ==
  ASSUME TypeOK, phase = "run", NEW s \in State, NEW caller \in Addr, NEW to \in Addr,
         NEW code_address \in Addr, NEW is_staticcall \in BOOLEAN
  PROVE  LET frame == ChildFrame(s, caller, to, code_address, is_staticcall)
         IN /\ frame \in Frame
            /\ frame.cairo_precompile_called = Top.cairo_precompile_called
            /\ frame.cairo_before = chain.cairo
            /\ frame.leaked_before = tx.leaked
<1>1. Top.read_only \in BOOLEAN /\ Top.cairo_precompile_called \in Felt
  BY TopIsFrame, TopFields
<1>2. chain.cairo \in Nat /\ tx.leaked \in Nat /\ chain \in Chain
  BY TypesOfVariables
<1>3. AccountOf(chain, s, code_address).code \in BOOLEAN
  BY <1>2, AccountOfType DEF Account
<1>4. (is_staticcall \/ Top.read_only) \in BOOLEAN
  OBVIOUS
<1> QED BY <1>1, <1>2, <1>3, <1>4 DEF ChildFrame, Frame, Status, Output

\* Stopping the top context is a step of StopsTop.
LEMMA StopTopStops ==
  ASSUME NEW status \in Status \ {"running"}, NEW output \in Output,
         StopTop(status, output)
  PROVE  StopsTop
BY DEF StopTop, StopsTop, Top

\* The ways a context can stop, and the output of one that returns nothing.
LEMMA StatusErrors ==
  /\ "EXCEPTIONAL_HALT" \in Status \ {"running"}
  /\ "success" \in Status \ {"running"}
  /\ "REVERT" \in Status \ {"running"}
  /\ "none" \in Output
BY DEF Status, Output

\* A write in a static context only stops that context.
LEMMA StateModificationErrorStops ==
  ASSUME StateModificationError
  PROVE  StopsTop /\ state' = state
BY StatusErrors, StopTopStops DEF StateModificationError

\* A call without a transfer opens one context.
LEMMA EnterCallOpens ==
  ASSUME TypeOK, phase = "run", NEW s \in State, NEW caller \in Addr, NEW to \in Addr,
         NEW code_address \in Addr, NEW is_staticcall \in BOOLEAN,
         EnterCall(s, caller, to, code_address, is_staticcall)
  PROVE  OpensContext /\ state' \in State
BY ChildFrameType DEF EnterCall, OpensContext

\* So does a call with one, whether the transfer is possible or not.
LEMMA EnterCallWithTransferOpens ==
  ASSUME TypeOK, phase = "run", NEW s \in State, NEW to \in Addr, NEW value \in Nat,
         EnterCallWithTransfer(s, to, value)
  PROVE  OpensContext /\ state' \in State
<1> DEFINE child == ChildFrame(s, Top.address, to, to, FALSE)
           halted == Stopped(child, "EXCEPTIONAL_HALT", "none")
<1>1. Top.address \in Addr
  BY TopIsFrame, TopFields
<1>2. /\ child \in Frame
      /\ child.cairo_precompile_called = Top.cairo_precompile_called
      /\ child.cairo_before = chain.cairo
      /\ child.leaked_before = tx.leaked
  BY ZenonT(60), <1>1, ChildFrameType
<1> HIDE DEF child
<1>3. /\ halted \in Frame
      /\ halted.cairo_precompile_called = child.cairo_precompile_called
      /\ halted.cairo_before = child.cairo_before
      /\ halted.leaked_before = child.leaked_before
  BY <1>2, StatusErrors, StoppedType DEF Stopped, Frame
<1>4. frames' = Append(frames, child) \/ frames' = Append(frames, halted)
  BY DEF EnterCallWithTransfer, child
<1>5. state' \in State
  BY <1>1, TypesOfVariables, AddTransferType DEF EnterCallWithTransfer
<1> HIDE DEF halted
<1> QED BY <1>2, <1>3, <1>4, <1>5 DEF OpensContext

\* The inputs of the opcodes are addresses and amounts.
LEMMA BoundsOfInputs ==
  /\ Callees \subseteq Addr /\ CreateTargets \subseteq Addr
  /\ Eoa \subseteq Addr /\ Values \subseteq Nat
  /\ Coinbase \in Addr /\ BurnAddress \in Addr /\ Precompiles \subseteq Addr
BY AddressAssumption, AmountAssumption DEF Precompiles

\* An opcode leaves Starknet's storage and the transaction alone.
LEMMA ExecutesFacts ==
  ASSUME TypeOK, NEW opcode, Executes(opcode)
  PROVE  /\ Running /\ Top.has_code /\ phase = "run"
         /\ steps' \in Nat
         /\ chain' = chain /\ base' = base /\ phase' = phase /\ tx' = tx
         /\ to_commit' = to_commit /\ txs' = txs
         /\ Top.address \in Addr /\ Top.caller \in Addr
BY TopIsFrame, TopFields, TypesOfVariables DEF Executes, Running

\* CALL is a step of ContextStep.
LEMMA CallShape ==
  ASSUME TypeOK, NEW to \in Addr, NEW value \in Nat, ExecCall(to, value)
  PROVE  ContextStep
<1> DEFINE s == CacheAccount(chain, state, to)
<1>1. Executes("CALL")
  BY DEF ExecCall
<1>2. s \in State
  BY TypesOfVariables, CacheAccountType
<1>3. \/ StateModificationError
      \/ Continue(s)
      \/ EnterCallWithTransfer(s, to, value)
  BY DEF ExecCall
<1> HIDE DEF s
<1>4. CASE StateModificationError
  BY <1>1, <1>4, ExecutesFacts, TypesOfVariables, StateModificationErrorStops DEF ContextStep
<1>5. CASE Continue(s)
  BY <1>1, <1>2, <1>5, ExecutesFacts DEF ContextStep, Continue
<1>6. CASE EnterCallWithTransfer(s, to, value)
  BY <1>1, <1>2, <1>6, ExecutesFacts, EnterCallWithTransferOpens DEF ContextStep
<1> QED BY <1>3, <1>4, <1>5, <1>6

\* So is STATICCALL.
LEMMA StaticcallShape ==
  ASSUME TypeOK, NEW to \in Addr, ExecStaticcall(to)
  PROVE  ContextStep
<1> DEFINE s == CacheAccount(chain, state, to)
<1>1. Executes("STATICCALL") /\ (Continue(s) \/ EnterCall(s, Top.address, to, to, TRUE))
  BY DEF ExecStaticcall
<1>2. s \in State
  BY TypesOfVariables, CacheAccountType
<1> HIDE DEF s
<1>3. CASE Continue(s)
  BY <1>1, <1>2, <1>3, ExecutesFacts DEF ContextStep, Continue
<1>4. CASE EnterCall(s, Top.address, to, to, TRUE)
  BY <1>1, <1>2, <1>4, ExecutesFacts, EnterCallOpens DEF ContextStep
<1> QED BY <1>1, <1>3, <1>4

\* So is CALLCODE.
LEMMA CallcodeShape ==
  ASSUME TypeOK, NEW code_address \in Addr, NEW value, ExecCallcode(code_address, value)
  PROVE  ContextStep
<1> DEFINE s == CacheAccount(chain, state, code_address)
<1>1. /\ Executes("CALLCODE")
      /\ Continue(s) \/ EnterCall(s, Top.address, Top.address, code_address, FALSE)
  BY DEF ExecCallcode
<1>2. s \in State
  BY TypesOfVariables, CacheAccountType
<1> HIDE DEF s
<1>3. CASE Continue(s)
  BY <1>1, <1>2, <1>3, ExecutesFacts DEF ContextStep, Continue
<1>4. CASE EnterCall(s, Top.address, Top.address, code_address, FALSE)
  BY <1>1, <1>2, <1>4, ExecutesFacts, EnterCallOpens DEF ContextStep
<1> QED BY <1>1, <1>3, <1>4

\* So is DELEGATECALL.
LEMMA DelegatecallShape ==
  ASSUME TypeOK, NEW code_address \in Addr, ExecDelegatecall(code_address)
  PROVE  ContextStep
<1> DEFINE s == CacheAccount(chain, state, code_address)
<1>1. /\ Executes("DELEGATECALL")
      /\ Continue(s) \/ EnterCall(s, Top.caller, Top.address, code_address, FALSE)
  BY DEF ExecDelegatecall
<1>2. s \in State
  BY TypesOfVariables, CacheAccountType
<1> HIDE DEF s
<1>3. CASE Continue(s)
  BY <1>1, <1>2, <1>3, ExecutesFacts DEF ContextStep, Continue
<1>4. CASE EnterCall(s, Top.caller, Top.address, code_address, FALSE)
  BY <1>1, <1>2, <1>4, ExecutesFacts, EnterCallOpens DEF ContextStep
<1> QED BY <1>1, <1>3, <1>4

\* Counting the nonce of the creator keeps the state's type.
LEMMA WithNonceIncrementedType ==
  ASSUME TypeOK, phase = "run", NEW s \in State
  PROVE  WithNonceIncremented(s) \in State
<1>1. Top.address \in Addr /\ Self(s) \in Account
  BY TopIsFrame, TopFields, TypesOfVariables, AccountOfType DEF Self
<1>2. [Self(s) EXCEPT !.nonce = @ + 1] \in Account
  BY <1>1 DEF Account
<1> QED BY <1>1, <1>2, UpdateAccountType DEF WithNonceIncremented

\* So does marking the account that is created.
LEMMA CreatedAccountType ==
  ASSUME TypeOK, NEW s \in State, NEW target \in Addr
  PROVE  CreatedAccount(s, target) \in State
<1>1. AccountOf(chain, s, target) \in Account
  BY TypesOfVariables, AccountOfType
<1>2. [AccountOf(chain, s, target) EXCEPT !.nonce = 1, !.created = TRUE] \in Account
  BY <1>1 DEF Account
<1> QED BY <1>2, UpdateAccountType DEF CreatedAccount

\* CREATE is a step of ContextStep.
LEMMA CreateShape ==
  ASSUME TypeOK, NEW target \in Addr, NEW value \in Nat, ExecCreate(target, value)
  PROVE  ContextStep
<1> DEFINE s == CacheAccount(chain, state, target)
           counted == WithNonceIncremented(s)
           frame == CreateFrame(counted, target)
           paid == AddTransfer(chain, CreatedAccount(counted, target), Top.address,
                               target, value)
<1>1. Executes("CREATE")
  BY DEF ExecCreate
<1>2. s \in State
  BY TypesOfVariables, CacheAccountType
<1> HIDE DEF s
<1>3. counted \in State
  BY <1>1, <1>2, ExecutesFacts, WithNonceIncrementedType
<1> HIDE DEF counted
<1>4. /\ frame \in Frame
      /\ frame.cairo_precompile_called = Top.cairo_precompile_called
      /\ frame.cairo_before = chain.cairo
      /\ frame.leaked_before = tx.leaked
  BY <1>1, <1>3, ExecutesFacts, TopIsFrame, TopFields, TypesOfVariables
     DEF CreateFrame, Frame, Status, Output
<1>5. paid \in State
  BY <1>1, <1>3, ExecutesFacts, TypesOfVariables, CreatedAccountType, AddTransferType
<1>6. \/ StateModificationError
      \/ Continue(s)
      \/ Continue(counted)
      \/ frames' = Append(frames, frame) /\ state' = paid
  BY DEF ExecCreate, s, counted
<1> HIDE DEF frame, paid
<1>7. CASE StateModificationError
  BY <1>1, <1>7, ExecutesFacts, TypesOfVariables, StateModificationErrorStops DEF ContextStep
<1>8. CASE Continue(s) \/ Continue(counted)
  BY <1>1, <1>2, <1>3, <1>8, ExecutesFacts DEF ContextStep, Continue
<1>9. CASE frames' = Append(frames, frame) /\ state' = paid
  BY <1>1, <1>4, <1>5, <1>9, ExecutesFacts DEF ContextStep, OpensContext
<1> QED BY <1>6, <1>7, <1>8, <1>9

\* So is SSTORE.
LEMMA SstoreShape ==
  ASSUME TypeOK, NEW value \in Word, ExecSstore(value)
  PROVE  ContextStep
<1> DEFINE written == UpdateAccount(state, Top.address, [Self(state) EXCEPT !.slot = value])
<1>1. Executes("SSTORE") /\ (StateModificationError \/ Continue(written))
  BY DEF ExecSstore
<1>2. Self(state) \in Account
  BY <1>1, ExecutesFacts, TypesOfVariables, AccountOfType DEF Self
<1>3. [Self(state) EXCEPT !.slot = value] \in Account
  BY <1>2 DEF Account
<1>4. written \in State
  BY <1>1, <1>3, ExecutesFacts, TypesOfVariables, UpdateAccountType
<1> HIDE DEF written
<1>5. CASE StateModificationError
  BY <1>1, <1>5, ExecutesFacts, TypesOfVariables, StateModificationErrorStops DEF ContextStep
<1>6. CASE Continue(written)
  BY <1>1, <1>4, <1>6, ExecutesFacts DEF ContextStep, Continue
<1> QED BY <1>1, <1>5, <1>6

\* So is LOG.
LEMMA LogShape ==
  ASSUME TypeOK, ExecLog
  PROVE  ContextStep
<1> DEFINE logged == [state EXCEPT !.events = @ + 1]
<1>1. Executes("LOG") /\ (StateModificationError \/ Continue(logged))
  BY DEF ExecLog
<1>2. logged \in State
  BY SMTT(60), TypesOfVariables DEF State
<1> HIDE DEF logged
<1>3. CASE StateModificationError
  BY <1>1, <1>3, ExecutesFacts, TypesOfVariables, StateModificationErrorStops DEF ContextStep
<1>4. CASE Continue(logged)
  BY <1>1, <1>2, <1>4, ExecutesFacts DEF ContextStep, Continue
<1> QED BY <1>1, <1>3, <1>4

\* So is SELFDESTRUCT.
LEMMA SelfdestructShape ==
  ASSUME TypeOK, NEW named \in Addr, ExecSelfdestruct(named)
  PROVE  ContextStep
<1> DEFINE s == CacheAccount(chain, state, named)
           recipient == IF Self(s).created /\ named = Top.address THEN BurnAddress ELSE named
           swept == AddTransfer(chain, CacheAccount(chain, s, recipient), Top.address,
                                recipient, Self(s).balance)
           marked == UpdateAccount(swept, Top.address,
                                   [Self(swept) EXCEPT !.selfdestruct = TRUE])
<1>1. Executes("SELFDESTRUCT")
  BY DEF ExecSelfdestruct
<1>2. \/ StateModificationError
      \/ state' = marked /\ StopTop("success", "none")
  BY DEF ExecSelfdestruct
<1>3. s \in State /\ recipient \in Addr
  BY TypesOfVariables, CacheAccountType, BoundsOfInputs
<1> HIDE DEF s, recipient
<1>4. Self(s) \in Account
  BY <1>1, <1>3, ExecutesFacts, TypesOfVariables, AccountOfType DEF Self
<1>5. Self(s).balance \in Nat
  BY <1>4 DEF Account
<1>6. swept \in State
  BY <1>1, <1>3, <1>5, ExecutesFacts, TypesOfVariables, CacheAccountType, AddTransferType
<1> HIDE DEF swept
<1>7. Self(swept) \in Account
  BY <1>1, <1>6, ExecutesFacts, TypesOfVariables, AccountOfType DEF Self
<1>8. [Self(swept) EXCEPT !.selfdestruct = TRUE] \in Account
  BY <1>7 DEF Account
<1>9. marked \in State
  BY <1>1, <1>6, <1>8, ExecutesFacts, UpdateAccountType
<1> HIDE DEF marked
<1>10. CASE StateModificationError
  BY <1>1, <1>10, ExecutesFacts, TypesOfVariables, StateModificationErrorStops DEF ContextStep
<1>11. CASE state' = marked /\ StopTop("success", "none")
  BY <1>1, <1>9, <1>11, ExecutesFacts, StatusErrors, StopTopStops DEF ContextStep
<1> QED BY <1>2, <1>10, <1>11

\* Every opcode is a step of ContextStep.
LEMMA OpcodeShape ==
  ASSUME TypeOK, Opcode
  PROVE  ContextStep
<1>1. CASE \E to \in Callees, value \in Values : ExecCall(to, value) \/ ExecCallcode(to, value)
  BY <1>1, BoundsOfInputs, CallShape, CallcodeShape
<1>2. CASE \E to \in Callees : ExecStaticcall(to) \/ ExecDelegatecall(to) \/ ExecSelfdestruct(to)
  BY <1>2, BoundsOfInputs, StaticcallShape, DelegatecallShape, SelfdestructShape
<1>3. CASE \E target \in CreateTargets, value \in Values : ExecCreate(target, value)
  BY <1>3, BoundsOfInputs, CreateShape
<1>4. CASE \E value \in Word : ExecSstore(value)
  BY <1>4, SstoreShape
<1>5. CASE ExecLog
  BY <1>5, LogShape
<1> QED BY <1>1, <1>2, <1>3, <1>4, <1>5 DEF Opcode

-----------------------------------------------------------------------------
(***************************************************************************)
(* The invariant through a step that opens, stops or keeps contexts.        *)
(***************************************************************************)
\* A step that keeps the contexts keeps what is said of them.
LEMMA KeptFrames ==
  ASSUME IInv, phase = "run", frames' = frames,
         chain' = chain, base' = base, phase' = phase, tx' = tx
  PROVE  /\ CallersHaveCode' /\ InheritedOnly' /\ RootSawBase' /\ FramesWhileRunning'
         /\ EffectsOnRecord' /\ NoOrphanCairoEffect'
BY DEF IInv, CallersHaveCode, InheritedOnly, RootSawBase, FramesWhileRunning,
       EffectsOnRecord, NoOrphanCairoEffect, CalledCairo, Running, Top, Parent, Depth

\* Stopping the top context keeps what is said of all of them.
LEMMA ReplacedTop ==
  ASSUME IInv, phase = "run", NEW frame \in Frame,
         frames' = [frames EXCEPT ![Depth] = frame],
         frame.status # "running",
         frame.cairo_before = Top.cairo_before, frame.leaked_before = Top.leaked_before,
         base' = base, phase' = phase, tx'.status = tx.status
  PROVE  /\ CallersHaveCode' /\ InheritedOnly' /\ RootSawBase' /\ FramesWhileRunning'
         /\ NoOrphanCairoEffect'
         /\ frames' \in Seq(Frame) /\ frames' # <<>> /\ Depth' = Depth
         /\ \A i \in 1..(Depth - 1) : frames'[i] = frames[i]
         /\ frames'[Depth] = frame
<1>1. TypeOK /\ frames \in Seq(Frame) /\ frames # <<>>
  BY DEF IInv, TypeOK
<1>2. /\ frames' \in Seq(Frame) /\ Len(frames') = Len(frames)
      /\ \A i \in 1..(Depth - 1) : frames'[i] = frames[i]
      /\ frames'[Depth] = frame
  BY <1>1, ReplaceTop DEF Depth
<1>3. Depth \in Nat /\ Depth > 0 /\ Depth' = Depth /\ frames' # <<>>
  <2>1. Depth \in Nat /\ Depth > 0
    BY ZenonT(30), <1>1, TopIsFrame
  <2>2. Len(frames') > 0
    BY <1>2, <2>1 DEF Depth
  <2>3. frames' # <<>>
    BY SMTT(30), <1>2, <2>2
  <2>4. Depth' = Depth
    BY <1>2 DEF Depth
  <2> QED BY <2>1, <2>3, <2>4
<1>4. CallersHaveCode'
  BY <1>2, <1>3 DEF IInv, CallersHaveCode
<1>5. InheritedOnly'
  BY <1>2, <1>3 DEF InheritedOnly, Running, Top
<1>6. RootSawBase'
  <2>1. CASE Depth = 1
    BY <1>1, <1>2, <2>1 DEF IInv, RootSawBase, Top
  <2>2. CASE Depth # 1
    <3>1. frames'[1] = frames[1]
      BY <1>2, <1>3, <2>2
    <3> QED BY <1>1, <3>1 DEF IInv, RootSawBase
  <2> QED BY <2>1, <2>2
<1>7. FramesWhileRunning'
  BY <1>3 DEF IInv, FramesWhileRunning
<1>8. NoOrphanCairoEffect'
  BY DEF IInv, FramesWhileRunning, NoOrphanCairoEffect
<1> QED BY <1>2, <1>3, <1>4, <1>5, <1>6, <1>7, <1>8

\* Opening a context with the caller's record keeps it too.
LEMMA PushedFrame ==
  ASSUME IInv, phase = "run", Top.has_code, OpensContext,
         chain' = chain, base' = base, phase' = phase, tx' = tx
  PROVE  /\ CallersHaveCode' /\ InheritedOnly' /\ RootSawBase' /\ FramesWhileRunning'
         /\ EffectsOnRecord' /\ NoOrphanCairoEffect'
         /\ frames' \in Seq(Frame) /\ frames' # <<>>
<1>1. TypeOK /\ frames \in Seq(Frame) /\ frames # <<>>
  BY DEF IInv, TypeOK
<1>2. PICK frame \in Frame :
        /\ frames' = Append(frames, frame)
        /\ frame.cairo_precompile_called = Top.cairo_precompile_called
        /\ frame.cairo_before = chain.cairo
        /\ frame.leaked_before = tx.leaked
  BY DEF OpensContext
<1>3. /\ frames' \in Seq(Frame) /\ Depth' = Depth + 1
      /\ \A i \in 1..Depth : frames'[i] = frames[i]
      /\ frames'[Depth + 1] = frame
  BY <1>1, <1>2, PushFrame DEF Depth
<1>4. Depth \in Nat /\ Depth > 0
  BY <1>1, TopIsFrame
<1>5. frames' # <<>>
  BY <1>3, <1>4 DEF Depth
<1>6. CallersHaveCode'
  <2>1. \A i \in 1..Depth : i \in 1..(Depth - 1) \/ i = Depth
    BY <1>4
  <2>2. \A i \in 1..Depth : frames[i].has_code
    BY <2>1 DEF IInv, CallersHaveCode, Top
  <2>3. (Depth + 1) - 1 = Depth
    BY <1>4
  <2> QED BY <1>3, <2>2, <2>3 DEF CallersHaveCode
<1>7. InheritedOnly'
  <2>1. Top' = frame /\ Parent' = Top
    BY <1>3, <1>4 DEF Top, Parent
  <2>2. ~CalledCairo(Top)'
    BY <1>1, <1>2, <2>1, TypesOfVariables DEF CalledCairo
  <2> QED BY <1>2, <2>1, <2>2 DEF InheritedOnly
<1>8. RootSawBase'
  BY <1>1, <1>3, <1>4 DEF IInv, RootSawBase
<1>9. FramesWhileRunning'
  BY <1>5 DEF IInv, FramesWhileRunning
<1>10. EffectsOnRecord'
  <2> SUFFICES ASSUME ~tx.wrapped, NEW i \in 1..(Depth + 1), CalledCairo(frames'[i])
               PROVE  \E j \in i..(Depth + 1) : frames'[j].cairo_precompile_called # 0
    BY <1>3 DEF EffectsOnRecord, CalledCairo
  <2>1. i # Depth + 1
    BY <1>1, <1>2, <1>3, TypesOfVariables DEF CalledCairo
  <2>2. i \in 1..Depth /\ CalledCairo(frames[i])
    BY <1>3, <1>4, <2>1
  <2>3. PICK j \in i..Depth : frames[j].cairo_precompile_called # 0
    BY <2>2 DEF IInv, EffectsOnRecord
  <2>4. j \in 1..Depth /\ j \in i..(Depth + 1)
    BY <1>4, <2>2
  <2> QED BY <1>3, <2>3, <2>4
<1>11. NoOrphanCairoEffect'
  BY DEF IInv, FramesWhileRunning, NoOrphanCairoEffect
<1> QED BY <1>3, <1>5, <1>6, <1>7, <1>8, <1>9, <1>10, <1>11

\* A step of ContextStep preserves the invariant.
LEMMA ContextStepPreserves ==
  ASSUME IInv, ContextStep
  PROVE  IInv'
<1>1. TypeOK /\ phase = "run" /\ frames # <<>>
  BY DEF IInv, TypeOK, ContextStep, Running
<1>2. /\ chain' = chain /\ base' = base /\ phase' = phase /\ tx' = tx
      /\ to_commit' = to_commit /\ txs' = txs /\ steps' \in Nat /\ state' \in State
  BY DEF ContextStep
<1>3. CASE frames' = frames
  <2>1. TypeOK'
    BY <1>1, <1>2, <1>3 DEF TypeOK
  <2> QED BY <1>1, <1>2, <1>3, <2>1, KeptFrames DEF IInv
<1>4. CASE StopsTop
  <2>1. PICK status \in Status \ {"running"}, output \in Output :
          frames' = [frames EXCEPT ![Depth] = Stopped(Top, status, output)]
    BY <1>4 DEF StopsTop
  <2> DEFINE frame == Stopped(Top, status, output)
  <2>2. /\ Top \in Frame /\ frame \in Frame /\ frame.status # "running"
        /\ frame.cairo_before = Top.cairo_before
        /\ frame.leaked_before = Top.leaked_before
        /\ frame.cairo_precompile_called = Top.cairo_precompile_called
    BY <1>1, TopIsFrame, StoppedType DEF Stopped, Frame
  <2> HIDE DEF frame
  <2>3. /\ CallersHaveCode' /\ InheritedOnly' /\ RootSawBase' /\ FramesWhileRunning'
        /\ NoOrphanCairoEffect'
        /\ frames' \in Seq(Frame) /\ frames' # <<>> /\ Depth' = Depth
        /\ \A i \in 1..(Depth - 1) : frames'[i] = frames[i]
        /\ frames'[Depth] = frame
    BY <1>1, <1>2, <2>1, <2>2, ReplacedTop DEF frame
  <2>4. TypeOK'
    BY <1>1, <1>2, <2>3 DEF TypeOK
  <2>5. \A i \in 1..Depth :
          /\ frames'[i].cairo_precompile_called = frames[i].cairo_precompile_called
          /\ frames'[i].cairo_before = frames[i].cairo_before
          /\ frames'[i].leaked_before = frames[i].leaked_before
    <3>1. \A i \in 1..Depth : i \in 1..(Depth - 1) \/ i = Depth
      BY <1>1, TopIsFrame
    <3> QED BY <2>2, <2>3, <3>1 DEF Top
  <2>6. EffectsOnRecord'
    <3> SUFFICES ASSUME ~tx.wrapped, NEW i \in 1..Depth, CalledCairo(frames[i])
                 PROVE  \E j \in i..Depth : frames'[j].cairo_precompile_called # 0
      BY <1>2, <2>3, <2>5 DEF EffectsOnRecord, CalledCairo
    <3>1. PICK j \in i..Depth : frames[j].cairo_precompile_called # 0
      BY DEF IInv, EffectsOnRecord
    <3>2. j \in 1..Depth
      BY <1>1, TopIsFrame
    <3> QED BY <2>5, <3>1, <3>2
  <2> QED BY <2>3, <2>4, <2>6 DEF IInv
<1>5. CASE Top.has_code /\ OpensContext
  <2>1. /\ CallersHaveCode' /\ InheritedOnly' /\ RootSawBase' /\ FramesWhileRunning'
        /\ EffectsOnRecord' /\ NoOrphanCairoEffect'
        /\ frames' \in Seq(Frame) /\ frames' # <<>>
    BY <1>1, <1>2, <1>5, PushedFrame
  <2>2. TypeOK'
    BY <1>1, <1>2, <2>1 DEF TypeOK
  <2> QED BY <2>1, <2>2 DEF IInv
<1> QED BY <1>3, <1>4, <1>5 DEF ContextStep

-----------------------------------------------------------------------------
(***************************************************************************)
(* The invariant through the end of a context.                              *)
(***************************************************************************)
\* So does the abortion of the Starknet transaction.
LEMMA AbortPreserves ==
  ASSUME IInv, Abort
  PROVE  IInv'
<1>1. TypeOK
  BY DEF IInv
<1>2. /\ chain' = base /\ base' = base /\ phase' = "idle" /\ frames' = <<>>
      /\ tx' = [tx EXCEPT !.status = "aborted"] /\ state' = InitState
      /\ to_commit' = {} /\ steps' = 0 /\ txs' = txs
  BY DEF Abort
<1>3. tx' \in Transaction /\ tx'.status = "aborted"
  BY <1>1, <1>2, TypesOfVariables DEF Transaction, TxStatus
<1>4. frames' \in Seq(Frame) /\ Depth' = 0
  BY <1>2 DEF Depth
<1>5. TypeOK'
  BY <1>1, <1>2, <1>3, <1>4, InitStateType DEF TypeOK
<1>6. CallersHaveCode' /\ EffectsOnRecord'
  BY <1>4 DEF CallersHaveCode, EffectsOnRecord
<1>7. InheritedOnly' /\ RootSawBase' /\ FramesWhileRunning' /\ NoOrphanCairoEffect'
  BY <1>2, <1>3 DEF InheritedOnly, Running, RootSawBase, FramesWhileRunning,
                    NoOrphanCairoEffect
<1> QED BY <1>5, <1>6, <1>7 DEF IInv

\* So does the end of a context that called no precompile.
LEMMA PlainEndPreserves ==
  ASSUME IInv, ExecReturn \/ ExecRevert \/ ExceptionalHalt
  PROVE  IInv'
<1>1. TypeOK
  BY DEF IInv
<1>2. /\ Running /\ chain' = chain /\ base' = base /\ phase' = phase /\ tx' = tx
      /\ state' = state /\ to_commit' = to_commit /\ steps' = steps /\ txs' = txs
  BY DEF ExecReturn, ExecRevert, ExceptionalHalt, Ends
<1>3. \E status \in Status \ {"running"}, output \in Output : StopTop(status, output)
  BY StatusErrors DEF ExecReturn, ExecRevert, ExceptionalHalt
<1>4. StopsTop
  BY <1>3, StopTopStops
<1>5. ContextStep
  BY <1>1, <1>2, <1>4, TypesOfVariables DEF ContextStep
<1> QED BY <1>5, ContextStepPreserves

\* So does a precompile that records every Cairo call that it made.
LEMMA PrecompileEndPreserves ==
  ASSUME IInv, Running, ~Top.has_code,
         NEW status \in Status \ {"running"}, NEW called \in Felt,
         StopPrecompile(status, called),
         chain' \in Chain, tx' \in Transaction,
         tx'.status = tx.status, tx'.wrapped = tx.wrapped,
         called # 0 \/ chain'.cairo + tx.leaked = chain.cairo + tx'.leaked,
         base' = base, phase' = phase, state' = state, to_commit' = to_commit,
         steps' = steps, txs' = txs
  PROVE  IInv'
<1> DEFINE frame == [Stopped(Top, status, "none") EXCEPT !.cairo_precompile_called = called]
<1>1. TypeOK /\ phase = "run" /\ Top \in Frame /\ Depth \in Nat /\ Depth > 0
  BY TopIsFrame DEF IInv, Running
<1>2. /\ frame \in Frame /\ frame.status # "running"
      /\ frame.cairo_before = Top.cairo_before
      /\ frame.leaked_before = Top.leaked_before
      /\ frame.cairo_precompile_called = called
  BY <1>1, StatusErrors DEF Stopped, Frame
<1>3. frames' = [frames EXCEPT ![Depth] = frame]
  BY DEF StopPrecompile, Top
<1> HIDE DEF frame
<1>4. /\ CallersHaveCode' /\ InheritedOnly' /\ RootSawBase' /\ FramesWhileRunning'
      /\ NoOrphanCairoEffect'
      /\ frames' \in Seq(Frame) /\ frames' # <<>> /\ Depth' = Depth
      /\ \A i \in 1..(Depth - 1) : frames'[i] = frames[i]
      /\ frames'[Depth] = frame
  BY <1>1, <1>2, <1>3, ReplacedTop
<1>5. TypeOK'
  BY <1>1, <1>4 DEF TypeOK
<1>6. EffectsOnRecord'
  <2> SUFFICES ASSUME ~tx.wrapped, NEW i \in 1..Depth,
                      chain'.cairo + frames'[i].leaked_before
                        # frames'[i].cairo_before + tx'.leaked
               PROVE  \E j \in i..Depth : frames'[j].cairo_precompile_called # 0
    BY <1>4 DEF EffectsOnRecord, CalledCairo
  <2>1. CASE called # 0
    BY <1>1, <1>2, <1>4, <2>1
  <2>2. CASE called = 0
    <3>1. chain'.cairo + tx.leaked = chain.cairo + tx'.leaked
      BY <2>2
    <3>2. frames'[i].cairo_before = frames[i].cairo_before
          /\ frames'[i].leaked_before = frames[i].leaked_before
      <4>1. i \in 1..(Depth - 1) \/ i = Depth
        BY <1>1
      <4> QED BY <1>2, <1>4, <4>1 DEF Top
    <3>3. /\ frames[i].cairo_before \in Nat /\ frames[i].leaked_before \in Nat
          /\ chain.cairo \in Nat /\ tx.leaked \in Nat
          /\ chain'.cairo \in Nat /\ tx'.leaked \in Nat
      <4>1. chain'.cairo \in Nat /\ tx'.leaked \in Nat
        BY DEF Chain, Transaction
      <4> QED BY <1>1, <4>1, TopIsFrame, TopFields, TypesOfVariables
    <3>4. CalledCairo(frames[i])
      BY <3>1, <3>2, <3>3 DEF CalledCairo
    <3>5. ~CalledCairo(frames[Depth])
      BY DEF IInv, InheritedOnly, Top
    <3>6. i \in 1..(Depth - 1)
      BY <1>1, <3>4, <3>5
    <3>7. PICK j \in i..Depth : frames[j].cairo_precompile_called # 0
      BY <3>4 DEF IInv, EffectsOnRecord
    <3>8. frames[Depth].cairo_precompile_called = frames[Depth - 1].cairo_precompile_called
      BY <1>1, <3>6 DEF IInv, InheritedOnly, Top, Parent
    <3>9. PICK k \in i..(Depth - 1) : frames[k].cairo_precompile_called # 0
      <4>1. CASE j = Depth
        <5>1. Depth - 1 \in i..(Depth - 1)
          BY <1>1, <3>6
        <5> QED BY <3>7, <3>8, <4>1, <5>1
      <4>2. CASE j # Depth
        <5>1. j \in i..(Depth - 1)
          BY <1>1, <3>6, <4>2
        <5> QED BY <3>7, <5>1
      <4> QED BY <4>1, <4>2
    <3>10. k \in 1..(Depth - 1) /\ k \in i..Depth
      BY <1>1, <3>6
    <3> QED BY <1>4, <3>9, <3>10
  <2> QED BY <2>1, <2>2
<1> QED BY <1>4, <1>5, <1>6 DEF IInv

\* A context in a precompile runs, and has no code.
LEMMA InPrecompileFacts ==
  ASSUME TypeOK, NEW precompiles, InPrecompile(precompiles)
  PROVE  /\ Running /\ ~Top.has_code /\ phase = "run"
         /\ Top.caller \in Addr
         /\ 0 \in Felt /\ 1 \in Felt
BY TopIsFrame, TopFields, LimitAssumption DEF InPrecompile, Running, Felt

\* Cairo calls keep the type of Starknet's storage and add to its effects.
LEMMA AfterCairoCallsType ==
  ASSUME TypeOK, phase = "run", NEW n \in Nat, NEW balance \in BalancesAfterCairoCalls
  PROVE  /\ AfterCairoCalls(n, balance) \in Chain
         /\ AfterCairoCalls(n, balance).cairo = chain.cairo + n
<1>1. chain \in Chain /\ chain.balance \in [Addr -> Nat] /\ Top.caller \in Addr
  BY TopIsFrame, TopFields, TypesOfVariables DEF Chain
<1>2. balance \in [Addr -> Nat]
  <2>1. ASSUME NEW a \in Addr \ {Top.caller},
               NEW amount \in {v \in Values : v <= chain.balance[Top.caller]}
        PROVE  NativeMoved(a, amount) \in [Addr -> Nat]
    <3>1. chain.balance[Top.caller] \in Nat /\ chain.balance[a] \in Nat /\ amount \in Nat
      BY <1>1, BoundsOfInputs
    <3>2. chain.balance[Top.caller] - amount \in Nat /\ chain.balance[a] + amount \in Nat
      BY <3>1
    <3> QED BY <1>1, <3>2 DEF NativeMoved
  <2>2. CASE balance = chain.balance
    BY <1>1, <2>2
  <2>3. CASE balance # chain.balance
    <3>1. PICK a \in IF CairoMovesNative THEN Addr \ {Top.caller} ELSE {},
               amount \in {v \in Values : v <= chain.balance[Top.caller]} :
            balance = NativeMoved(a, amount)
      BY <2>3 DEF BalancesAfterCairoCalls
    <3> QED BY <2>1, <3>1
  <2> QED BY <2>2, <2>3
<1>3. chain.registered \cup {Top.caller} \in SUBSET Addr
  BY <1>1 DEF Chain
<1>4. chain.cairo + n \in Nat
  BY TypesOfVariables
<1> QED BY <1>1, <1>2, <1>3, <1>4 DEF AfterCairoCalls, Chain

\* An Ethereum precompile preserves the invariant.
LEMMA EthPrecompilePreserves ==
  ASSUME IInv, EthPrecompile
  PROVE  IInv'
<1>1. TypeOK /\ InPrecompile(EthPrecompiles)
  BY DEF IInv, EthPrecompile
<1>2. PICK status \in Status \ {"running"} : StopPrecompile(status, 0)
  BY StatusErrors DEF EthPrecompile
<1>3. /\ chain' = chain /\ base' = base /\ phase' = phase /\ tx' = tx /\ state' = state
      /\ to_commit' = to_commit /\ steps' = steps /\ txs' = txs
  BY DEF EthPrecompile
<1> QED BY <1>1, <1>2, <1>3, InPrecompileFacts, TypesOfVariables, PrecompileEndPreserves

\* So does a Cairo precompile that refuses its input.
LEMMA CairoPrecompileRefusesPreserves ==
  ASSUME IInv, CairoPrecompileRefuses
  PROVE  IInv'
<1>1. TypeOK /\ InPrecompile(CairoPrecompiles)
  BY DEF IInv, CairoPrecompileRefuses
<1>2. StopPrecompile("EXCEPTIONAL_HALT", 0)
  BY DEF CairoPrecompileRefuses
<1>3. /\ chain' = chain /\ base' = base /\ phase' = phase /\ tx' = tx /\ state' = state
      /\ to_commit' = to_commit /\ steps' = steps /\ txs' = txs
  BY DEF CairoPrecompileRefuses
<1> QED BY <1>1, <1>2, <1>3, InPrecompileFacts, StatusErrors, TypesOfVariables,
           PrecompileEndPreserves

\* So does one that makes its calls.
LEMMA CairoPrecompileExecutesPreserves ==
  ASSUME IInv, CairoPrecompileExecutes
  PROVE  IInv'
<1>1. TypeOK /\ InPrecompile(CairoPrecompiles)
  BY DEF IInv, CairoPrecompileExecutes
<1>2. PICK n \in IF Top.code_address = CairoMulticall THEN 0..MaxBatch ELSE {1},
           balance \in BalancesAfterCairoCalls, status \in {"success", "EXCEPTIONAL_HALT"} :
        /\ chain' = IF n = 0 THEN chain ELSE AfterCairoCalls(n, balance)
        /\ StopPrecompile(status, 1)
  BY DEF CairoPrecompileExecutes
<1>3. n \in Nat /\ status \in Status \ {"running"}
  BY StatusErrors, LimitAssumption
<1>4. chain' \in Chain
  BY <1>1, <1>2, <1>3, InPrecompileFacts, TypesOfVariables, AfterCairoCallsType
<1>5. /\ base' = base /\ phase' = phase /\ tx' = tx /\ state' = state
      /\ to_commit' = to_commit /\ steps' = steps /\ txs' = txs
  BY DEF CairoPrecompileExecutes
<1> QED BY <1>1, <1>2, <1>3, <1>4, <1>5, InPrecompileFacts, TypesOfVariables,
           PrecompileEndPreserves

\* So does a batch that fails, whose calls are counted in tx.leaked.
LEMMA CairoBatchFailsPreserves ==
  ASSUME IInv, CairoBatchFails
  PROVE  IInv'
<1>1. TypeOK /\ InPrecompile(CairoPrecompiles)
  BY DEF IInv, CairoBatchFails
<1>2. PICK n \in 1..(MaxBatch - 1), balance \in BalancesAfterCairoCalls :
        /\ chain' = AfterCairoCalls(n, balance)
        /\ tx' = [tx EXCEPT !.leaked = @ + n]
  BY DEF CairoBatchFails
<1>3. n \in Nat
  BY LimitAssumption
<1>4. chain' \in Chain /\ chain'.cairo = chain.cairo + n
  BY <1>1, <1>2, <1>3, InPrecompileFacts, AfterCairoCallsType
<1>5. /\ tx' \in Transaction /\ tx'.leaked = tx.leaked + n
      /\ tx'.status = tx.status /\ tx'.wrapped = tx.wrapped
  BY <1>1, <1>2, <1>3, TypesOfVariables DEF Transaction
<1>6. chain'.cairo + tx.leaked = chain.cairo + tx'.leaked
  BY <1>1, <1>3, <1>4, <1>5, TypesOfVariables
<1>7. /\ base' = base /\ phase' = phase /\ state' = state
      /\ to_commit' = to_commit /\ steps' = steps /\ txs' = txs
      /\ StopPrecompile("EXCEPTIONAL_HALT", 0)
  BY DEF CairoBatchFails
<1> QED BY <1>1, <1>4, <1>5, <1>6, <1>7, InPrecompileFacts, StatusErrors,
           PrecompileEndPreserves

\* Every end of a context preserves the invariant.
LEMMA EndPreserves ==
  ASSUME IInv, End
  PROVE  IInv'
BY PlainEndPreserves, EthPrecompilePreserves, CairoPrecompileRefusesPreserves,
   CairoPrecompileExecutesPreserves, CairoBatchFailsPreserves, AbortPreserves
   DEF End, CairoCallPanics

-----------------------------------------------------------------------------
(***************************************************************************)
(* The invariant through the end of a call or of a creation.                *)
(***************************************************************************)
\* Unless it wraps around, a sum of records is zero only if both are.
LEMMA SumOfFelts ==
  ASSUME NEW a \in Felt, NEW b \in Felt
  PROVE  /\ (a + b) % FieldPrime \in Felt
         /\ a + b < FieldPrime /\ (a # 0 \/ b # 0) => (a + b) % FieldPrime # 0
<1>1. FieldPrime \in Nat /\ FieldPrime > 0
  BY LimitAssumption
<1>2. a \in Nat /\ b \in Nat /\ a + b \in Nat
  BY <1>1 DEF Felt
<1>3. (a + b) % FieldPrime \in 0..(FieldPrime - 1)
  BY <1>1, <1>2
<1>4. ASSUME a + b < FieldPrime
      PROVE  (a + b) % FieldPrime = a + b
  BY <1>1, <1>2, <1>4
<1> QED BY <1>2, <1>3, <1>4 DEF Felt

\* The contexts after the caller has resumed.
LEMMA ResumedFrames ==
  ASSUME TypeOK, phase = "run", Depth > 1, NEW s, Resume(s)
  PROVE  /\ frames' \in Seq(Frame) /\ frames' # <<>> /\ Depth' = Depth - 1
         /\ \A i \in 1..(Depth - 2) : frames'[i] = frames[i]
         /\ frames'[Depth - 1] = [Parent EXCEPT !.cairo_precompile_called = CairoCalled]
<1> DEFINE n == Depth - 1
           resumed == [Parent EXCEPT !.cairo_precompile_called = CairoCalled]
<1>1. /\ frames \in Seq(Frame) /\ Depth \in Nat /\ n \in 1..Depth
      /\ Parent \in Frame /\ Top \in Frame
  BY TopIsFrame DEF TypeOK, Parent
<1>2. CairoCalled \in Felt
  BY <1>1, TopFields, SumOfFelts DEF CairoCalled, SumOfCalls
<1>3. resumed \in Frame
  BY <1>1, <1>2 DEF Frame
<1>4. SubSeq(frames, 1, n)[n] = Parent
  BY <1>1 DEF Parent
<1>5. frames' = [SubSeq(frames, 1, n) EXCEPT ![n] = resumed]
  BY <1>4 DEF Resume
<1> HIDE DEF resumed
<1>6. /\ frames' \in Seq(Frame) /\ Len(frames') = n
      /\ \A i \in 1..(n - 1) : frames'[i] = frames[i]
      /\ frames'[n] = resumed
  BY <1>1, <1>3, <1>5, PopFrame DEF Depth
<1>7. Depth' = n
  BY <1>6 DEF Depth
<1>8. frames' # <<>>
  BY <1>1, <1>6
<1>9. n - 1 = Depth - 2
  BY <1>1
<1> QED BY <1>6, <1>7, <1>8, <1>9 DEF resumed

\* Resuming a caller, whose record becomes the sum of both, preserves it.
LEMMA ResumePreserves ==
  ASSUME IInv, phase = "run", Depth > 1, NEW s \in State, Resume(s)
  PROVE  IInv'
<1>1. /\ TypeOK /\ Depth \in Nat /\ Depth - 1 \in 1..Depth
      /\ Parent \in Frame /\ Top \in Frame /\ Parent.has_code
  BY TopIsFrame DEF IInv, CallersHaveCode, Parent
<1>2. /\ frames' \in Seq(Frame) /\ frames' # <<>> /\ Depth' = Depth - 1
      /\ \A i \in 1..(Depth - 2) : frames'[i] = frames[i]
      /\ frames'[Depth - 1] = [Parent EXCEPT !.cairo_precompile_called = CairoCalled]
  BY <1>1, ResumedFrames
<1>3. /\ frames'[Depth - 1].has_code
      /\ frames'[Depth - 1].cairo_before = Parent.cairo_before
      /\ frames'[Depth - 1].leaked_before = Parent.leaked_before
      /\ frames'[Depth - 1].cairo_precompile_called = CairoCalled
  BY <1>1, <1>2 DEF Frame
<1>4. \A i \in 1..(Depth - 1) :
        /\ frames'[i].cairo_before = frames[i].cairo_before
        /\ frames'[i].leaked_before = frames[i].leaked_before
  <2>1. \A i \in 1..(Depth - 1) : i \in 1..(Depth - 2) \/ i = Depth - 1
    BY <1>1
  <2> QED BY <1>2, <1>3, <2>1 DEF Parent
<1>5. /\ chain' = chain /\ base' = base /\ phase' = phase /\ state' = s
      /\ to_commit' = to_commit /\ steps' = steps /\ txs' = txs
  BY DEF Resume
<1>6. /\ tx' \in Transaction /\ tx'.status = tx.status /\ tx'.leaked = tx.leaked
      /\ ~tx'.wrapped => ~tx.wrapped /\ SumOfCalls < FieldPrime
  <2>1. tx' = [tx EXCEPT !.wrapped = @ \/ SumOfCalls >= FieldPrime]
    BY DEF Resume
  <2>2. tx \in Transaction /\ tx.wrapped \in BOOLEAN
    BY <1>1, TypesOfVariables DEF Transaction
  <2>3. (tx.wrapped \/ SumOfCalls >= FieldPrime) \in BOOLEAN
    OBVIOUS
  <2>4. /\ tx' \in Transaction /\ tx'.status = tx.status /\ tx'.leaked = tx.leaked
        /\ tx'.wrapped = (tx.wrapped \/ SumOfCalls >= FieldPrime)
    BY <2>1, <2>2, <2>3 DEF Transaction
  <2>5. SumOfCalls \in Nat /\ FieldPrime \in Nat
    BY <1>1, TopFields, LimitAssumption DEF SumOfCalls, Felt
  <2>6. SumOfCalls >= FieldPrime \/ SumOfCalls < FieldPrime
    BY <2>5
  <2> QED BY <2>2, <2>4, <2>6
<1>7. TypeOK'
  BY <1>1, <1>2, <1>5, <1>6 DEF TypeOK
<1>8. CallersHaveCode'
  <2>1. \A i \in 1..(Depth - 2) : i \in 1..(Depth - 1)
    BY <1>1
  <2>2. (Depth - 1) - 1 = Depth - 2
    BY <1>1
  <2> QED BY <1>2, <2>1, <2>2 DEF IInv, CallersHaveCode
<1>9. InheritedOnly'
  BY <1>2, <1>3 DEF InheritedOnly, Top
<1>10. RootSawBase'
  <2>1. 1 \in 1..(Depth - 1)
    BY <1>1
  <2>2. frames # <<>>
    BY DEF IInv, FramesWhileRunning
  <2> QED BY <1>4, <1>5, <2>1, <2>2 DEF IInv, RootSawBase
<1>11. FramesWhileRunning' /\ NoOrphanCairoEffect'
  BY <1>2, <1>5, <1>6 DEF IInv, FramesWhileRunning, NoOrphanCairoEffect
<1>12. EffectsOnRecord'
  <2> SUFFICES ASSUME ~tx'.wrapped, NEW i \in 1..(Depth - 1),
                      chain.cairo + frames[i].leaked_before
                        # frames[i].cairo_before + tx.leaked
               PROVE  \E j \in i..(Depth - 1) : frames'[j].cairo_precompile_called # 0
    BY <1>2, <1>4, <1>5, <1>6 DEF EffectsOnRecord, CalledCairo
  <2>1. i \in 1..Depth /\ CalledCairo(frames[i]) /\ ~tx.wrapped /\ SumOfCalls < FieldPrime
    BY <1>1, <1>6 DEF CalledCairo
  <2>2. PICK j \in i..Depth : frames[j].cairo_precompile_called # 0
    BY <2>1 DEF IInv, EffectsOnRecord
  <2>3. CASE j \in 1..(Depth - 2)
    <3>1. j \in i..(Depth - 1)
      BY <1>1, <2>1, <2>3
    <3> QED BY <1>2, <2>2, <2>3, <3>1
  <2>4. CASE j = Depth - 1 \/ j = Depth
    <3>1. Top.cairo_precompile_called # 0 \/ Parent.cairo_precompile_called # 0
      BY <2>2, <2>4 DEF Top, Parent
    <3>2. Top.cairo_precompile_called \in Felt /\ Parent.cairo_precompile_called \in Felt
      BY <1>1, TopFields
    <3>3. CairoCalled # 0
      BY <2>1, <3>1, <3>2, SumOfFelts DEF CairoCalled, SumOfCalls
    <3>4. Depth - 1 \in i..(Depth - 1)
      BY <1>1
    <3> QED BY <1>3, <3>3, <3>4
  <2>5. j \in 1..(Depth - 2) \/ j = Depth - 1 \/ j = Depth
    BY <1>1, <2>1
  <2> QED BY <2>3, <2>4, <2>5
<1> QED BY <1>7, <1>8, <1>9, <1>10, <1>11, <1>12 DEF IInv

\* Deploying the code of a creation keeps the state's type.
LEMMA WithCodeType ==
  ASSUME TypeOK, NEW s \in State, NEW frame \in Frame
  PROVE  WithCode(s, frame) \in State
<1>1. frame.address \in Addr /\ AccountOf(chain, s, frame.address) \in Account
  BY TopFields, TypesOfVariables, AccountOfType
<1>2. (frame.output = "code") \in BOOLEAN
  OBVIOUS
<1>3. [AccountOf(chain, s, frame.address) EXCEPT !.code = frame.output = "code",
                                                 !.created = TRUE] \in Account
  BY <1>1, <1>2 DEF Account
<1> QED BY <1>1, <1>3, UpdateAccountType DEF WithCode

\* The end of a call preserves the invariant.
LEMMA FinalizeCallPreserves ==
  ASSUME IInv, FinalizeCall
  PROVE  IInv'
<1>1. TypeOK /\ phase = "run" /\ Depth > 1
  BY DEF IInv, FinalizeCall, TopStopped
<1>2. Top.parent_state \in State /\ Top.code_address \in Addr
  BY <1>1, TopIsFrame, TopFields
<1>3. /\ CacheAccount(chain, Top.parent_state, Top.code_address) \in State
      /\ CacheAccount(chain, state, Top.code_address) \in State
  BY <1>1, <1>2, TypesOfVariables, CacheAccountType
<1>4. \/ Abort
      \/ Resume(CacheAccount(chain, Top.parent_state, Top.code_address))
      \/ Resume(CacheAccount(chain, state, Top.code_address))
  BY DEF FinalizeCall
<1> QED BY <1>1, <1>3, <1>4, AbortPreserves, ResumePreserves

\* So does the end of a creation.
LEMMA FinalizeCreatePreserves ==
  ASSUME IInv, FinalizeCreate
  PROVE  IInv'
<1>1. TypeOK /\ phase = "run" /\ Depth > 1
  BY DEF IInv, FinalizeCreate, TopStopped
<1>2. Top \in Frame /\ Top.parent_state \in State
  BY <1>1, TopIsFrame, TopFields
<1>3. WithCode(state, Top) \in State
  BY <1>1, <1>2, TypesOfVariables, WithCodeType
<1>4. Abort \/ Resume(Top.parent_state) \/ Resume(WithCode(state, Top))
  BY DEF FinalizeCreate
<1> QED BY <1>1, <1>2, <1>3, <1>4, AbortPreserves, ResumePreserves

-----------------------------------------------------------------------------
(***************************************************************************)
(* The invariant outside of Interpreter.run: the fee, the commit and the    *)
(* next transaction.                                                       *)
(***************************************************************************)
\* Paying the fee keeps the state's type.
LEMMA FeesType ==
  ASSUME TypeOK, NEW fee \in Nat
  PROVE  /\ \A s \in State : PayFee(s, fee) \in State
         /\ PayFeeAfterRevert(fee) \in State
<1>1. tx.origin \in Addr /\ Coinbase \in Addr /\ MaxFee \in Nat /\ chain \in Chain
  BY TypesOfVariables, BoundsOfInputs, AmountAssumption
<1>2. ASSUME NEW s \in State
      PROVE  /\ [AccountOf(chain, s, tx.origin) EXCEPT !.balance = @ + MaxFee] \in Account
             /\ [AccountOf(chain, s, tx.origin) EXCEPT !.nonce = @ + 1] \in Account
  <2>1. AccountOf(chain, s, tx.origin) \in Account
    BY <1>1, AccountOfType
  <2> QED BY <1>1, <2>1 DEF Account
<1>3. ASSUME NEW s \in State
      PROVE  PayFee(s, fee) \in State
  <2> DEFINE paid == UpdateAccount(s, tx.origin,
                       [AccountOf(chain, s, tx.origin) EXCEPT !.balance = @ + MaxFee])
  <2>1. paid \in State
    BY <1>1, <1>2, UpdateAccountType
  <2>2. PayFee(s, fee) = AddTransfer(chain, paid, tx.origin, Coinbase, fee)
    BY DEF PayFee
  <2> HIDE DEF paid
  <2> QED BY <1>1, <2>1, <2>2, AddTransferType
<1>4. PayFeeAfterRevert(fee) \in State
  <2> DEFINE counted == UpdateAccount(InitState, tx.origin,
                          [AccountOf(chain, InitState, tx.origin) EXCEPT !.nonce = @ + 1])
  <2>1. counted \in State
    BY <1>1, <1>2, InitStateType, UpdateAccountType
  <2>2. PayFeeAfterRevert(fee) = AddTransfer(chain, counted, tx.origin, Coinbase, fee)
    BY DEF PayFeeAfterRevert
  <2> HIDE DEF counted
  <2> QED BY <1>1, <2>1, <2>2, AddTransferType
<1> QED BY <1>3, <1>4

\* Leaving run preserves the invariant, if a reverted root has no record.
LEMMA SettlePreserves ==
  ASSUME IInv, phase = "run", Depth = 1,
         NEW status \in {"success", "reverted"}, NEW fee \in Nat, NEW s \in State,
         status = "reverted" => Top.cairo_precompile_called = 0,
         Settle(status, fee, s)
  PROVE  IInv'
<1>1. TypeOK
  BY DEF IInv
<1>2. /\ chain' = chain /\ base' = base /\ phase' = "accounts" /\ frames' = <<>>
      /\ tx' = [tx EXCEPT !.status = status, !.fee = fee] /\ state' = s
      /\ to_commit' = s.cached /\ steps' = steps /\ txs' = txs
  BY DEF Settle
<1>3. /\ tx' \in Transaction /\ tx'.status = status
      /\ tx'.wrapped = tx.wrapped /\ tx'.leaked = tx.leaked
  BY <1>1, <1>2, TypesOfVariables DEF Transaction, TxStatus
<1>4. frames' \in Seq(Frame) /\ Depth' = 0
  BY <1>2 DEF Depth
<1>5. s.cached \in SUBSET Addr
  BY DEF State
<1>6. TypeOK'
  BY <1>1, <1>2, <1>3, <1>4, <1>5 DEF TypeOK
<1>7. CallersHaveCode' /\ EffectsOnRecord'
  BY <1>4 DEF CallersHaveCode, EffectsOnRecord
<1>8. InheritedOnly' /\ RootSawBase' /\ FramesWhileRunning'
  BY <1>2 DEF InheritedOnly, Running, RootSawBase, FramesWhileRunning
<1>9. NoOrphanCairoEffect'
  <2> SUFFICES ASSUME status = "reverted", ~tx.wrapped
               PROVE  chain.cairo = base.cairo + tx.leaked
    BY <1>2, <1>3 DEF NoOrphanCairoEffect
  <2>1. frames[1].cairo_precompile_called = 0 /\ frames # <<>>
    BY DEF Top, IInv, FramesWhileRunning
  <2>2. ~CalledCairo(frames[1])
    <3>1. \A j \in 1..1 : frames[j].cairo_precompile_called = 0
      BY <2>1
    <3>2. 1 \in 1..Depth /\ 1..Depth = 1..1
      OBVIOUS
    <3> QED BY <3>1, <3>2 DEF IInv, EffectsOnRecord
  <2>3. frames[1].cairo_before = base.cairo /\ frames[1].leaked_before = 0
    BY <2>1 DEF IInv, RootSawBase
  <2> QED BY <1>1, <2>2, <2>3, TypesOfVariables DEF CalledCairo
<1> QED BY <1>6, <1>7, <1>8, <1>9 DEF IInv

\* The end of the root context preserves the invariant.
LEMMA FinalizeRootPreserves ==
  ASSUME IInv, FinalizeRoot
  PROVE  IInv'
<1>1. TypeOK /\ phase = "run" /\ Depth = 1 /\ 1..MaxFee \subseteq Nat
  BY AmountAssumption DEF IInv, FinalizeRoot, TopStopped
<1>2. RootState \in State
  BY <1>1, TopIsFrame, TypesOfVariables, WithCodeType DEF RootState
<1>3. CASE Abort
  BY <1>3, AbortPreserves
<1>4. CASE /\ Top.cairo_precompile_called = 0
           /\ \E fee \in 1..MaxFee : Settle("reverted", fee, PayFeeAfterRevert(fee))
  BY <1>1, <1>4, FeesType, SettlePreserves
<1>5. CASE \E fee \in 1..MaxFee : Settle("success", fee, PayFee(RootState, fee))
  BY <1>1, <1>2, <1>5, FeesType, SettlePreserves
<1> QED BY <1>3, <1>4, <1>5 DEF FinalizeRoot

\* Outside of Interpreter.run there are no contexts.
LEMMA OutsideRun ==
  ASSUME IInv, phase # "run", frames' = frames, phase' # "run",
         chain' \in Chain, base' \in Chain, tx' \in Transaction, state' \in State,
         to_commit' \in SUBSET Addr, steps' \in Nat, txs' \in Nat,
         phase' \in {"idle", "accounts", "transfers"},
         NoOrphanCairoEffect'
  PROVE  IInv'
<1>1. frames = <<>> /\ frames \in Seq(Frame)
  BY DEF IInv, FramesWhileRunning, TypeOK
<1>2. frames' = <<>> /\ frames' \in Seq(Frame) /\ Depth' = 0
  BY <1>1 DEF Depth
<1>3. TypeOK'
  BY <1>2 DEF TypeOK
<1>4. CallersHaveCode' /\ EffectsOnRecord'
  BY <1>2 DEF CallersHaveCode, EffectsOnRecord
<1>5. InheritedOnly' /\ RootSawBase' /\ FramesWhileRunning'
  BY <1>2 DEF InheritedOnly, Running, RootSawBase, FramesWhileRunning
<1> QED BY <1>3, <1>4, <1>5 DEF IInv

\* A new transaction has the type of one.
LEMMA NewTxType ==
  ASSUME NEW origin \in Addr, NEW status \in TxStatus
  PROVE  /\ NewTx(origin, status) \in Transaction
         /\ NewTx(origin, status).status = status
         /\ NewTx(origin, status).leaked = 0
BY DEF NewTx, Transaction

\* Rejecting a transaction preserves the invariant.
LEMMA RejectPreserves ==
  ASSUME IInv, phase = "idle", NEW origin \in Addr, NEW s \in State,
         RejectTransaction(origin, s),
         chain' = chain, base' = chain, steps' = 0, txs' = txs + 1
  PROVE  IInv'
<1>1. TypeOK
  BY DEF IInv
<1>2. /\ tx' = NewTx(origin, "invalid") /\ state' = s /\ phase' = "accounts"
      /\ to_commit' = s.cached /\ frames' = frames
  BY DEF RejectTransaction
<1>3. tx' \in Transaction /\ tx'.status = "invalid"
  BY <1>2, NewTxType DEF TxStatus
<1>4. s.cached \in SUBSET Addr
  BY DEF State
<1>5. NoOrphanCairoEffect'
  BY <1>3 DEF NoOrphanCairoEffect
<1>6. chain' \in Chain /\ base' \in Chain /\ txs' \in Nat
  BY <1>1, TypesOfVariables
<1> QED BY <1>2, <1>3, <1>4, <1>5, <1>6, OutsideRun

\* So does entering its root context: the fee and the value can be paid.
LEMMA EnterRootPreserves ==
  ASSUME IInv, phase = "idle", NEW origin \in Addr, NEW to \in Addr, NEW value \in Nat,
         NEW deploy \in BOOLEAN, NEW warm \in State,
         AccountOf(chain, warm, origin).balance >= MaxFee,
         EnterRoot(origin, to, value, deploy, warm),
         chain' = chain, base' = chain, steps' = 0, txs' = txs + 1
  PROVE  IInv'
<1> DEFINE reserved == ReserveFee(warm, origin)
           paid == AddTransfer(chain, reserved, origin, to, value)
           target == AccountOf(chain, paid, to)
           entered == UpdateAccount(paid, to, [target EXCEPT
                        !.nonce = IF deploy THEN 1 ELSE @, !.created = deploy])
<1>1. TypeOK /\ chain \in Chain /\ chain.cairo \in Nat
  BY TypesOfVariables DEF IInv
<1>2. reserved \in State
  <2> DEFINE sender == AccountOf(chain, warm, origin)
  <2>1. sender \in Account /\ MaxFee \in Nat /\ sender.balance >= MaxFee
    BY <1>1, AccountOfType, AmountAssumption
  <2> HIDE DEF sender
  <2>2. sender.balance - MaxFee \in Nat /\ sender.nonce + 1 \in Nat
    BY <2>1 DEF Account
  <2>3. [sender EXCEPT !.balance = @ - MaxFee, !.nonce = @ + 1] \in Account
    BY <2>1, <2>2 DEF Account
  <2> QED BY <2>3, UpdateAccountType DEF ReserveFee, sender
<1> HIDE DEF reserved
<1>3. paid \in State
  BY <1>1, <1>2, AddTransferType
<1> HIDE DEF paid
<1>4. target \in Account
  BY <1>1, <1>3, AccountOfType
<1> HIDE DEF target
<1>5. [target EXCEPT !.nonce = IF deploy THEN 1 ELSE @, !.created = deploy] \in Account
  BY <1>4 DEF Account
<1>6. entered \in State
  BY <1>3, <1>5, UpdateAccountType
<1> HIDE DEF entered
<1>7. PICK has_code \in BOOLEAN, status \in Status :
        frames' = << [address |-> to, code_address |-> to, caller |-> origin,
                      has_code |-> has_code, read_only |-> FALSE, is_create |-> deploy,
                      cairo_precompile_called |-> 0, status |-> status,
                      output |-> "none", parent_state |-> InitState,
                      cairo_before |-> chain.cairo, leaked_before |-> 0] >>
  BY DEF EnterRoot, Status
<1> DEFINE root == [address |-> to, code_address |-> to, caller |-> origin,
                    has_code |-> has_code, read_only |-> FALSE, is_create |-> deploy,
                    cairo_precompile_called |-> 0, status |-> status,
                    output |-> "none", parent_state |-> InitState,
                    cairo_before |-> chain.cairo, leaked_before |-> 0]
<1>8. /\ root \in Frame /\ root.cairo_before = chain.cairo /\ root.leaked_before = 0
  BY <1>1, InitStateType, LimitAssumption DEF Frame, Felt, Output
<1>9. frames' = <<root>>
  BY <1>7
<1> HIDE DEF root
<1>10. /\ frames' \in Seq(Frame) /\ frames' # <<>> /\ Len(frames') = 1 /\ frames'[1] = root
  BY <1>8, <1>9
<1>11. Depth' = 1
  BY <1>10 DEF Depth
<1>12. tx' = NewTx(origin, "running") /\ state' = entered /\ phase' = "run"
       /\ to_commit' = to_commit
  BY DEF EnterRoot, entered, target, paid, reserved
<1>13. tx' \in Transaction /\ tx'.status = "running" /\ tx'.leaked = 0
  BY <1>12, NewTxType DEF TxStatus
<1>14. TypeOK'
  BY <1>1, <1>6, <1>10, <1>12, <1>13 DEF TypeOK
<1>15. Top' = root
  BY <1>10, <1>11 DEF Top
<1>16. ~(chain'.cairo + root.leaked_before # root.cairo_before + tx'.leaked)
  BY <1>1, <1>8, <1>13
<1>17. CallersHaveCode'
  BY <1>11 DEF CallersHaveCode
<1>18. InheritedOnly'
  BY <1>11, <1>15, <1>16 DEF InheritedOnly, CalledCairo
<1>19. RootSawBase' /\ FramesWhileRunning' /\ NoOrphanCairoEffect'
  BY <1>8, <1>10, <1>12, <1>13 DEF RootSawBase, FramesWhileRunning, NoOrphanCairoEffect
<1>20. EffectsOnRecord'
  <2>1. \A i \in 1..1 : frames'[i] = root
    BY <1>10
  <2> QED BY <1>11, <1>16, <2>1 DEF EffectsOnRecord, CalledCairo
<1> QED BY <1>14, <1>17, <1>18, <1>19, <1>20 DEF IInv

\* Sending a transaction preserves the invariant.
LEMMA SendPreserves ==
  ASSUME IInv, Send
  PROVE  IInv'
<1>1. PICK origin \in Eoa, value \in Values, access_list \in AccessLists,
           to \in Callees \cup CreateTargets, deploy \in BOOLEAN :
        SendTransaction(origin, to, value, deploy, access_list)
  BY DEF Send
<1> DEFINE warm == WarmState(to, access_list)
<1>2. origin \in Addr /\ to \in Addr /\ value \in Nat /\ MaxFee \in Nat
  BY BoundsOfInputs, AmountAssumption
<1>3. TypeOK /\ chain \in Chain /\ chain.balance[origin] \in Nat
  BY <1>2, TypesOfVariables DEF IInv, Chain
<1>4. ({Coinbase, to} \cup Precompiles \cup access_list) \in SUBSET Addr
  BY <1>2, BoundsOfInputs, AddressAssumption
<1>5. warm \in State
  BY <1>3, <1>4, InitStateType, CacheAllType DEF WarmState
<1>6. AccountOf(chain, warm, origin).balance = chain.balance[origin]
  BY <1>2 DEF WarmState, CacheAll, AccountOf, InitState, FetchAccount, EmptyAccount
<1> HIDE DEF warm
<1>7. CacheAccount(chain, warm, origin) \in State
  BY <1>2, <1>3, <1>5, CacheAccountType
<1>8. /\ phase = "idle" /\ chain' = chain /\ base' = chain /\ steps' = 0 /\ txs' = txs + 1
      /\ chain.balance[origin] >= value + MaxFee
  BY <1>1 DEF SendTransaction
<1>9. chain.balance[origin] >= MaxFee
  BY <1>2, <1>3, <1>8
<1>10. \/ RejectTransaction(origin, warm)
       \/ RejectTransaction(origin, CacheAccount(chain, warm, origin))
       \/ EnterRoot(origin, to, value, deploy, warm)
  BY <1>1 DEF SendTransaction, warm
<1> QED BY <1>2, <1>5, <1>6, <1>7, <1>8, <1>9, <1>10, RejectPreserves, EnterRootPreserves

\* Writing an account keeps the type of Starknet's storage.
LEMMA WriteAccountType ==
  ASSUME NEW account \in Account, NEW a \in Addr, chain \in Chain
  PROVE  WriteAccount(account, a) \in Chain /\ WriteAccount(account, a).cairo = chain.cairo
<1>1. chain.registered \cup {a} \in SUBSET Addr
  BY DEF Chain
<1>2. [chain.nonce EXCEPT ![a] = account.nonce] \in [Addr -> Nat]
  BY DEF Chain, Account
<1>3. [chain.slot EXCEPT ![a] = account.slot] \in [Addr -> Word]
  BY DEF Chain, Account
<1>4. [chain.code EXCEPT ![a] = account.code] \in [Addr -> BOOLEAN]
  BY DEF Chain, Account
<1> QED BY <1>1, <1>2, <1>3, <1>4 DEF WriteAccount, Chain

\* A transfer that is possible keeps balances natural.
LEMMA TransferredType ==
  ASSUME NEW balance \in [Addr -> Nat], NEW t \in Transfer, t.amount <= balance[t.sender]
  PROVE  Transferred(balance, t) \in [Addr -> Nat]
<1> DEFINE sent == [balance EXCEPT ![t.sender] = @ - t.amount]
<1>1. /\ t.sender \in Addr /\ t.recipient \in Addr /\ t.amount \in Nat
      /\ balance[t.sender] - t.amount \in Nat
  BY DEF Transfer
<1>2. sent \in [Addr -> Nat]
  BY <1>1
<1>3. /\ balance[t.recipient] + t.amount \in Nat
      /\ sent[t.recipient] + t.amount \in Nat
  BY <1>1, <1>2
<1> QED BY <1>1, <1>2, <1>3 DEF Transferred

\* The steps of the commit preserve the invariant.
LEMMA CommitStepPreserves ==
  ASSUME IInv, CommitStep
  PROVE  IInv'
<1>1. TypeOK /\ NoOrphanCairoEffect
  BY DEF IInv
<1>2. ASSUME phase # "run", frames' = frames, phase' \in {"idle", "accounts", "transfers"},
             chain' \in Chain, chain'.cairo = chain.cairo, base' = base, tx' = tx,
             state' \in State, to_commit' \in SUBSET Addr, steps' \in Nat, txs' = txs
      PROVE  IInv'
  <2>1. NoOrphanCairoEffect'
    BY <1>1, <1>2 DEF NoOrphanCairoEffect
  <2>2. base' \in Chain /\ tx' \in Transaction /\ txs' \in Nat
    BY <1>1, <1>2, TypesOfVariables
  <2> QED BY <1>2, <2>1, <2>2, OutsideRun
<1>3. /\ chain \in Chain /\ state \in State /\ steps \in Nat /\ to_commit \in SUBSET Addr
  BY <1>1 DEF TypeOK
<1>4. CASE CommitAccount
  <2> DEFINE a == CHOOSE x \in to_commit : TRUE
             account == state.accounts[a]
             burnt == AddTransfer(chain, state, a, BurnAddress, account.balance)
  <2>1. /\ phase = "accounts" /\ to_commit # {} /\ to_commit' = to_commit \ {a}
        /\ frames' = frames /\ phase' = phase /\ base' = base /\ tx' = tx
        /\ steps' = steps /\ txs' = txs
    BY <1>4 DEF CommitAccount
  <2>2. a \in Addr
    BY <1>3, <2>1
  <2>3. account \in Account
    BY <1>3, <2>2 DEF State
  <2>4. burnt \in State
    BY <1>3, <2>2, <2>3, BoundsOfInputs, AddTransferType DEF Account
  <2>5. \/ chain' = chain /\ state' = state
        \/ chain' = WriteAccount(account, a) /\ (state' = burnt \/ state' = state)
    BY <1>4 DEF CommitAccount
  <2> HIDE DEF a, account, burnt
  <2>6. chain' \in Chain /\ chain'.cairo = chain.cairo /\ state' \in State
    BY <1>3, <2>2, <2>3, <2>4, <2>5, WriteAccountType
  <2> QED BY <1>2, <1>3, <2>1, <2>6
<1>5. CASE EmitEvents
  <2>1. chain.events + state.events \in Nat
    BY <1>3 DEF Chain, State
  <2>2. chain' \in Chain /\ chain'.cairo = chain.cairo
    BY <1>3, <1>5, <2>1 DEF EmitEvents, Chain
  <2> QED BY <1>2, <1>3, <1>5, <2>2 DEF EmitEvents
<1>6. CASE TransferEth
  <2> DEFINE t == Head(state.transfers)
  <2>1. phase = "transfers" /\ state.transfers # <<>> /\ state.transfers \in Seq(Transfer)
    BY <1>3, <1>6 DEF TransferEth, State
  <2>2. t \in Transfer /\ Tail(state.transfers) \in Seq(Transfer)
    BY <2>1
  <2>3. CASE Abort
    BY <2>3, AbortPreserves
  <2>4. CASE ~Abort
    <3>1. /\ t.amount <= chain.balance[t.sender]
          /\ chain' = [chain EXCEPT !.balance = Transferred(chain.balance, t)]
          /\ state' = [state EXCEPT !.transfers = Tail(@)]
          /\ base' = base /\ phase' = phase /\ tx' = tx /\ frames' = frames
          /\ to_commit' = to_commit /\ steps' = steps /\ txs' = txs
      BY <1>6, <2>4 DEF TransferEth, CanTransfer
    <3> HIDE DEF t
    <3>2. chain.balance \in [Addr -> Nat]
      BY <1>3 DEF Chain
    <3>3. Transferred(chain.balance, t) \in [Addr -> Nat]
      BY <2>2, <3>1, <3>2, TransferredType
    <3>4. chain' \in Chain /\ chain'.cairo = chain.cairo
      BY <1>3, <3>1, <3>3 DEF Chain
    <3>5. state' \in State
      BY <1>3, <2>2, <3>1 DEF State
    <3> QED BY <1>2, <1>3, <2>1, <3>1, <3>4, <3>5
  <2> QED BY <2>3, <2>4
<1>7. CASE Commit
  BY <1>2, <1>3, <1>7, InitStateType DEF Commit
<1> QED BY <1>4, <1>5, <1>6, <1>7 DEF CommitStep

-----------------------------------------------------------------------------
(***************************************************************************)
(* The invariant holds.                                                    *)
(***************************************************************************)
\* The invariant holds at first,
LEMMA InitInvariant == Init => IInv
<1> SUFFICES ASSUME Init PROVE IInv
  OBVIOUS
<1>1. Genesis \in Chain
  BY AddressAssumption, AmountAssumption, WordAssumption DEF Genesis, Chain
<1>2. (CHOOSE a \in Eoa : TRUE) \in Addr
  BY AddressAssumption
<1>3. tx \in Transaction /\ tx.status = "none"
  BY <1>2 DEF Init, Transaction, TxStatus
<1>4. frames = <<>> /\ frames \in Seq(Frame) /\ Depth = 0 /\ phase = "idle"
  BY DEF Init, Depth
<1>5. TypeOK
  BY <1>1, <1>3, <1>4, InitStateType DEF Init, TypeOK
<1>6. CallersHaveCode /\ EffectsOnRecord
  BY <1>4 DEF CallersHaveCode, EffectsOnRecord
<1>7. InheritedOnly /\ RootSawBase /\ FramesWhileRunning /\ NoOrphanCairoEffect
  BY <1>3, <1>4 DEF InheritedOnly, Running, RootSawBase, FramesWhileRunning,
                    NoOrphanCairoEffect
<1> QED BY <1>5, <1>6, <1>7 DEF IInv

\* and every step preserves it.
LEMMA StepPreserves == IInv /\ [Next]_vars => IInv'
<1> SUFFICES ASSUME IInv, [Next]_vars PROVE IInv'
  OBVIOUS
<1>1. CASE Send
  BY <1>1, SendPreserves
<1>2. CASE Opcode
  <2>1. TypeOK
    BY DEF IInv
  <2> QED BY <1>2, <2>1, OpcodeShape, ContextStepPreserves
<1>3. CASE End
  BY <1>3, EndPreserves
<1>4. CASE Finalize
  BY <1>4, FinalizeCallPreserves, FinalizeCreatePreserves, FinalizeRootPreserves DEF Finalize
<1>5. CASE CommitStep
  BY <1>5, CommitStepPreserves
<1>6. CASE UNCHANGED vars
  BY <1>6 DEF vars, IInv, TypeOK, CallersHaveCode, InheritedOnly, RootSawBase,
              FramesWhileRunning, EffectsOnRecord, NoOrphanCairoEffect, CalledCairo,
              Running, Top, Parent, Depth
<1> QED BY <1>1, <1>2, <1>3, <1>4, <1>5, <1>6 DEF Next, Proceed, NoMoreTransactions

\* The inductive invariant holds in every reachable state.
THEOREM InterpreterInvariant == Spec => []IInv
<1>1. Init => IInv
  BY InitInvariant
<1>2. IInv /\ [Next]_vars => IInv'
  BY StepPreserves
<1> QED BY <1>1, <1>2, PTL DEF Spec

\* Every variable keeps its type; in particular no balance of the native token,
\* and no balance in the cache, ever becomes negative.
THEOREM TypeCorrect == Spec => []TypeOK
<1>1. IInv => TypeOK
  BY DEF IInv
<1> QED BY <1>1, InterpreterInvariant, PTL

\* Whatever Cairo contracts were made to do since a context was entered is on
\* the record of that context or of one above it, whatever the depth, the
\* program and the precompiles called.
THEOREM CairoEffectsOnRecord == Spec => []EffectsOnRecord
<1>1. IInv => EffectsOnRecord
  BY DEF IInv
<1> QED BY <1>1, InterpreterInvariant, PTL

\* A reverted transaction that is committed leaves no recorded Cairo effect.
THEOREM RevertedLeavesNoCairoEffect == Spec => []NoOrphanCairoEffect
<1>1. IInv => NoOrphanCairoEffect
  BY DEF IInv
<1> QED BY <1>1, InterpreterInvariant, PTL

\* A call that failed, or a creation: by its status or by the code it returns.
ContextFails ==
  \/ FinalizeCall /\ HasReverted
  \/ FinalizeCreate /\ CreationFails

\* A context that fails, its transaction going on, called no Cairo contract.
LEMMA FailedContextStep ==
  ASSUME IInv, ContextFails, phase' = "run", ~tx'.wrapped
  PROVE  ~CalledCairo(Top)
<1>1. TypeOK /\ phase = "run" /\ Depth > 1
  BY DEF IInv, ContextFails, FinalizeCall, FinalizeCreate, TopStopped
<1>2. /\ Depth \in Nat /\ Depth \in 1..Depth /\ Depth - 1 \in 1..Depth
      /\ Top \in Frame /\ Parent \in Frame
  BY <1>1, TopIsFrame DEF Parent
<1>3. ~Abort
  BY DEF Abort
<1>4. CairoCalled = 0 /\ \E s : Resume(s)
  <2>1. CASE FinalizeCall /\ HasReverted
    BY <1>3, <2>1 DEF FinalizeCall
  <2>2. CASE FinalizeCreate /\ CreationFails
    BY <1>3, <2>2 DEF FinalizeCreate
  <2> QED BY <2>1, <2>2 DEF ContextFails
<1>5. tx.wrapped = FALSE /\ SumOfCalls < FieldPrime
  <2>1. tx' = [tx EXCEPT !.wrapped = @ \/ SumOfCalls >= FieldPrime]
    BY <1>4 DEF Resume
  <2>2. tx \in Transaction /\ tx.wrapped \in BOOLEAN
    BY <1>1, TypesOfVariables DEF Transaction
  <2>3. tx'.wrapped = (tx.wrapped \/ SumOfCalls >= FieldPrime)
    BY <2>1, <2>2 DEF Transaction
  <2>4. SumOfCalls \in Nat /\ FieldPrime \in Nat
    BY <1>2, TopFields, LimitAssumption DEF SumOfCalls, Felt
  <2>5. ~(SumOfCalls >= FieldPrime)
    BY <2>3
  <2>6. SumOfCalls < FieldPrime
    BY <2>4, <2>5
  <2> QED BY <2>2, <2>3, <2>6
<1>6. Top.cairo_precompile_called = 0
  BY <1>2, <1>4, <1>5, TopFields, SumOfFelts DEF CairoCalled, SumOfCalls
<1>7. \A j \in Depth..Depth : frames[j].cairo_precompile_called = 0
  BY <1>2, <1>6 DEF Top
<1> QED BY <1>2, <1>5, <1>7 DEF IInv, EffectsOnRecord, Top

\* A context that fails while its transaction goes on has made no Cairo
\* contract do anything: the check of CallHelper.finalize_parent and the two
\* of CreateHelper.finalize_parent (after a revert, and after the return of
\* code that cannot be deployed) abort every other one.
THEOREM FailedContextsAreClean == Spec => FailedContextsLeaveNoCairoEffect
<1>1. IInv /\ [Next]_vars =>
        [((FinalizeCall /\ HasReverted) \/ (FinalizeCreate /\ CreationFails))
           /\ phase' = "run" /\ ~tx.wrapped'
             => ~CalledCairo(Top)]_vars
  BY FailedContextStep DEF ContextFails
<1> QED BY <1>1, InterpreterInvariant, PTL DEF Spec, FailedContextsLeaveNoCairoEffect

-----------------------------------------------------------------------------
(***************************************************************************)
(* Static contexts.                                                         *)
(***************************************************************************)
\* The EVM program sees the same of the states s and t.
Same(c, s, t) ==
  /\ \A a \in Addr : AccountOf(c, s, a) = AccountOf(c, t, a)
  /\ s.transfers = t.transfers
  /\ s.events = t.events

UnregisteredEmpty(c) ==
  \A a \in Addr \ c.registered : c.nonce[a] = 0 /\ c.code[a] = FALSE /\ c.slot[a] = 0

\* The state of the i-th context: the one its callee was entered with, if any.
StateOf(i) == IF i = Depth THEN state ELSE frames[i + 1].parent_state

StaticBelow == \A i \in 2..Depth : frames[i - 1].read_only => frames[i].read_only

NoStaticCreation == \A i \in 1..Depth : frames[i].read_only => ~frames[i].is_create

NothingChanged ==
  \A i \in 2..Depth : frames[i].read_only => Same(chain, StateOf(i), frames[i].parent_state)

SInv ==
  /\ StaticBelow
  /\ NoStaticCreation
  /\ NothingChanged
  /\ UnregisteredEmpty(chain)
  /\ UnregisteredEmpty(base)

-----------------------------------------------------------------------------
(***************************************************************************)
(* What the program sees of a state.                                        *)
(***************************************************************************)
\* Seeing the same is transitive.
LEMMA SameTransitive ==
  ASSUME NEW c, NEW s, NEW t, NEW u, Same(c, s, t), Same(c, t, u)
  PROVE  Same(c, s, u)
BY DEF Same

\* Reading an account into the cache shows nothing new.
LEMMA CacheAccountSame ==
  ASSUME NEW c \in Chain, NEW s \in State, NEW x \in Addr
  PROVE  Same(c, CacheAccount(c, s, x), s)
<1> DEFINE account == AccountOf(c, s, x)
           t == UpdateAccount(s, x, account)
<1>1. /\ t.cached = s.cached \cup {x} /\ t.transfers = s.transfers /\ t.events = s.events
      /\ t.accounts = [s.accounts EXCEPT ![x] = account]
  BY DEF UpdateAccount, State
<1>2. ASSUME NEW a \in Addr PROVE AccountOf(c, t, a) = AccountOf(c, s, a)
  <2>1. CASE a = x
    BY <1>1, <2>1 DEF AccountOf, State
  <2>2. CASE a # x
    BY <1>1, <2>2 DEF AccountOf, State
  <2> QED BY <2>1, <2>2
<1> QED BY <1>1, <1>2 DEF Same, CacheAccount

\* A transfer of nothing does nothing.
LEMMA NoTransfer ==
  ASSUME NEW c, NEW s, NEW from, NEW to
  PROVE  AddTransfer(c, s, from, to, 0) = s
BY DEF AddTransfer, NullTransfer

\* The storage that two chains show is the same.
SameChain(c, d) == \A a \in Addr : FetchAccount(c, a) = FetchAccount(d, a)

\* States that show the same still do when Starknet's storage shows the same.
LEMMA SameUnderChain ==
  ASSUME NEW c, NEW d, NEW s, NEW t, SameChain(c, d), Same(c, s, t)
  PROVE  Same(d, s, t)
BY DEF SameChain, Same, AccountOf

\* Every part of the view is part of what the program sees.
LEMMA SameView ==
  ASSUME NEW s, NEW t, Same(chain, s, t)
  PROVE  View(s) = View(t)
<1>1. [a \in Addr |-> AccountOf(chain, s, a)] = [a \in Addr |-> AccountOf(chain, t, a)]
  BY DEF Same
<1> QED BY <1>1 DEF View, Same

-----------------------------------------------------------------------------
(***************************************************************************)
(* Steps on the stack of contexts.                                          *)
(***************************************************************************)
\* Frames that differ only in what the invariant does not speak of.
Agree(f, g) ==
  f.read_only = g.read_only /\ f.is_create = g.is_create /\ f.parent_state = g.parent_state

\* The contexts stay, and the top one writes only if it is not static.
KeepsContexts ==
  /\ Len(frames') = Len(frames)
  /\ \A i \in 1..Depth : Agree(frames'[i], frames[i])
  /\ Top.read_only => Same(chain, state', state)

\* A context is opened; it is static if its caller is, and enters unwritten.
OpensStatic(f) ==
  /\ frames' = Append(frames, f)
  /\ Top.read_only => f.read_only /\ Same(chain, f.parent_state, state)
  /\ f.read_only => ~f.is_create /\ Same(chain, state', f.parent_state)

\* The top context ends, and its caller has the state it waited with if static.
ClosesTop ==
  /\ Depth > 1
  /\ Len(frames') = Len(frames) - 1
  /\ \A i \in 1..(Depth - 1) : Agree(frames'[i], frames[i])
  /\ Parent.read_only => Same(chain, state', Top.parent_state)

\* What Starknet stores shows the same before and after.
ChainKept ==
  /\ SameChain(chain, chain')
  /\ UnregisteredEmpty(chain')
  /\ UnregisteredEmpty(base')

\* A step that keeps the contexts preserves the invariant.
LEMMA KeepsContextsPreserves ==
  ASSUME TypeOK, phase = "run", SInv, KeepsContexts, ChainKept
  PROVE  SInv'
<1>1. Depth \in Nat /\ Depth > 0 /\ Depth' = Depth
  BY TopIsFrame DEF KeepsContexts, Depth
<1>2. \A i \in 1..Depth : Agree(frames'[i], frames[i])
  BY DEF KeepsContexts
<1>3. StaticBelow'
  <2>1. ASSUME NEW i \in 2..Depth, frames'[i - 1].read_only PROVE frames'[i].read_only
    <3>1. i \in 1..Depth /\ i - 1 \in 1..Depth
      BY <1>1
    <3>2. frames[i - 1].read_only
      BY <1>2, <2>1, <3>1 DEF Agree
    <3> QED BY <1>2, <3>1, <3>2 DEF SInv, StaticBelow, Agree
  <2> QED BY <1>1, <2>1 DEF StaticBelow
<1>4. NoStaticCreation'
  BY <1>1, <1>2 DEF SInv, NoStaticCreation, Agree
<1>5. NothingChanged'
  <2>1. ASSUME NEW i \in 2..Depth, frames'[i].read_only
        PROVE  Same(chain', StateOf(i)', frames'[i].parent_state)
    <3>1. /\ i \in 1..Depth /\ frames[i].read_only
          /\ frames'[i].parent_state = frames[i].parent_state
      BY <1>1, <1>2, <2>1 DEF Agree
    <3>2. Same(chain, StateOf(i), frames[i].parent_state)
      BY <3>1 DEF SInv, NothingChanged
    <3>3. CASE i = Depth
      <4>1. StateOf(i) = state /\ StateOf(i)' = state'
        BY <1>1, <3>3 DEF StateOf
      <4>2. Same(chain, state', state)
        BY <3>1, <3>3 DEF KeepsContexts, Top
      <4>3. Same(chain, state', frames[i].parent_state)
        BY <3>2, <4>1, <4>2, SameTransitive
      <4> QED BY <3>1, <4>1, <4>3, SameUnderChain DEF ChainKept
    <3>4. CASE i # Depth
      <4>1. i + 1 \in 1..Depth
        BY <1>1, <3>4
      <4>2. StateOf(i)' = StateOf(i)
        BY <1>1, <1>2, <3>4, <4>1 DEF StateOf, Agree
      <4> QED BY <3>1, <3>2, <4>2, SameUnderChain DEF ChainKept
    <3> QED BY <3>3, <3>4
  <2> QED BY <1>1, <2>1 DEF NothingChanged
<1> QED BY <1>3, <1>4, <1>5 DEF SInv, ChainKept

\* So does one that opens a context.
LEMMA OpensStaticPreserves ==
  ASSUME TypeOK, phase = "run", SInv, NEW f \in Frame, OpensStatic(f), ChainKept
  PROVE  SInv'
<1>1. Depth \in Nat /\ Depth > 0 /\ frames \in Seq(Frame)
  BY TopIsFrame DEF TypeOK
<1>2. /\ Depth' = Depth + 1
      /\ \A i \in 1..Depth : frames'[i] = frames[i]
      /\ frames'[Depth + 1] = f
  BY <1>1, PushFrame DEF OpensStatic, Depth
<1>3. \A i \in 1..Depth' : i \in 1..Depth \/ i = Depth + 1
  BY <1>1, <1>2
<1>4. StaticBelow'
  <2>1. ASSUME NEW i \in 2..Depth', frames'[i - 1].read_only PROVE frames'[i].read_only
    <3>1. CASE i = Depth + 1
      <4>1. i - 1 = Depth /\ frames'[i - 1] = Top
        BY <1>1, <1>2, <3>1 DEF Top
      <4> QED BY <1>2, <2>1, <3>1, <4>1 DEF OpensStatic
    <3>2. CASE i # Depth + 1
      <4>1. i \in 2..Depth /\ i \in 1..Depth /\ i - 1 \in 1..Depth
        BY <1>1, <1>2, <3>2
      <4> QED BY <1>2, <2>1, <4>1 DEF SInv, StaticBelow
    <3> QED BY <3>1, <3>2
  <2> QED BY <2>1 DEF StaticBelow
<1>5. NoStaticCreation'
  BY <1>2, <1>3 DEF SInv, NoStaticCreation, OpensStatic
<1>6. NothingChanged'
  <2>1. ASSUME NEW i \in 2..Depth', frames'[i].read_only
        PROVE  Same(chain', StateOf(i)', frames'[i].parent_state)
    <3>1. CASE i = Depth + 1
      <4>1. StateOf(i)' = state' /\ frames'[i] = f
        BY <1>2, <3>1 DEF StateOf
      <4>2. Same(chain, state', f.parent_state)
        BY <2>1, <4>1 DEF OpensStatic
      <4> QED BY <4>1, <4>2, SameUnderChain DEF ChainKept
    <3>2. CASE i = Depth
      <4>1. i \in 2..Depth /\ i \in 1..Depth /\ i # Depth'
        BY <1>1, <1>2, <3>2
      <4>2. frames'[i] = frames[i] /\ frames[i] = Top /\ StateOf(i) = state
        BY <1>2, <3>2, <4>1 DEF StateOf, Top
      <4>3. StateOf(i)' = f.parent_state
        BY <1>2, <3>2, <4>1 DEF StateOf
      <4>4. Same(chain, state, frames[i].parent_state)
        BY <2>1, <4>1, <4>2 DEF SInv, NothingChanged
      <4>5. Same(chain, f.parent_state, state)
        BY <2>1, <4>2 DEF OpensStatic
      <4>6. Same(chain, f.parent_state, frames[i].parent_state)
        BY <4>4, <4>5, SameTransitive
      <4> QED BY <4>2, <4>3, <4>6, SameUnderChain DEF ChainKept
    <3>3. CASE i \notin {Depth, Depth + 1}
      <4>1. i \in 2..Depth /\ i \in 1..Depth /\ i + 1 \in 1..Depth /\ i # Depth'
        BY <1>1, <1>2, <3>3
      <4>2. frames'[i] = frames[i] /\ StateOf(i)' = StateOf(i)
        BY <1>2, <3>3, <4>1 DEF StateOf
      <4>3. Same(chain, StateOf(i), frames[i].parent_state)
        BY <2>1, <4>1, <4>2 DEF SInv, NothingChanged
      <4> QED BY <4>2, <4>3, SameUnderChain DEF ChainKept
    <3> QED BY <3>1, <3>2, <3>3
  <2> QED BY <2>1 DEF NothingChanged
<1> QED BY <1>4, <1>5, <1>6 DEF SInv, ChainKept

\* So does one that ends the top context.
LEMMA ClosesTopPreserves ==
  ASSUME TypeOK, phase = "run", SInv, ClosesTop, ChainKept
  PROVE  SInv'
<1> DEFINE n == Depth - 1
<1>1. Depth \in Nat /\ Depth > 1 /\ Depth' = n
  BY TopIsFrame DEF ClosesTop, Depth
<1>2. n \in Nat /\ n + 1 = Depth
  BY <1>1
<1>3. \A i \in 1..n : i \in 1..Depth /\ Agree(frames'[i], frames[i])
  BY <1>1 DEF ClosesTop
<1>4. Parent = frames[n] /\ Top = frames[n + 1]
  BY <1>2 DEF Parent, Top
<1> HIDE DEF n
<1>5. StaticBelow'
  <2>1. ASSUME NEW i \in 2..n, frames'[i - 1].read_only PROVE frames'[i].read_only
    <3>1. i \in 1..n /\ i - 1 \in 1..n /\ i \in 2..Depth
      BY <1>2
    <3>2. frames[i - 1].read_only
      BY <1>3, <2>1, <3>1 DEF Agree
    <3> QED BY <1>3, <3>1, <3>2 DEF SInv, StaticBelow, Agree
  <2> QED BY <1>1, <2>1 DEF StaticBelow
<1>6. NoStaticCreation'
  BY <1>1, <1>3 DEF SInv, NoStaticCreation, Agree
<1>7. NothingChanged'
  <2>1. ASSUME NEW i \in 2..n, frames'[i].read_only
        PROVE  Same(chain', StateOf(i)', frames'[i].parent_state)
    <3>1. /\ i \in 1..n /\ i \in 2..Depth /\ i # Depth /\ frames[i].read_only
          /\ frames'[i].parent_state = frames[i].parent_state
      BY <1>2, <1>3, <2>1 DEF Agree
    <3>2. Same(chain, frames[i + 1].parent_state, frames[i].parent_state)
      BY <3>1 DEF SInv, NothingChanged, StateOf
    <3>3. CASE i = n
      <4>1. StateOf(i)' = state'
        BY <1>1, <3>3 DEF StateOf
      <4>2. Same(chain, state', frames[i + 1].parent_state)
        BY <1>4, <3>1, <3>3 DEF ClosesTop
      <4>3. Same(chain, state', frames[i].parent_state)
        BY <3>2, <4>2, SameTransitive
      <4> QED BY <3>1, <4>1, <4>3, SameUnderChain DEF ChainKept
    <3>4. CASE i # n
      <4>1. i + 1 \in 1..n
        BY <1>2, <3>4
      <4>2. StateOf(i)' = frames[i + 1].parent_state
        BY <1>1, <1>3, <3>4, <4>1 DEF StateOf, Agree
      <4> QED BY <3>1, <3>2, <4>2, SameUnderChain DEF ChainKept
    <3> QED BY <3>3, <3>4
  <2> QED BY <1>1, <2>1 DEF NothingChanged
<1> QED BY <1>5, <1>6, <1>7 DEF SInv, ChainKept

-----------------------------------------------------------------------------
(***************************************************************************)
(* Opcodes.                                                                *)
(***************************************************************************)
\* What an opcode does to the stack.
Opens == \E f \in Frame : OpensStatic(f)

\* A state shows what it shows.
LEMMA SameReflexive ==
  ASSUME NEW c, NEW s
  PROVE  Same(c, s, s)
BY DEF Same

\* An opcode that continues keeps the contexts.
LEMMA ContinueKeeps ==
  ASSUME NEW s, Continue(s), Top.read_only => Same(chain, s, state)
  PROVE  KeepsContexts
BY DEF Continue, KeepsContexts, Agree

\* Stopping a context leaves its flags and the state it was entered with.
LEMMA StoppedAgrees ==
  ASSUME NEW frame \in Frame, NEW status \in Status, NEW output \in Output
  PROVE  Agree(Stopped(frame, status, output), frame)
BY DEF Agree, Stopped, Frame

\* Replacing the top context by one that agrees with it keeps the contexts.
LEMMA ReplacedTopKeeps ==
  ASSUME TypeOK, phase = "run", NEW f \in Frame, Agree(f, Top),
         frames' = [frames EXCEPT ![Depth] = f],
         Top.read_only => Same(chain, state', state)
  PROVE  KeepsContexts
<1>1. frames \in Seq(Frame) /\ frames # <<>> /\ Depth \in Nat /\ Depth > 0
  BY TopIsFrame DEF TypeOK
<1>2. /\ Len(frames') = Len(frames)
      /\ \A i \in 1..(Depth - 1) : frames'[i] = frames[i]
      /\ frames'[Depth] = f
  BY <1>1, ReplaceTop DEF Depth
<1>3. \A i \in 1..Depth : i \in 1..(Depth - 1) \/ i = Depth
  BY <1>1
<1>4. \A i \in 1..Depth : Agree(frames'[i], frames[i])
  BY <1>2, <1>3 DEF Agree, Top
<1> QED BY <1>2, <1>4 DEF KeepsContexts

\* Stopping the top context keeps the contexts.
LEMMA StopsTopKeeps ==
  ASSUME TypeOK, phase = "run", StopsTop, Top.read_only => Same(chain, state', state)
  PROVE  KeepsContexts
<1>1. PICK status \in Status \ {"running"}, output \in Output :
        frames' = [frames EXCEPT ![Depth] = Stopped(Top, status, output)]
  BY DEF StopsTop
<1>2. /\ Stopped(Top, status, output) \in Frame
      /\ Agree(Stopped(Top, status, output), Top)
  BY TopIsFrame, StoppedType, StoppedAgrees
<1> QED BY <1>1, <1>2, ReplacedTopKeeps

\* So does a write that a static context attempts.
LEMMA StateModificationErrorKeeps ==
  ASSUME TypeOK, phase = "run", StateModificationError
  PROVE  KeepsContexts
BY StateModificationErrorStops, SameReflexive, StopsTopKeeps

\* A call opens a context that is static if its caller is.
LEMMA EnterCallOpensStatic ==
  ASSUME TypeOK, phase = "run", NEW s \in State, NEW caller \in Addr, NEW to \in Addr,
         NEW code_address \in Addr, NEW is_staticcall \in BOOLEAN,
         EnterCall(s, caller, to, code_address, is_staticcall), Same(chain, s, state)
  PROVE  Opens
<1> DEFINE child == ChildFrame(s, caller, to, code_address, is_staticcall)
<1>1. child \in Frame
  BY ChildFrameType
<1>2. /\ child.parent_state = s /\ child.is_create = FALSE
      /\ child.read_only = (is_staticcall \/ Top.read_only)
  BY DEF ChildFrame
<1>3. frames' = Append(frames, child) /\ state' = s
  BY DEF EnterCall
<1> HIDE DEF child
<1>4. OpensStatic(child)
  BY <1>2, <1>3, SameReflexive DEF OpensStatic
<1> QED BY <1>1, <1>4 DEF Opens

\* So does a call with a transfer, of nothing if the caller is static.
LEMMA EnterCallWithTransferOpensStatic ==
  ASSUME TypeOK, phase = "run", NEW s \in State, NEW to \in Addr, NEW value \in Nat,
         EnterCallWithTransfer(s, to, value), Same(chain, s, state),
         ~(Top.read_only /\ value > 0)
  PROVE  Opens
<1> DEFINE child == ChildFrame(s, Top.address, to, to, FALSE)
           halted == Stopped(child, "EXCEPTIONAL_HALT", "none")
<1>1. Top.address \in Addr
  BY TopIsFrame, TopFields
<1>2. child \in Frame
  BY <1>1, ChildFrameType
<1>3. /\ child.parent_state = s /\ child.is_create = FALSE
      /\ child.read_only = Top.read_only
  <2>1. Top.read_only \in BOOLEAN
    BY TopIsFrame, TopFields
  <2> QED BY <2>1 DEF ChildFrame
<1>4. /\ frames' = Append(frames, child) \/ frames' = Append(frames, halted)
      /\ state' = AddTransfer(chain, s, Top.address, to, value)
  BY DEF EnterCallWithTransfer
<1> HIDE DEF child
<1>5. halted \in Frame /\ Agree(halted, child)
  BY <1>2, StatusErrors, StoppedType, StoppedAgrees
<1> HIDE DEF halted
<1>6. Top.read_only => state' = s
  <2>1. Top.read_only => value = 0
    OBVIOUS
  <2> QED BY <1>4, <2>1, NoTransfer
<1>7. OpensStatic(child) \/ OpensStatic(halted)
  BY <1>3, <1>4, <1>5, <1>6, SameReflexive DEF OpensStatic, Agree
<1> QED BY <1>2, <1>5, <1>7 DEF Opens

\* CALL writes nothing in a static context.
LEMMA CallKeeps ==
  ASSUME TypeOK, NEW to \in Addr, NEW value \in Nat, ExecCall(to, value)
  PROVE  KeepsContexts \/ Opens
<1> DEFINE s == CacheAccount(chain, state, to)
<1>1. phase = "run"
  BY ExecutesFacts DEF ExecCall
<1>2. s \in State /\ Same(chain, s, state)
  BY TypesOfVariables, CacheAccountType, CacheAccountSame
<1>3. \/ StateModificationError
      \/ Continue(s)
      \/ EnterCallWithTransfer(s, to, value) /\ ~(Top.read_only /\ value > 0)
  BY DEF ExecCall
<1> HIDE DEF s
<1> QED BY <1>1, <1>2, <1>3, StateModificationErrorKeeps, ContinueKeeps,
           EnterCallWithTransferOpensStatic

\* Nor do STATICCALL, CALLCODE and DELEGATECALL, in any.
LEMMA OtherCallsKeep ==
  ASSUME TypeOK, NEW to \in Addr, NEW value,
         ExecStaticcall(to) \/ ExecCallcode(to, value) \/ ExecDelegatecall(to)
  PROVE  KeepsContexts \/ Opens
<1> DEFINE s == CacheAccount(chain, state, to)
<1>1. phase = "run" /\ Top.address \in Addr /\ Top.caller \in Addr
  BY ExecutesFacts DEF ExecStaticcall, ExecCallcode, ExecDelegatecall
<1>2. s \in State /\ Same(chain, s, state)
  BY TypesOfVariables, CacheAccountType, CacheAccountSame
<1>3. \/ Continue(s)
      \/ EnterCall(s, Top.address, to, to, TRUE)
      \/ EnterCall(s, Top.address, Top.address, to, FALSE)
      \/ EnterCall(s, Top.caller, Top.address, to, FALSE)
  BY DEF ExecStaticcall, ExecCallcode, ExecDelegatecall
<1> HIDE DEF s
<1> QED BY <1>1, <1>2, <1>3, ContinueKeeps, EnterCallOpensStatic

\* Nor does CREATE in a static context, and what it opens is not static.
LEMMA CreateKeeps ==
  ASSUME TypeOK, NEW target \in Addr, NEW value \in Nat, ExecCreate(target, value)
  PROVE  KeepsContexts \/ Opens
<1> DEFINE s == CacheAccount(chain, state, target)
           counted == WithNonceIncremented(s)
           frame == CreateFrame(counted, target)
<1>1. Executes("CREATE") /\ phase = "run"
  BY ExecutesFacts DEF ExecCreate
<1>2. CASE Top.read_only
  BY <1>1, <1>2, StateModificationErrorKeeps DEF ExecCreate
<1>3. CASE ~Top.read_only
  <2>1. Continue(s) \/ Continue(counted) \/ frames' = Append(frames, frame)
    BY <1>3 DEF ExecCreate
  <2>2. s \in State
    BY TypesOfVariables, CacheAccountType
  <2> HIDE DEF s
  <2>3. counted \in State
    BY <1>1, <2>2, WithNonceIncrementedType
  <2> HIDE DEF counted
  <2>4. frame \in Frame /\ ~frame.read_only
    BY <1>1, <2>3, ExecutesFacts, TopIsFrame, TopFields, TypesOfVariables
       DEF CreateFrame, Frame, Status, Output
  <2> HIDE DEF frame
  <2>5. CASE Continue(s) \/ Continue(counted)
    BY <1>3, <2>5, ContinueKeeps
  <2>6. CASE frames' = Append(frames, frame)
    BY <1>3, <2>4, <2>6 DEF OpensStatic, Opens
  <2> QED BY <2>1, <2>5, <2>6
<1> QED BY <1>2, <1>3

\* Nor do SSTORE, LOG and SELFDESTRUCT.
LEMMA WritesKeep ==
  ASSUME TypeOK, NEW value, NEW named,
         ExecSstore(value) \/ ExecLog \/ ExecSelfdestruct(named)
  PROVE  KeepsContexts
<1>1. phase = "run"
  BY ExecutesFacts DEF ExecSstore, ExecLog, ExecSelfdestruct
<1>2. CASE Top.read_only
  BY <1>1, <1>2, StateModificationErrorKeeps DEF ExecSstore, ExecLog, ExecSelfdestruct
<1>3. CASE ~Top.read_only
  <2>1. frames' = frames \/ StopsTop
    BY <1>3, StatusErrors, StopTopStops DEF ExecSstore, ExecLog, ExecSelfdestruct, Continue
  <2>2. CASE frames' = frames
    BY <1>3, <2>2 DEF KeepsContexts, Agree
  <2>3. CASE StopsTop
    BY <1>1, <1>3, <2>3, StopsTopKeeps
  <2> QED BY <2>1, <2>2, <2>3
<1> QED BY <1>2, <1>3

\* An opcode leaves Starknet's storage alone.
LEMMA OpcodeRuns ==
  ASSUME TypeOK, Opcode
  PROVE  phase = "run" /\ chain' = chain /\ base' = base
BY OpcodeShape DEF ContextStep, Running

\* Opcodes keep the contexts or open one.
LEMMA OpcodeKeeps ==
  ASSUME TypeOK, Opcode
  PROVE  KeepsContexts \/ Opens
<1>1. CASE \E to \in Callees, value \in Values : ExecCall(to, value)
  BY <1>1, BoundsOfInputs, CallKeeps
<1>2. CASE \E to \in Callees, value \in Values :
             ExecCallcode(to, value) \/ ExecStaticcall(to) \/ ExecDelegatecall(to)
  BY <1>2, BoundsOfInputs, OtherCallsKeep
<1>3. CASE \E to \in Callees : ExecStaticcall(to) \/ ExecDelegatecall(to)
  BY <1>3, BoundsOfInputs, OtherCallsKeep
<1>4. CASE \E target \in CreateTargets, value \in Values : ExecCreate(target, value)
  BY <1>4, BoundsOfInputs, CreateKeeps
<1>5. CASE \E to \in Callees : ExecSelfdestruct(to)
  BY <1>5, WritesKeep
<1>6. CASE (\E value \in Word : ExecSstore(value)) \/ ExecLog
  BY <1>6, WritesKeep
<1> QED BY <1>1, <1>2, <1>3, <1>4, <1>5, <1>6 DEF Opcode

\* Opcodes preserve the invariant.
LEMMA OpcodeKeepsStatic ==
  ASSUME TypeOK, SInv, Opcode
  PROVE  SInv'
<1>1. phase = "run" /\ ChainKept
  BY OpcodeRuns DEF ChainKept, SameChain, SInv
<1> QED BY <1>1, OpcodeKeeps, KeepsContextsPreserves, OpensStaticPreserves DEF Opens

-----------------------------------------------------------------------------
(***************************************************************************)
(* The end of a context.                                                   *)
(***************************************************************************)
\* Where there is no context, the invariant speaks of the storage only.
LEMMA NoContexts ==
  ASSUME frames' = <<>>, UnregisteredEmpty(chain'), UnregisteredEmpty(base')
  PROVE  SInv'
<1>1. Depth' = 0
  BY DEF Depth
<1> QED BY <1>1 DEF SInv, StaticBelow, NoStaticCreation, NothingChanged

\* An aborted transaction leaves what there was before it.
LEMMA AbortKeepsStatic ==
  ASSUME SInv, Abort
  PROVE  SInv'
BY NoContexts DEF Abort, SInv

\* The end of a precompile leaves the flags of its context.
LEMMA StopPrecompileKeeps ==
  ASSUME TypeOK, phase = "run", NEW status \in Status \ {"running"}, NEW called \in Felt,
         StopPrecompile(status, called), state' = state
  PROVE  KeepsContexts
<1> DEFINE stopped == Stopped(Top, status, "none")
           f == [stopped EXCEPT !.cairo_precompile_called = called]
<1>1. stopped \in Frame /\ Agree(stopped, Top)
  BY TopIsFrame, StatusErrors, StoppedType, StoppedAgrees
<1> HIDE DEF stopped
<1>2. f \in Frame /\ Agree(f, Top)
  BY <1>1 DEF Frame, Agree
<1>3. frames' = [frames EXCEPT ![Depth] = f]
  BY DEF StopPrecompile, stopped, Top
<1> HIDE DEF f
<1> QED BY <1>2, <1>3, SameReflexive, ReplacedTopKeeps

\* Resetting the fields of an empty account changes nothing.
LEMMA EmptyAfterReset ==
  ASSUME NEW balance \in Nat
  PROVE  [EmptyAccount EXCEPT !.nonce = 0, !.balance = balance, !.code = FALSE, !.slot = 0] =
           [EmptyAccount EXCEPT !.balance = balance]
<1>1. EmptyAccount.nonce = 0 /\ EmptyAccount.code = FALSE /\ EmptyAccount.slot = 0
  BY DEF EmptyAccount
<1> QED BY <1>1, EmptyAccountType DEF Account

\* A Cairo call that leaves the native token alone shows nothing new.
LEMMA CairoCallsShowNothing ==
  ASSUME TypeOK, phase = "run", SInv, NEW n \in Nat,
         chain' = AfterCairoCalls(n, chain.balance), base' = base
  PROVE  ChainKept
<1>1. Top.caller \in Addr /\ chain \in Chain
  BY TopIsFrame, TopFields, TypesOfVariables
<1>2. /\ chain'.registered = chain.registered \cup {Top.caller}
      /\ chain'.balance = chain.balance /\ chain'.nonce = chain.nonce
      /\ chain'.code = chain.code /\ chain'.slot = chain.slot
  BY <1>1 DEF AfterCairoCalls, Chain
<1>3. UnregisteredEmpty(chain') /\ UnregisteredEmpty(base')
  BY <1>2 DEF UnregisteredEmpty, SInv
<1>4. ASSUME NEW a \in Addr PROVE FetchAccount(chain, a) = FetchAccount(chain', a)
  <2>1. CASE a \in chain.registered \/ a # Top.caller
    BY <1>2, <2>1 DEF FetchAccount
  <2>2. CASE a \notin chain.registered /\ a = Top.caller
    <3>1. chain.nonce[a] = 0 /\ chain.code[a] = FALSE /\ chain.slot[a] = 0
      BY <2>2 DEF SInv, UnregisteredEmpty
    <3>2. FetchAccount(chain, a) = [EmptyAccount EXCEPT !.balance = chain.balance[a]]
      BY <2>2 DEF FetchAccount
    <3>3. FetchAccount(chain', a) =
            [EmptyAccount EXCEPT !.nonce = 0, !.balance = chain.balance[a],
                                 !.code = FALSE, !.slot = 0]
      BY <1>2, <2>2, <3>1 DEF FetchAccount
    <3>4. chain.balance[a] \in Nat
      BY <1>1 DEF Chain
    <3> QED BY <3>2, <3>3, <3>4, EmptyAfterReset
  <2> QED BY <2>1, <2>2
<1> QED BY <1>3, <1>4 DEF ChainKept, SameChain

\* The end of a context preserves the invariant, if Cairo calls do not move the
\* native token.
LEMMA EndKeepsStatic ==
  ASSUME ~CairoMovesNative, TypeOK, SInv, End
  PROVE  SInv'
<1>1. BalancesAfterCairoCalls = {chain.balance}
  BY DEF BalancesAfterCairoCalls
<1>2. ASSUME chain' = chain, base' = base PROVE ChainKept
  BY <1>2 DEF ChainKept, SameChain, SInv
<1>3. CASE ExecReturn \/ ExecRevert \/ ExceptionalHalt
  <2>1. phase = "run" /\ chain' = chain /\ base' = base /\ state' = state
    BY <1>3 DEF ExecReturn, ExecRevert, ExceptionalHalt, Ends, Running
  <2>2. \E status \in Status \ {"running"}, output \in Output : StopTop(status, output)
    BY <1>3, StatusErrors DEF ExecReturn, ExecRevert, ExceptionalHalt
  <2>3. KeepsContexts
    BY <2>1, <2>2, StopTopStops, SameReflexive, StopsTopKeeps
  <2> QED BY <1>2, <2>1, <2>3, KeepsContextsPreserves
<1>4. CASE EthPrecompile \/ CairoPrecompileRefuses
  <2>1. PICK precompiles : InPrecompile(precompiles)
    BY <1>4 DEF EthPrecompile, CairoPrecompileRefuses
  <2>2. phase = "run" /\ 0 \in Felt
    BY <2>1, InPrecompileFacts
  <2>3. PICK status \in Status \ {"running"} : StopPrecompile(status, 0)
    BY <1>4, StatusErrors DEF EthPrecompile, CairoPrecompileRefuses
  <2>4. chain' = chain /\ base' = base /\ state' = state
    BY <1>4 DEF EthPrecompile, CairoPrecompileRefuses
  <2> QED BY <1>2, <2>2, <2>3, <2>4, StopPrecompileKeeps, KeepsContextsPreserves
<1>5. CASE CairoPrecompileExecutes \/ CairoBatchFails
  <2>1. phase = "run" /\ 0 \in Felt /\ 1 \in Felt
    BY <1>5, InPrecompileFacts DEF CairoPrecompileExecutes, CairoBatchFails
  <2>2. \E status \in Status \ {"running"}, called \in {0, 1} : StopPrecompile(status, called)
    BY <1>5, StatusErrors DEF CairoPrecompileExecutes, CairoBatchFails
  <2>3. base' = base /\ state' = state
    BY <1>5 DEF CairoPrecompileExecutes, CairoBatchFails
  <2>4. \E n \in Nat : chain' = chain \/ chain' = AfterCairoCalls(n, chain.balance)
    BY <1>1, <1>5, LimitAssumption DEF CairoPrecompileExecutes, CairoBatchFails
  <2>5. ChainKept
    BY <1>2, <2>1, <2>3, <2>4, CairoCallsShowNothing
  <2> QED BY <2>1, <2>2, <2>3, <2>5, StopPrecompileKeeps, KeepsContextsPreserves
<1>6. CASE CairoCallPanics
  BY <1>6, AbortKeepsStatic DEF CairoCallPanics
<1> QED BY <1>3, <1>4, <1>5, <1>6 DEF End

\* Resuming a caller with a state it may have preserves the invariant.
LEMMA ResumeKeepsStatic ==
  ASSUME TypeOK, phase = "run", SInv, Depth > 1, NEW s, Resume(s),
         Parent.read_only => Same(chain, s, Top.parent_state)
  PROVE  SInv'
<1>1. /\ Depth \in Nat /\ Depth' = Depth - 1
      /\ \A i \in 1..(Depth - 2) : frames'[i] = frames[i]
      /\ frames'[Depth - 1] = [Parent EXCEPT !.cairo_precompile_called = CairoCalled]
  BY TopIsFrame, ResumedFrames
<1>2. Parent \in Frame
  BY <1>1, TopIsFrame DEF Parent
<1>3. Agree(frames'[Depth - 1], Parent)
  BY <1>1, <1>2 DEF Agree, Frame
<1>4. \A i \in 1..(Depth - 1) : i \in 1..(Depth - 2) \/ i = Depth - 1
  BY <1>1
<1>5. \A i \in 1..(Depth - 1) : Agree(frames'[i], frames[i])
  BY <1>1, <1>3, <1>4 DEF Agree, Parent
<1>6. state' = s /\ chain' = chain /\ base' = base
  BY DEF Resume
<1>7. ClosesTop
  BY <1>1, <1>5, <1>6 DEF ClosesTop, Depth
<1>8. ChainKept
  BY <1>6 DEF ChainKept, SameChain, SInv
<1> QED BY <1>7, <1>8, ClosesTopPreserves

\* So does the end of a call, reverted or not: a static caller's callee is static,
\* and leaves the state it was entered with.
LEMMA FinalizeCallKeepsStatic ==
  ASSUME TypeOK, SInv, FinalizeCall
  PROVE  SInv'
<1>1. phase = "run" /\ Depth > 1 /\ Depth \in Nat
  BY TopIsFrame DEF FinalizeCall, TopStopped
<1>2. /\ Top.code_address \in Addr /\ Top.parent_state \in State
      /\ state \in State /\ chain \in Chain
  BY <1>1, TopIsFrame, TopFields, TypesOfVariables
<1>3. Parent.read_only => Same(chain, state, Top.parent_state)
  <2>1. Depth \in 2..Depth
    BY <1>1
  <2>2. Parent.read_only => Top.read_only
    BY <2>1 DEF SInv, StaticBelow, Parent, Top
  <2>3. Top.read_only => Same(chain, state, Top.parent_state)
    BY <2>1 DEF SInv, NothingChanged, StateOf, Top
  <2> QED BY <2>2, <2>3
<1>4. ASSUME NEW s \in State, Parent.read_only => Same(chain, s, Top.parent_state),
             Resume(CacheAccount(chain, s, Top.code_address))
      PROVE  SInv'
  <2>1. Parent.read_only =>
          Same(chain, CacheAccount(chain, s, Top.code_address), Top.parent_state)
    BY <1>2, <1>4, CacheAccountSame, SameTransitive
  <2> QED BY <1>1, <1>4, <2>1, ResumeKeepsStatic
<1>5. CASE Abort
  BY <1>5, AbortKeepsStatic
<1>6. CASE Resume(CacheAccount(chain, Top.parent_state, Top.code_address))
  BY <1>2, <1>4, <1>6, SameReflexive
<1>7. CASE Resume(CacheAccount(chain, state, Top.code_address))
  BY <1>2, <1>3, <1>4, <1>7
<1> QED BY <1>5, <1>6, <1>7 DEF FinalizeCall

\* So does the end of a creation, whose caller is not static.
LEMMA FinalizeCreateKeepsStatic ==
  ASSUME TypeOK, SInv, FinalizeCreate
  PROVE  SInv'
<1>1. phase = "run" /\ Depth > 1 /\ Depth \in Nat
  BY TopIsFrame DEF FinalizeCreate, TopStopped
<1>2. ~Parent.read_only
  <2>1. Depth \in 2..Depth /\ Depth \in 1..Depth
    BY <1>1
  <2>2. Parent.read_only => Top.read_only
    BY <2>1 DEF SInv, StaticBelow, Parent, Top
  <2>3. Top.read_only => ~Top.is_create
    BY <2>1 DEF SInv, NoStaticCreation, Top
  <2>4. Top.is_create
    BY DEF FinalizeCreate
  <2> QED BY <2>2, <2>3, <2>4
<1>3. CASE Abort
  BY <1>3, AbortKeepsStatic
<1>4. CASE \E s : Resume(s)
  BY <1>1, <1>2, <1>4, ResumeKeepsStatic
<1> QED BY <1>3, <1>4 DEF FinalizeCreate

\* So does the end of the root context, after which there is none.
LEMMA FinalizeRootKeepsStatic ==
  ASSUME SInv, FinalizeRoot
  PROVE  SInv'
<1>1. CASE Abort
  BY <1>1, AbortKeepsStatic
<1>2. CASE ~Abort
  <2>1. frames' = <<>> /\ chain' = chain /\ base' = base
    BY <1>2 DEF FinalizeRoot, Settle
  <2> QED BY <2>1, NoContexts DEF SInv
<1> QED BY <1>1, <1>2

-----------------------------------------------------------------------------
(***************************************************************************)
(* The beginning of a transaction and its commit.                           *)
(***************************************************************************)
\* The root context of a transaction is not static.
LEMMA SendKeepsStatic ==
  ASSUME IInv, SInv, Send
  PROVE  SInv'
<1>1. PICK origin \in Eoa, value \in Values, access_list \in AccessLists,
           to \in Callees \cup CreateTargets, deploy \in BOOLEAN :
        SendTransaction(origin, to, value, deploy, access_list)
  BY DEF Send
<1>2. phase = "idle" /\ chain' = chain /\ base' = chain
  BY <1>1 DEF SendTransaction
<1>3. UnregisteredEmpty(chain') /\ UnregisteredEmpty(base')
  BY <1>2 DEF SInv
<1>4. \/ frames' = frames
      \/ \E frame : frames' = <<frame>> /\ frame.read_only = FALSE
  BY <1>1 DEF SendTransaction, RejectTransaction, EnterRoot
<1>5. CASE frames' = frames
  BY <1>2, <1>3, <1>5, NoContexts DEF IInv, FramesWhileRunning
<1>6. CASE \E frame : frames' = <<frame>> /\ frame.read_only = FALSE
  <2>1. Depth' = 1 /\ frames'[1].read_only = FALSE
    BY <1>6 DEF Depth
  <2>2. StaticBelow' /\ NothingChanged'
    BY <2>1 DEF StaticBelow, NothingChanged
  <2>3. NoStaticCreation'
    BY <2>1 DEF NoStaticCreation
  <2> QED BY <1>3, <2>2, <2>3 DEF SInv
<1> QED BY <1>4, <1>5, <1>6

\* The commit writes only to accounts that it registers.
LEMMA CommitKeepsStatic ==
  ASSUME IInv, SInv, CommitStep
  PROVE  SInv'
<1>1. CASE Abort
  BY <1>1, AbortKeepsStatic
<1>2. CASE ~Abort
  <2>1. phase # "run" /\ frames' = frames /\ base' = base
    BY <1>2 DEF CommitStep, CommitAccount, EmitEvents, TransferEth, Commit
  <2>2. frames' = <<>>
    BY <2>1 DEF IInv, FramesWhileRunning
  <2>3. chain \in Chain /\ to_commit \in SUBSET Addr
    BY DEF IInv, TypeOK
  <2>4. UnregisteredEmpty(chain')
    <3>1. CASE CommitAccount
      <4> DEFINE a == CHOOSE x \in to_commit : TRUE
                 account == state.accounts[a]
      <4>1. chain' = chain \/ chain' = WriteAccount(account, a)
        BY <3>1 DEF CommitAccount
      <4>2. a \in Addr
        BY <2>3, <3>1 DEF CommitAccount
      <4> HIDE DEF a, account
      <4>3. CASE chain' = WriteAccount(account, a)
        <5>1. chain'.registered = chain.registered \cup {a}
          BY <2>3, <4>3 DEF WriteAccount, Chain
        <5>2. \A b \in Addr \ {a} : /\ chain'.nonce[b] = chain.nonce[b]
                                    /\ chain'.code[b] = chain.code[b]
                                    /\ chain'.slot[b] = chain.slot[b]
          BY <2>3, <4>2, <4>3 DEF WriteAccount, Chain
        <5> QED BY <5>1, <5>2 DEF SInv, UnregisteredEmpty
      <4> QED BY <4>1, <4>3 DEF SInv
    <3>2. CASE EmitEvents
      BY <2>3, <3>2 DEF EmitEvents, Chain, SInv, UnregisteredEmpty
    <3>3. CASE TransferEth
      BY <1>2, <2>3, <3>3 DEF TransferEth, Chain, SInv, UnregisteredEmpty
    <3>4. CASE Commit
      BY <3>4 DEF Commit, SInv
    <3> QED BY <3>1, <3>2, <3>3, <3>4 DEF CommitStep
  <2> QED BY <2>1, <2>2, <2>4, NoContexts DEF SInv
<1> QED BY <1>1, <1>2

-----------------------------------------------------------------------------
(***************************************************************************)
(* The invariant holds.                                                    *)
(***************************************************************************)
\* The invariant holds at first,
LEMMA InitStatic == Init => SInv
<1> SUFFICES ASSUME Init PROVE SInv
  OBVIOUS
<1>1. Depth = 0
  BY DEF Init, Depth
<1>2. UnregisteredEmpty(Genesis)
  <2> SUFFICES ASSUME NEW a \in Addr \ (Eoa \cup Contracts)
               PROVE  /\ Genesis.nonce[a] = 0 /\ Genesis.slot[a] = 0
                      /\ Genesis.code[a] = FALSE
    BY DEF UnregisteredEmpty, Genesis
  <2>1. Genesis.nonce[a] = 0 /\ Genesis.slot[a] = 0
    BY DEF Genesis
  <2>2. Genesis.code[a] = (a \in Contracts)
    BY DEF Genesis
  <2>3. (a \in Contracts) = FALSE
    OBVIOUS
  <2> QED BY <2>1, <2>2, <2>3, Zenon
<1> QED BY <1>1, <1>2 DEF Init, SInv, StaticBelow, NoStaticCreation, NothingChanged

\* and every step preserves it.
LEMMA StepKeepsStatic ==
  ASSUME ~CairoMovesNative
  PROVE  IInv /\ SInv /\ [Next]_vars => SInv'
<1> SUFFICES ASSUME IInv, SInv, [Next]_vars PROVE SInv'
  OBVIOUS
<1>1. TypeOK
  BY DEF IInv
<1>2. CASE Send
  BY <1>2, SendKeepsStatic
<1>3. CASE Opcode
  BY <1>1, <1>3, OpcodeKeepsStatic
<1>4. CASE End
  BY <1>1, <1>4, EndKeepsStatic
<1>5. CASE Finalize
  BY <1>1, <1>5, FinalizeCallKeepsStatic, FinalizeCreateKeepsStatic,
     FinalizeRootKeepsStatic DEF Finalize
<1>6. CASE CommitStep
  BY <1>6, CommitKeepsStatic
<1>7. CASE UNCHANGED vars
  BY <1>7 DEF vars, SInv, StaticBelow, NoStaticCreation, NothingChanged, StateOf, Depth
<1> QED BY <1>2, <1>3, <1>4, <1>5, <1>6, <1>7 DEF Next, Proceed, NoMoreTransactions

\* A static context, and whatever it calls in whatever way, leaves no trace in the
\* state of its caller, however deep the calls and whatever accounts are cached or
\* registered meanwhile, as long as the Cairo contracts it calls do not move the
\* native token of an account: its balance is what an account not cached shows.
THEOREM StaticContextsLeaveNoTrace ==
  ASSUME ~CairoMovesNative
  PROVE  Spec => []StaticContextsChangeNothing
<1>1. Init => IInv /\ SInv
  BY InitInvariant, InitStatic
<1>2. (IInv /\ SInv) /\ [Next]_vars => (IInv /\ SInv)'
  BY StepPreserves, StepKeepsStatic
<1>3. IInv /\ SInv => StaticContextsChangeNothing
  BY SameView DEF SInv, NothingChanged, StateOf, StaticContextsChangeNothing
<1> QED BY <1>1, <1>2, <1>3, PTL DEF Spec

-----------------------------------------------------------------------------
(***************************************************************************)
(* Induction, and functions defined by it.                                  *)
(***************************************************************************)
\* A set that holds 0 and the successor of each of its numbers holds them all.
LEMMA NatSet ==
  ASSUME NEW S, 0 \in S, \A n \in Nat : n \in S => n + 1 \in S
  PROVE  \A n \in Nat : n \in S
<1> SUFFICES ASSUME Nat \ S # {} PROVE FALSE
  OBVIOUS
<1>1. PICK x \in Nat \ S : \A y \in Nat \ S : <<y, x>> \notin OpToRel(<, Nat)
  BY NatLessThanWellFounded, WFMin
<1>2. \A y \in Nat : y < x => <<y, x>> \in OpToRel(<, Nat)
  BY DEF OpToRel
<1>3. \A y \in Nat : y < x => y \in S
  BY <1>1, <1>2
<1>4. CASE x = 0
  BY <1>4
<1>5. CASE x # 0
  <2>1. x - 1 \in Nat /\ x - 1 < x /\ (x - 1) + 1 = x
    BY <1>5
  <2> QED BY <1>3, <2>1
<1> QED BY <1>4, <1>5

\* g holds the balances after up to m of the transfers.
Replays(balance, ts, m, g) ==
  g = [n \in 0..m |-> IF n = 0 THEN balance ELSE Transferred(g[n - 1], ts[n])]

\* The first n transfers of ts and us are the same.
SamePrefix(ts, us, n) == \A i \in 1..n : ts[i] = us[i]

\* There are such functions, of any length,
LEMMA ReplaysExist ==
  ASSUME NEW balance, NEW ts
  PROVE  \A m \in Nat : \E g : Replays(balance, ts, m, g)
<1> DEFINE S == {m \in Nat : \E g : Replays(balance, ts, m, g)}
<1>1. 0 \in S
  <2>1. Replays(balance, ts, 0, [n \in 0..0 |-> balance])
    BY DEF Replays
  <2> QED BY <2>1
<1>2. ASSUME NEW m \in Nat, m \in S PROVE m + 1 \in S
  <2>1. PICK g : Replays(balance, ts, m, g)
    BY <1>2
  <2> DEFINE h == [n \in 0..(m + 1) |-> IF n = m + 1 THEN Transferred(g[m], ts[m + 1])
                                                     ELSE g[n]]
  <2>2. ASSUME NEW n \in 0..(m + 1)
        PROVE  h[n] = IF n = 0 THEN balance ELSE Transferred(h[n - 1], ts[n])
    <3>1. CASE n = m + 1
      BY <3>1
    <3>2. CASE n # m + 1
      <4>1. n \in 0..m /\ h[n] = g[n] /\ (n # 0 => n - 1 \in 0..(m + 1) /\ n - 1 # m + 1)
        BY <3>2
      <4>2. n # 0 => h[n - 1] = g[n - 1]
        BY <4>1
      <4> QED BY <2>1, <4>1, <4>2 DEF Replays
    <3> QED BY <3>1, <3>2
  <2>3. Replays(balance, ts, m + 1, h)
    BY <2>2 DEF Replays
  <2> QED BY <2>3
<1> HIDE DEF S
<1>3. \A m \in Nat : m \in S
  BY <1>1, <1>2, NatSet
<1> QED BY <1>3 DEF S

\* which agree, whatever transfers come after those that both have made.
LEMMA ReplaysAgree ==
  ASSUME NEW balance, NEW ts, NEW us, NEW m \in Nat, NEW k \in Nat, NEW g, NEW h,
         NEW last \in Nat, SamePrefix(ts, us, last),
         Replays(balance, ts, m, g), Replays(balance, us, k, h)
  PROVE  \A n \in Nat : n <= m /\ n <= k /\ n <= last => g[n] = h[n]
<1> DEFINE S == {n \in Nat : n <= m /\ n <= k /\ n <= last => g[n] = h[n]}
<1>1. 0 \in S
  BY DEF Replays
<1>2. ASSUME NEW n \in Nat, n \in S PROVE n + 1 \in S
  <2>1. CASE n + 1 <= m /\ n + 1 <= k /\ n + 1 <= last
    <3>1. /\ n + 1 \in 0..m /\ n + 1 \in 0..k /\ n + 1 # 0 /\ (n + 1) - 1 = n
          /\ g[n] = h[n] /\ ts[n + 1] = us[n + 1]
      BY <1>2, <2>1 DEF SamePrefix
    <3>2. g[n + 1] = Transferred(g[n], ts[n + 1])
      BY <3>1 DEF Replays
    <3>3. h[n + 1] = Transferred(h[n], us[n + 1])
      BY <3>1 DEF Replays
    <3> QED BY <3>1, <3>2, <3>3
  <2> QED BY <2>1
<1> HIDE DEF S
<1>3. \A n \in Nat : n \in S
  BY <1>1, <1>2, NatSet
<1> QED BY <1>3 DEF S

\* Replay satisfies the equation that defines it.
LEMMA ReplayDef ==
  ASSUME NEW balance, NEW ts
  PROVE  /\ Replay(balance, ts)[0] = balance
         /\ \A n \in Nat : Replay(balance, ts)[n + 1] =
                             Transferred(Replay(balance, ts)[n], ts[n + 1])
<1> DEFINE G(m) == CHOOSE g : Replays(balance, ts, m, g)
           f == [n \in Nat |-> G(n)[n]]
<1>1. \A m \in Nat : Replays(balance, ts, m, G(m))
  BY ReplaysExist
<1> HIDE DEF G
<1>2. ASSUME NEW n \in Nat
      PROVE  f[n] = IF n = 0 THEN balance ELSE Transferred(f[n - 1], ts[n])
  <2>1. f[n] = IF n = 0 THEN balance ELSE Transferred(G(n)[n - 1], ts[n])
    BY <1>1 DEF Replays
  <2>2. ASSUME n # 0 PROVE n - 1 \in Nat /\ G(n)[n - 1] = G(n - 1)[n - 1]
    <3>1. n - 1 \in Nat /\ n - 1 <= n
      BY <2>2
    <3> DEFINE g == G(n)
               h == G(n - 1)
    <3>2. Replays(balance, ts, n, g) /\ Replays(balance, ts, n - 1, h)
      BY <1>1, <3>1
    <3> HIDE DEF f, g, h
    <3>3. SamePrefix(ts, ts, n)
      BY DEF SamePrefix
    <3>4. \A k \in Nat : k <= n /\ k <= n - 1 /\ k <= n => g[k] = h[k]
      BY <3>1, <3>2, <3>3, ReplaysAgree
    <3> QED BY <3>1, <3>4 DEF g, h
  <2> QED BY <2>1, <2>2
<1>3. f = [n \in Nat |-> IF n = 0 THEN balance ELSE Transferred(f[n - 1], ts[n])]
  BY <1>2
<1> HIDE DEF f
<1>4. \E s : s = [n \in Nat |-> IF n = 0 THEN balance ELSE Transferred(s[n - 1], ts[n])]
  BY <1>3
<1>5. Replay(balance, ts) =
        [n \in Nat |-> IF n = 0 THEN balance
                       ELSE Transferred(Replay(balance, ts)[n - 1], ts[n])]
  BY <1>4 DEF Replay
<1> DEFINE r == Replay(balance, ts)
<1>6. r[0] = balance
  BY <1>5
<1>7. ASSUME NEW n \in Nat PROVE r[n + 1] = Transferred(r[n], ts[n + 1])
  BY <1>5
<1> QED BY <1>6, <1>7

\* One step of it.
LEMMA ReplayStep ==
  ASSUME NEW balance, NEW ts, NEW n \in Nat
  PROVE  Replay(balance, ts)[n + 1] = Transferred(Replay(balance, ts)[n], ts[n + 1])
BY ReplayDef

-----------------------------------------------------------------------------
(***************************************************************************)
(* What a sequence of transfers does.                                       *)
(***************************************************************************)
\* The first transfers do what they do, whatever comes after them.
LEMMA ReplayPrefix ==
  ASSUME NEW balance, NEW ts, NEW us, NEW last \in Nat, SamePrefix(ts, us, last)
  PROVE  \A n \in Nat : n <= last => Replay(balance, ts)[n] = Replay(balance, us)[n]
<1> DEFINE S == {n \in Nat : n <= last => Replay(balance, ts)[n] = Replay(balance, us)[n]}
<1>1. 0 \in S
  BY ReplayDef
<1>2. ASSUME NEW n \in Nat, n \in S PROVE n + 1 \in S
  <2>1. CASE n + 1 <= last
    <3>1. Replay(balance, ts)[n] = Replay(balance, us)[n] /\ ts[n + 1] = us[n + 1]
      BY <1>2, <2>1 DEF SamePrefix
    <3> QED BY <3>1, ReplayDef
  <2> QED BY <2>1
<1> HIDE DEF S
<1>3. \A n \in Nat : n \in S
  BY <1>1, <1>2, NatSet
<1> QED BY <1>3 DEF S

\* To make the transfers is to make the first one, then the others.
LEMMA ReplayTail ==
  ASSUME NEW balance, NEW ts \in Seq(Transfer), ts # <<>>
  PROVE  \A n \in Nat : n < Len(ts) =>
           Replay(Transferred(balance, Head(ts)), Tail(ts))[n] = Replay(balance, ts)[n + 1]
<1> DEFINE after == Transferred(balance, Head(ts))
           S == {n \in Nat : n < Len(ts) =>
                   Replay(after, Tail(ts))[n] = Replay(balance, ts)[n + 1]}
<1>1. 0 \in S
  <2>1. Replay(balance, ts)[0 + 1] = Transferred(balance, ts[1])
    BY SMTT(60), ReplayDef
  <2>2. Head(ts) = ts[1]
    OBVIOUS
  <2>3. Replay(after, Tail(ts))[0] = after
    BY ReplayDef
  <2> QED BY <2>1, <2>2, <2>3
<1> HIDE DEF after
<1>2. ASSUME NEW n \in Nat, n \in S PROVE n + 1 \in S
  <2>1. CASE n + 1 < Len(ts)
    <3>1. Replay(after, Tail(ts))[n] = Replay(balance, ts)[n + 1]
      BY <1>2, <2>1
    <3>2. Tail(ts)[n + 1] = ts[(n + 1) + 1]
      BY <2>1
    <3>3. n + 1 \in Nat
      OBVIOUS
    <3>4. /\ Replay(after, Tail(ts))[n + 1] = Transferred(Replay(after, Tail(ts))[n],
                                                          Tail(ts)[n + 1])
          /\ Replay(balance, ts)[(n + 1) + 1] = Transferred(Replay(balance, ts)[n + 1],
                                                            ts[(n + 1) + 1])
      BY <3>3, ReplayStep
    <3> QED BY <3>1, <3>2, <3>4
  <2> QED BY <2>1
<1> HIDE DEF S
<1>3. \A n \in Nat : n \in S
  BY <1>1, <1>2, NatSet
<1> QED BY <1>3 DEF S, after

\* The transfers can be made in this order: each finds the balance it needs.
Payable(balance, ts) ==
  \A n \in 1..Len(ts) : ts[n].amount <= Replay(balance, ts)[n - 1][ts[n].sender]

\* The balances when all have been made.
After(balance, ts) == Replay(balance, ts)[Len(ts)]

\* A transfer moves the amount.
LEMMA TransferredAt ==
  ASSUME NEW balance \in [Addr -> Nat], NEW t \in Transfer, t.sender # t.recipient,
         NEW a \in Addr
  PROVE  Transferred(balance, t)[a] =
           IF a = t.sender THEN balance[a] - t.amount
           ELSE IF a = t.recipient THEN balance[a] + t.amount ELSE balance[a]
BY DEF Transferred, Transfer

\* Transfers that can be made lead from balances to balances.
LEMMA ReplayType ==
  ASSUME NEW balance \in [Addr -> Nat], NEW ts \in Seq(Transfer), Payable(balance, ts)
  PROVE  \A n \in Nat : n <= Len(ts) => Replay(balance, ts)[n] \in [Addr -> Nat]
<1> DEFINE S == {n \in Nat : n <= Len(ts) => Replay(balance, ts)[n] \in [Addr -> Nat]}
<1>1. 0 \in S
  BY ReplayDef
<1>2. ASSUME NEW n \in Nat, n \in S PROVE n + 1 \in S
  <2>1. CASE n + 1 <= Len(ts)
    <3>1. Replay(balance, ts)[n] \in [Addr -> Nat]
      BY <1>2, <2>1
    <3>2. /\ n + 1 \in 1..Len(ts) /\ (n + 1) - 1 = n /\ ts[n + 1] \in Transfer
      BY <2>1
    <3>3. ts[n + 1].amount <= Replay(balance, ts)[n][ts[n + 1].sender]
      BY <3>2 DEF Payable
    <3>4. Replay(balance, ts)[n + 1] = Transferred(Replay(balance, ts)[n], ts[n + 1])
      BY ReplayDef
    <3> QED BY SMTT(60), <3>1, <3>2, <3>3, <3>4, TransferredType
  <2> QED BY <2>1
<1> HIDE DEF S
<1>3. \A n \in Nat : n \in S
  BY <1>1, <1>2, NatSet
<1> QED BY <1>3 DEF S

\* In particular when all have been made.
LEMMA AfterType ==
  ASSUME NEW balance \in [Addr -> Nat], NEW ts \in Seq(Transfer), Payable(balance, ts)
  PROVE  After(balance, ts) \in [Addr -> Nat]
<1>1. Len(ts) \in Nat /\ Len(ts) <= Len(ts)
  OBVIOUS
<1> QED BY <1>1, ReplayType DEF After

\* So do they with one more that finds its balance when they have been made.
LEMMA PayableAppend ==
  ASSUME NEW balance, NEW ts \in Seq(Transfer), NEW t \in Transfer,
         Payable(balance, ts), t.amount <= After(balance, ts)[t.sender]
  PROVE  /\ Payable(balance, Append(ts, t))
         /\ After(balance, Append(ts, t)) = Transferred(After(balance, ts), t)
<1> DEFINE us == Append(ts, t)
           last == Len(ts)
<1>1. /\ last \in Nat /\ Len(us) = last + 1 /\ us[last + 1] = t
      /\ \A i \in 1..last : us[i] = ts[i]
  OBVIOUS
<1>2. SamePrefix(us, ts, last)
  BY <1>1 DEF SamePrefix
<1> HIDE DEF us, last
<1>3. \A n \in Nat : n <= last => Replay(balance, us)[n] = Replay(balance, ts)[n]
  BY <1>1, <1>2, ReplayPrefix
<1>4. ASSUME NEW n \in 1..(last + 1)
      PROVE  us[n].amount <= Replay(balance, us)[n - 1][us[n].sender]
  <2>1. n - 1 \in Nat /\ n - 1 <= last
    BY <1>1
  <2>2. Replay(balance, us)[n - 1] = Replay(balance, ts)[n - 1]
    BY <1>3, <2>1
  <2>3. CASE n = last + 1
    <3>1. n - 1 = last /\ us[n] = t
      BY <1>1, <2>3
    <3> QED BY <2>2, <3>1 DEF After, last
  <2>4. CASE n # last + 1
    <3>1. n \in 1..last /\ us[n] = ts[n]
      BY <1>1, <2>4
    <3> QED BY <2>2, <3>1 DEF Payable, last
  <2> QED BY <2>3, <2>4
<1>5. Payable(balance, us)
  BY <1>1, <1>4 DEF Payable
<1>6. Replay(balance, us)[last + 1] = Transferred(Replay(balance, us)[last], us[last + 1])
  BY <1>1, ReplayStep
<1>7. Replay(balance, us)[last] = Replay(balance, ts)[last]
  BY <1>1, <1>3
<1> QED BY <1>1, <1>5, <1>6, <1>7 DEF After, us, last

\* So do the others when the first one has been made.
LEMMA PayableTail ==
  ASSUME NEW balance, NEW ts \in Seq(Transfer), ts # <<>>, Payable(balance, ts)
  PROVE  /\ Payable(Transferred(balance, Head(ts)), Tail(ts))
         /\ After(Transferred(balance, Head(ts)), Tail(ts)) = After(balance, ts)
         /\ Head(ts).amount <= balance[Head(ts).sender]
<1> DEFINE next == Transferred(balance, Head(ts))
           us == Tail(ts)
           n == Len(ts)
<1>1. /\ n \in Nat /\ n > 0 /\ Len(us) = n - 1 /\ \A i \in 1..(n - 1) : us[i] = ts[i + 1]
      /\ Head(ts) = ts[1]
  OBVIOUS
<1>2. \A k \in Nat : k < n => Replay(next, us)[k] = Replay(balance, ts)[k + 1]
  BY ReplayTail
<1> HIDE DEF next, us, n
<1>3. ASSUME NEW i \in 1..(n - 1)
      PROVE  us[i].amount <= Replay(next, us)[i - 1][us[i].sender]
  <2>1. i - 1 \in Nat /\ i - 1 < n /\ (i - 1) + 1 = i /\ i + 1 \in 1..n /\ (i + 1) - 1 = i
    BY <1>1
  <2>2. Replay(next, us)[i - 1] = Replay(balance, ts)[i]
    BY <1>2, <2>1
  <2>3. ts[i + 1].amount <= Replay(balance, ts)[i][ts[i + 1].sender]
    BY <2>1 DEF Payable, n
  <2> QED BY <1>1, <2>2, <2>3
<1>4. Payable(next, us)
  BY <1>1, <1>3 DEF Payable
<1>5. After(next, us) = After(balance, ts)
  <2>1. n - 1 \in Nat /\ n - 1 < n /\ (n - 1) + 1 = n
    BY <1>1
  <2>2. Replay(next, us)[n - 1] = Replay(balance, ts)[n]
    BY <1>2, <2>1
  <2> QED BY <1>1, <2>2 DEF After, n
<1>6. ts[1].amount <= balance[ts[1].sender]
  <2>1. 1 \in 1..n /\ 1 - 1 = 0
    BY <1>1
  <2> QED BY SMTT(60), <2>1, ReplayDef DEF Payable, n
<1> QED BY <1>1, <1>4, <1>5, <1>6 DEF next, us

-----------------------------------------------------------------------------
(***************************************************************************)
(* Good states.                                                             *)
(***************************************************************************)
\* The balance that a state shows.
BalanceOf(balance, s, a) == IF a \in s.cached THEN s.accounts[a].balance ELSE balance[a]

Good(balance, held, s) ==
  /\ Payable(balance, s.transfers)
  /\ \A a \in Addr : After(balance, s.transfers)[a] = BalanceOf(balance, s, a) + held[a]
  /\ \A n \in 1..Len(s.transfers) :
       /\ s.transfers[n].sender \in s.cached \ Precompiles
       /\ s.transfers[n].recipient \in s.cached \ {s.transfers[n].sender}
  /\ \A a \in Precompiles : a \in s.cached => ~s.accounts[a].code

\* Whether an account is deployed or not, its balance is the native token's.
LEMMA AccountOfBalance ==
  ASSUME NEW c \in Chain, NEW s \in State, NEW a \in Addr
  PROVE  /\ AccountOf(c, s, a).balance = BalanceOf(c.balance, s, a)
         /\ AccountOf(c, s, a).balance \in Nat
         /\ AccountOf(c, s, a) \in Account
<1>1. FetchAccount(c, a).balance = c.balance[a]
  BY DEF FetchAccount, EmptyAccount
<1>2. AccountOf(c, s, a) \in Account
  BY AccountOfType
<1> QED BY <1>1, <1>2 DEF AccountOf, BalanceOf, Account

\* A state without accounts or transfers is good.
LEMMA InitGood ==
  ASSUME NEW balance \in [Addr -> Nat], NEW held, \A a \in Addr : held[a] = 0
  PROVE  Good(balance, held, InitState)
<1>1. InitState.transfers = <<>> /\ InitState.cached = {} /\ Len(<<>>) = 0
  BY DEF InitState
<1>2. After(balance, <<>>) = balance
  BY <1>1, ReplayDef DEF After
<1>3. ASSUME NEW a \in Addr
      PROVE  After(balance, InitState.transfers)[a] = BalanceOf(balance, InitState, a) + held[a]
  <2>1. balance[a] \in Nat /\ held[a] = 0
    OBVIOUS
  <2> QED BY <1>1, <1>2, <2>1 DEF BalanceOf
<1> QED BY <1>1, <1>3 DEF Good, Payable

\* What is good of a state depends on its accounts and its transfers.
LEMMA SameGood ==
  ASSUME NEW balance, NEW held, NEW s, NEW t, Good(balance, held, s),
         t.transfers = s.transfers, t.cached = s.cached, t.accounts = s.accounts
  PROVE  Good(balance, held, t)
BY DEF Good, BalanceOf

\* Writing an account keeps a state good if what it takes from the balance is held
\* and it gives no code to a precompile.
LEMMA UpdateGood ==
  ASSUME NEW balance \in [Addr -> Nat], NEW held \in [Addr -> Nat], NEW now \in [Addr -> Nat],
         NEW s \in State, NEW x \in Addr, NEW account \in Account,
         Good(balance, held, s),
         account.balance + now[x] = BalanceOf(balance, s, x) + held[x],
         \A a \in Addr \ {x} : now[a] = held[a],
         x \in Precompiles => ~account.code
  PROVE  Good(balance, now, UpdateAccount(s, x, account))
<1> DEFINE t == UpdateAccount(s, x, account)
<1>1. /\ t.transfers = s.transfers /\ t.cached = s.cached \cup {x}
      /\ t.accounts = [s.accounts EXCEPT ![x] = account]
      /\ s.accounts \in [Addr -> Account]
  BY DEF UpdateAccount, State
<1>2. \A a \in Addr : t.accounts[a] = IF a = x THEN account ELSE s.accounts[a]
  BY <1>1
<1> HIDE DEF t
<1>3. ASSUME NEW a \in Addr
      PROVE  After(balance, t.transfers)[a] = BalanceOf(balance, t, a) + now[a]
  <2>1. CASE a = x
    BY <1>1, <1>2, <2>1 DEF Good, BalanceOf
  <2>2. CASE a # x
    BY <1>1, <1>2, <2>2 DEF Good, BalanceOf
  <2> QED BY <2>1, <2>2
<1>4. \A a \in Precompiles : a \in t.cached => ~t.accounts[a].code
  BY <1>1, <1>2, BoundsOfInputs DEF Good
<1>5. \A n \in 1..Len(t.transfers) :
        /\ t.transfers[n].sender \in t.cached \ Precompiles
        /\ t.transfers[n].recipient \in t.cached \ {t.transfers[n].sender}
  BY <1>1 DEF Good
<1>6. Payable(balance, t.transfers)
  BY <1>1 DEF Good
<1> QED BY <1>3, <1>4, <1>5, <1>6 DEF Good, t

\* Writing an account with the balance it has keeps a state good.
LEMMA WriteGood ==
  ASSUME NEW balance \in [Addr -> Nat], NEW held \in [Addr -> Nat],
         NEW s \in State, NEW x \in Addr, NEW account \in Account,
         Good(balance, held, s), account.balance = BalanceOf(balance, s, x),
         x \in Precompiles => ~account.code
  PROVE  Good(balance, held, UpdateAccount(s, x, account))
BY UpdateGood

\* No precompile has code in Starknet's storage.
NoCode(c) == \A a \in Precompiles : ~c.code[a]

\* Nor in what a good state shows.
LEMMA PrecompilesWithoutCode ==
  ASSUME NEW c \in Chain, NoCode(c), NEW held, NEW s, Good(c.balance, held, s),
         NEW a \in Precompiles
  PROVE  ~AccountOf(c, s, a).code
<1>1. ~FetchAccount(c, a).code
  BY DEF FetchAccount, EmptyAccount, NoCode
<1> QED BY <1>1 DEF AccountOf, Good

\* So does reading one into the cache.
LEMMA CacheGood ==
  ASSUME NEW c \in Chain, NoCode(c), NEW held \in [Addr -> Nat], NEW s \in State, NEW x \in Addr,
         Good(c.balance, held, s)
  PROVE  Good(c.balance, held, CacheAccount(c, s, x))
<1>1. AccountOf(c, s, x) \in Account /\ AccountOf(c, s, x).balance = BalanceOf(c.balance, s, x)
  BY AccountOfBalance
<1>2. x \in Precompiles => ~AccountOf(c, s, x).code
  BY PrecompilesWithoutCode
<1>3. c.balance \in [Addr -> Nat]
  BY DEF Chain
<1> QED BY <1>1, <1>2, <1>3, WriteGood DEF CacheAccount

\* A transfer that an account other than a precompile makes keeps a state good: the
\* sender can pay it when the transfers before it have been made.
LEMMA TransferGood ==
  ASSUME NEW c \in Chain, NoCode(c), NEW held \in [Addr -> Nat], NEW s \in State,
         NEW from \in Addr \ Precompiles, NEW to \in Addr, NEW amount \in Nat,
         Good(c.balance, held, s)
  PROVE  Good(c.balance, held, AddTransfer(c, s, from, to, amount))
<1>0. c.balance \in [Addr -> Nat]
  BY DEF Chain
<1> DEFINE balance == c.balance
           sender == AccountOf(c, s, from)
           recipient == AccountOf(c, s, to)
           t == [sender |-> from, recipient |-> to, amount |-> amount]
           next == AddTransfer(c, s, from, to, amount)
<1>1. CASE NullTransfer(from, to, amount) \/ ~TransferPossible(c, s, from, to, amount)
  BY <1>1 DEF AddTransfer
<1>2. CASE ~(NullTransfer(from, to, amount) \/ ~TransferPossible(c, s, from, to, amount))
  <2>1. /\ sender \in Account /\ sender.balance = BalanceOf(balance, s, from)
        /\ recipient \in Account /\ recipient.balance = BalanceOf(balance, s, to)
        /\ sender.balance \in Nat /\ recipient.balance \in Nat
    BY AccountOfBalance
  <2>2. amount <= sender.balance /\ from # to
    BY <1>2 DEF TransferPossible, NullTransfer
  <2>3. /\ next.transfers = Append(s.transfers, t) /\ next.cached = s.cached \cup {from, to}
        /\ next.accounts = [s.accounts EXCEPT ![from] = [sender EXCEPT !.balance = @ - amount],
                                              ![to] = [recipient EXCEPT !.balance = @ + amount]]
    BY <1>2, Zenon DEF AddTransfer, State
  <2>4. t \in Transfer /\ s.transfers \in Seq(Transfer) /\ s.accounts \in [Addr -> Account]
    BY DEF Transfer, State
  <2>5. balance \in [Addr -> Nat] /\ After(balance, s.transfers) \in [Addr -> Nat]
    <3>1. Payable(c.balance, s.transfers)
      BY DEF Good
    <3>2. After(c.balance, s.transfers) \in [Addr -> Nat]
      BY <1>0, <2>4, <3>1, AfterType
    <3> QED BY <1>0, <3>2
  <2>6. amount <= After(balance, s.transfers)[from]
    <3>1. After(balance, s.transfers)[from] = sender.balance + held[from] /\ held[from] \in Nat
      BY <2>1 DEF Good
    <3> QED BY <2>1, <2>2, <3>1
  <2>7. /\ t.sender = from /\ t.recipient = to /\ t.amount = amount
        /\ t.sender # t.recipient /\ t.amount <= After(balance, s.transfers)[t.sender]
    BY <2>2, <2>6
  <2>8. \A a \in Addr : next.accounts[a] =
          IF a = to THEN [recipient EXCEPT !.balance = @ + amount]
          ELSE IF a = from THEN [sender EXCEPT !.balance = @ - amount] ELSE s.accounts[a]
    BY <2>2, <2>3, <2>4
  <2>9. /\ [recipient EXCEPT !.balance = @ + amount].balance = recipient.balance + amount
        /\ [sender EXCEPT !.balance = @ - amount].balance = sender.balance - amount
        /\ [recipient EXCEPT !.balance = @ + amount].code = recipient.code
    BY <2>1 DEF Account
  <2>10. to \in Precompiles => ~recipient.code
    BY PrecompilesWithoutCode
  <2> HIDE DEF balance, sender, recipient, t, next
  <2>11. /\ Payable(balance, next.transfers)
         /\ After(balance, next.transfers) = Transferred(After(balance, s.transfers), t)
    BY <2>3, <2>4, <2>7, PayableAppend DEF Good, balance
  <2>12. ASSUME NEW a \in Addr
         PROVE  After(balance, next.transfers)[a] = BalanceOf(balance, next, a) + held[a]
    <3>1. After(balance, next.transfers)[a] =
            IF a = from THEN After(balance, s.transfers)[a] - amount
            ELSE IF a = to THEN After(balance, s.transfers)[a] + amount
                 ELSE After(balance, s.transfers)[a]
      <4> DEFINE before == After(balance, s.transfers)
      <4>1. before \in [Addr -> Nat]
        BY <2>5
      <4> HIDE DEF before
      <4>2. Transferred(before, t)[a] =
              IF a = t.sender THEN before[a] - t.amount
              ELSE IF a = t.recipient THEN before[a] + t.amount ELSE before[a]
        BY ZenonT(60), <2>4, <2>7, <4>1 DEF Transferred
      <4>3. After(balance, next.transfers) = Transferred(before, t)
        BY <2>11 DEF before
      <4> QED BY <2>7, <4>2, <4>3 DEF before
    <3>2. After(balance, s.transfers)[a] = BalanceOf(balance, s, a) + held[a]
      BY DEF Good, balance
    <3>3. /\ a = from => BalanceOf(balance, next, a) = BalanceOf(balance, s, a) - amount
          /\ a = to => BalanceOf(balance, next, a) = BalanceOf(balance, s, a) + amount
          /\ a \notin {from, to} => BalanceOf(balance, next, a) = BalanceOf(balance, s, a)
      BY <2>1, <2>2, <2>3, <2>8, <2>9 DEF BalanceOf
    <3>4. held[a] \in Nat /\ After(balance, s.transfers)[a] \in Nat
      BY <2>5
    <3>5. BalanceOf(balance, s, a) \in Nat
      BY <2>4, <2>5 DEF BalanceOf, Account
    <3> QED BY <2>2, <3>1, <3>2, <3>3, <3>4, <3>5
  <2>13. ASSUME NEW n \in 1..Len(next.transfers)
         PROVE  /\ next.transfers[n].sender \in next.cached \ Precompiles
                /\ next.transfers[n].recipient \in next.cached \ {next.transfers[n].sender}
    <3>1. CASE n = Len(s.transfers) + 1
      <4>1. next.transfers[n] = t
        BY <2>3, <2>4, <3>1
      <4> QED BY <2>3, <2>7, <4>1
    <3>2. CASE n # Len(s.transfers) + 1
      <4>1. n \in 1..Len(s.transfers) /\ next.transfers[n] = s.transfers[n]
        BY <2>3, <2>4, <3>2
      <4> QED BY <2>3, <4>1 DEF Good
    <3> QED BY <3>1, <3>2
  <2>14. ASSUME NEW a \in Precompiles, a \in next.cached
         PROVE  ~next.accounts[a].code
    <3>1. a \in Addr /\ a # from
      BY BoundsOfInputs
    <3>2. CASE a = to
      BY <2>8, <2>9, <2>10, <3>1, <3>2
    <3>3. CASE a # to
      <4>1. next.accounts[a] = s.accounts[a] /\ a \in s.cached
        BY <2>3, <2>8, <2>14, <3>1, <3>3
      <4> QED BY <4>1 DEF Good
    <3> QED BY <3>2, <3>3
  <2>15. Good(balance, held, next)
    BY <2>11, <2>12, <2>13, <2>14 DEF Good
  <2> QED BY <2>15 DEF balance, next
<1> QED BY <1>1, <1>2

\* Making the first of the transfers keeps a state good.
LEMMA TailGood ==
  ASSUME NEW balance \in [Addr -> Nat], NEW held, NEW s \in State,
         Good(balance, held, s), s.transfers # <<>>
  PROVE  LET t == Head(s.transfers)
         IN /\ t.amount <= balance[t.sender]
            /\ Good(Transferred(balance, t), held, [s EXCEPT !.transfers = Tail(@)])
<1> DEFINE ts == s.transfers
           t == Head(ts)
           next == Transferred(balance, t)
           rest == [s EXCEPT !.transfers = Tail(@)]
<1>1. ts \in Seq(Transfer) /\ ts # <<>> /\ t \in Transfer /\ t = ts[1] /\ 1 \in 1..Len(ts)
  BY DEF State
<1>2. rest.transfers = Tail(ts) /\ rest.cached = s.cached /\ rest.accounts = s.accounts
  BY DEF State
<1>3. /\ t.sender \in s.cached /\ t.recipient \in s.cached /\ t.sender # t.recipient
  BY <1>1 DEF Good
<1>4. /\ Payable(next, Tail(ts)) /\ After(next, Tail(ts)) = After(balance, ts)
      /\ t.amount <= balance[t.sender]
  BY <1>1, PayableTail DEF Good
<1>5. \A n \in 1..Len(Tail(ts)) : n + 1 \in 1..Len(ts) /\ Tail(ts)[n] = ts[n + 1]
  BY <1>1
<1> HIDE DEF ts, t, rest
<1>6. ASSUME NEW a \in Addr
      PROVE  BalanceOf(next, rest, a) = BalanceOf(balance, s, a)
  <2>1. CASE a \in s.cached
    BY <1>2, <2>1 DEF BalanceOf
  <2>2. CASE a \notin s.cached
    <3>1. next[a] = balance[a]
      BY <1>1, <1>3, <2>2, TransferredAt
    <3> QED BY <1>2, <2>2, <3>1 DEF BalanceOf
  <2> QED BY <2>1, <2>2
<1> HIDE DEF next
<1>7. \A a \in Addr : After(next, rest.transfers)[a] = BalanceOf(next, rest, a) + held[a]
  BY <1>2, <1>4, <1>6 DEF Good, ts
<1>8. ASSUME NEW n \in 1..Len(rest.transfers)
      PROVE  /\ rest.transfers[n].sender \in rest.cached \ Precompiles
             /\ rest.transfers[n].recipient \in rest.cached \ {rest.transfers[n].sender}
  BY <1>2, <1>5 DEF Good, ts
<1>9. \A a \in Precompiles : a \in rest.cached => ~rest.accounts[a].code
  BY <1>2 DEF Good
<1>10. Good(next, held, rest)
  BY <1>2, <1>4, <1>7, <1>8, <1>9 DEF Good
<1> QED BY <1>4, <1>10 DEF next, rest, t, ts

-----------------------------------------------------------------------------
(***************************************************************************)
(* The invariant.                                                           *)
(***************************************************************************)
\* The states that contexts would restore are states.
LEMMA SnapshotType ==
  ASSUME TypeOK, NEW s \in Snapshots
  PROVE  s \in State
<1>1. CASE s = state
  BY <1>1 DEF TypeOK
<1>2. CASE s \in {frames[i].parent_state : i \in 2..Depth}
  <2>1. PICK i \in 2..Depth : s = frames[i].parent_state
    BY <1>2
  <2>2. frames \in Seq(Frame) /\ Depth \in Nat /\ i \in 1..Depth
    BY DEF TypeOK, Depth
  <2>3. frames[i] \in Frame
    BY <2>2 DEF Depth
  <2> QED BY <2>1, <2>3, TopFields
<1> QED BY <1>1, <1>2 DEF Snapshots

\* What is reserved of each balance.
Held == [a \in Addr |-> Reserved(a)]

GoodNow(s) == Good(chain.balance, Held, s)

\* A context that runs code, or will have some, is no precompile's.
Ordinary(frame) == frame.has_code \/ frame.is_create => frame.address \notin Precompiles

Senders(s) == {s.transfers[n].sender : n \in 1..Len(s.transfers)}

LInv ==
  /\ tx.origin \in Eoa
  /\ NoCode(chain) /\ NoCode(base)
  /\ \A s \in Snapshots : GoodNow(s)
  /\ \A i \in 1..Depth : Ordinary(frames[i])
  /\ phase \in {"accounts", "transfers"} => Senders(state) \subseteq to_commit \cup chain.registered
  /\ phase = "transfers" => to_commit = {}

\* The amounts held are amounts.
LEMMA HeldType ==
  /\ Held \in [Addr -> Nat]
  /\ \A a \in Addr : Held[a] = IF phase = "run" /\ a = tx.origin THEN MaxFee ELSE 0
BY AmountAssumption DEF Held, Reserved

\* Outside of a transaction's execution nothing is held.
LEMMA NothingHeld ==
  ASSUME phase' # "run"
  PROVE  /\ Held' \in [Addr -> Nat]
         /\ \A a \in Addr : Held'[a] = 0
BY DEF Held, Reserved

-----------------------------------------------------------------------------
(***************************************************************************)
(* Steps on the stack of contexts.                                          *)
(***************************************************************************)
\* A step of the execution leads to good states if it restores or makes good ones.
LEMMA RunStepGood ==
  ASSUME TypeOK, LInv, phase = "run", phase' = "run", tx'.origin = tx.origin,
         chain'.balance = chain.balance, NoCode(chain'), NoCode(base'), GoodNow(state'),
         \A i \in 2..Depth' : frames'[i].parent_state \in Snapshots \/ GoodNow(frames'[i].parent_state),
         \A i \in 1..Depth' : Ordinary(frames'[i])
  PROVE  LInv'
<1>1. Held' = Held
  BY DEF Held, Reserved
<1>2. ASSUME NEW s \in Snapshots' PROVE GoodNow(s)'
  <2>1. GoodNow(s)
    BY <1>2 DEF Snapshots, LInv
  <2> QED BY <1>1, <2>1 DEF GoodNow
<1>3. \A s \in Snapshots' : GoodNow(s)'
  BY <1>2
<1> QED BY <1>3 DEF LInv

\* Contexts that differ only in what the invariant does not speak of.
Alike(f, g) ==
  /\ f.address = g.address /\ f.has_code = g.has_code /\ f.is_create = g.is_create
  /\ f.parent_state = g.parent_state

\* So does one that keeps the contexts,
LEMMA KeptGood ==
  ASSUME TypeOK, LInv, phase = "run", phase' = "run", tx'.origin = tx.origin,
         chain'.balance = chain.balance, NoCode(chain'), NoCode(base'), GoodNow(state'),
         Depth' <= Depth, \A i \in 1..Depth' : Alike(frames'[i], frames[i]), Depth' \in Nat
  PROVE  LInv'
<1>1. Depth \in Nat
  BY TopIsFrame
<1>2. ASSUME NEW i \in 2..Depth' PROVE frames'[i].parent_state \in Snapshots
  <2>1. i \in 1..Depth' /\ i \in 2..Depth
    BY <1>1
  <2>2. frames'[i].parent_state = frames[i].parent_state
    BY <2>1 DEF Alike
  <2> QED BY <2>1, <2>2 DEF Snapshots
<1>3. ASSUME NEW i \in 1..Depth' PROVE Ordinary(frames'[i])
  <2>1. i \in 1..Depth
    BY <1>1
  <2> QED BY <2>1 DEF LInv, Ordinary, Alike
<1> QED BY <1>2, <1>3, RunStepGood

\* or replaces the top one by one like it,
LEMMA ReplacedGood ==
  ASSUME TypeOK, LInv, phase = "run", phase' = "run", tx'.origin = tx.origin,
         chain'.balance = chain.balance, NoCode(chain'), NoCode(base'), GoodNow(state'),
         NEW f \in Frame, Alike(f, Top), frames' = [frames EXCEPT ![Depth] = f]
  PROVE  LInv'
<1>1. frames \in Seq(Frame) /\ frames # <<>> /\ Depth \in Nat /\ Depth > 0
  BY TopIsFrame DEF TypeOK
<1>2. /\ Depth' = Depth /\ frames'[Depth] = f
      /\ \A i \in 1..(Depth - 1) : frames'[i] = frames[i]
  BY <1>1, ReplaceTop DEF Depth
<1>3. \A i \in 1..Depth : i \in 1..(Depth - 1) \/ i = Depth
  BY <1>1
<1>4. \A i \in 1..Depth : Alike(frames'[i], frames[i])
  BY <1>2, <1>3 DEF Alike, Top
<1> QED BY <1>1, <1>2, <1>4, KeptGood

\* or opens one.
LEMMA OpenedGood ==
  ASSUME TypeOK, LInv, phase = "run", phase' = "run", tx'.origin = tx.origin,
         chain'.balance = chain.balance, NoCode(chain'), NoCode(base'), GoodNow(state'),
         NEW f \in Frame, Ordinary(f), GoodNow(f.parent_state), frames' = Append(frames, f)
  PROVE  LInv'
<1>1. Depth \in Nat /\ Depth > 0 /\ frames \in Seq(Frame)
  BY TopIsFrame DEF TypeOK
<1>2. /\ Depth' = Depth + 1 /\ frames'[Depth + 1] = f
      /\ \A i \in 1..Depth : frames'[i] = frames[i]
  BY <1>1, PushFrame DEF Depth
<1>3. \A i \in 1..Depth' : i \in 1..Depth \/ i = Depth + 1
  BY <1>1, <1>2
<1>4. ASSUME NEW i \in 2..Depth'
      PROVE  frames'[i].parent_state \in Snapshots \/ GoodNow(frames'[i].parent_state)
  <2>1. CASE i = Depth + 1
    BY <1>2, <2>1
  <2>2. CASE i # Depth + 1
    <3>1. i \in 2..Depth /\ i \in 1..Depth
      BY <1>1, <1>2, <2>2
    <3> QED BY <1>2, <3>1 DEF Snapshots
  <2> QED BY <2>1, <2>2
<1>5. \A i \in 1..Depth' : Ordinary(frames'[i])
  BY <1>2, <1>3 DEF LInv
<1> QED BY <1>4, <1>5, RunStepGood

-----------------------------------------------------------------------------
(***************************************************************************)
(* Opcodes.                                                                *)
(***************************************************************************)
\* An opcode leads to a good state, and what it opens is good.
LeadsToGood ==
  /\ GoodNow(state')
  /\ \/ frames' = frames
     \/ StopsTop
     \/ \E f \in Frame : Ordinary(f) /\ GoodNow(f.parent_state) /\ frames' = Append(frames, f)

\* The facts about Starknet's storage that the operations need, and the top context's.
LEMMA RunFacts ==
  ASSUME TypeOK, LInv, phase = "run"
  PROVE  /\ chain \in Chain /\ chain.balance \in [Addr -> Nat] /\ NoCode(chain)
         /\ state \in State /\ GoodNow(state)
         /\ Held \in [Addr -> Nat]
         /\ Top.address \in Addr /\ Top.caller \in Addr
         /\ Top.has_code \/ Top.is_create => Top.address \notin Precompiles
<1>1. Depth \in 1..Depth /\ Top = frames[Depth]
  BY TopIsFrame DEF Top
<1> QED BY <1>1, TypesOfVariables, TopIsFrame, TopFields, HeldType
        DEF LInv, Ordinary, Snapshots, Chain

\* What a good state shows of an account.
LEMMA ShownAccount ==
  ASSUME TypeOK, LInv, NEW s \in State, NEW a \in Addr
  PROVE  /\ AccountOf(chain, s, a) \in Account
         /\ AccountOf(chain, s, a).balance = BalanceOf(chain.balance, s, a)
BY TypesOfVariables, AccountOfBalance

\* Writing an account that no precompile has, with its balance, keeps a state good.
LEMMA WriteGoodNow ==
  ASSUME TypeOK, LInv, NEW s \in State, GoodNow(s), NEW a \in Addr \ Precompiles,
         NEW account \in Account, account.balance = AccountOf(chain, s, a).balance
  PROVE  GoodNow(UpdateAccount(s, a, account))
<1>1. chain.balance \in [Addr -> Nat] /\ Held \in [Addr -> Nat]
  BY TypesOfVariables, HeldType DEF Chain
<1> QED BY <1>1, ShownAccount, WriteGood DEF GoodNow

\* So does reading one.
LEMMA CacheGoodNow ==
  ASSUME TypeOK, LInv, NEW s \in State, GoodNow(s), NEW a \in Addr
  PROVE  CacheAccount(chain, s, a) \in State /\ GoodNow(CacheAccount(chain, s, a))
BY TypesOfVariables, HeldType, CacheAccountType, CacheGood DEF GoodNow, LInv

\* So does a transfer.
LEMMA TransferGoodNow ==
  ASSUME TypeOK, LInv, NEW s \in State, GoodNow(s), NEW from \in Addr \ Precompiles,
         NEW to \in Addr, NEW amount \in Nat
  PROVE  /\ AddTransfer(chain, s, from, to, amount) \in State
         /\ GoodNow(AddTransfer(chain, s, from, to, amount))
BY TypesOfVariables, HeldType, AddTransferType, TransferGood DEF GoodNow, LInv

\* Stopping the top context is good.
LEMMA StopsGood ==
  ASSUME TypeOK, LInv, phase = "run", StopsTop, GoodNow(state')
  PROVE  LeadsToGood
BY DEF LeadsToGood

\* So is a write that a static context attempts.
LEMMA StateModificationErrorGood ==
  ASSUME TypeOK, LInv, phase = "run", StateModificationError
  PROVE  LeadsToGood
BY StateModificationErrorStops, RunFacts, StopsGood

\* So is the context of a call: what it runs is no precompile's code.
LEMMA ChildGood ==
  ASSUME TypeOK, LInv, phase = "run", NEW s \in State, GoodNow(s), NEW caller \in Addr,
         NEW to \in Addr, NEW code_address \in Addr, NEW is_staticcall \in BOOLEAN,
         to = code_address \/ to \notin Precompiles
  PROVE  LET child == ChildFrame(s, caller, to, code_address, is_staticcall)
         IN child \in Frame /\ child.parent_state = s /\ Ordinary(child)
<1> DEFINE child == ChildFrame(s, caller, to, code_address, is_staticcall)
<1>1. child \in Frame
  BY ChildFrameType
<1>2. /\ child.parent_state = s /\ child.is_create = FALSE /\ child.address = to
      /\ child.has_code = AccountOf(chain, s, code_address).code
  BY DEF ChildFrame
<1>3. code_address \in Precompiles => ~AccountOf(chain, s, code_address).code
  BY TypesOfVariables, PrecompilesWithoutCode DEF LInv, GoodNow
<1> HIDE DEF child
<1>4. Ordinary(child)
  BY <1>2, <1>3 DEF Ordinary
<1> QED BY <1>1, <1>2, <1>4 DEF child

\* A call without a transfer.
LEMMA EnterCallGood ==
  ASSUME TypeOK, LInv, phase = "run", NEW s \in State, GoodNow(s), NEW caller \in Addr,
         NEW to \in Addr, NEW code_address \in Addr, NEW is_staticcall \in BOOLEAN,
         to = code_address \/ to \notin Precompiles,
         EnterCall(s, caller, to, code_address, is_staticcall)
  PROVE  LeadsToGood
BY ChildGood DEF EnterCall, LeadsToGood

\* A call with one.
LEMMA EnterCallWithTransferGood ==
  ASSUME TypeOK, LInv, phase = "run", Top.has_code, NEW s \in State, GoodNow(s),
         NEW to \in Addr, NEW value \in Nat, EnterCallWithTransfer(s, to, value)
  PROVE  LeadsToGood
<1> DEFINE child == ChildFrame(s, Top.address, to, to, FALSE)
           halted == Stopped(child, "EXCEPTIONAL_HALT", "none")
<1>1. Top.address \in Addr \ Precompiles
  BY RunFacts
<1>2. child \in Frame /\ child.parent_state = s /\ Ordinary(child)
  BY <1>1, ChildGood
<1>3. /\ frames' = Append(frames, child) \/ frames' = Append(frames, halted)
      /\ state' = AddTransfer(chain, s, Top.address, to, value)
  BY DEF EnterCallWithTransfer
<1> HIDE DEF child
<1>4. halted \in Frame /\ halted.parent_state = s /\ Ordinary(halted)
  BY <1>2, StatusErrors, StoppedType DEF Stopped, Frame, Ordinary
<1> HIDE DEF halted
<1>5. GoodNow(state')
  BY <1>1, <1>3, TransferGoodNow
<1> QED BY <1>2, <1>3, <1>4, <1>5 DEF LeadsToGood

\* CALL, STATICCALL, CALLCODE and DELEGATECALL.
LEMMA CallsGood ==
  ASSUME TypeOK, LInv, NEW to \in Addr, NEW value \in Nat,
         \/ ExecCall(to, value)
         \/ ExecStaticcall(to)
         \/ ExecCallcode(to, value)
         \/ ExecDelegatecall(to)
  PROVE  LeadsToGood
<1> DEFINE s == CacheAccount(chain, state, to)
<1>1. phase = "run" /\ Top.has_code
  BY ExecutesFacts DEF ExecCall, ExecStaticcall, ExecCallcode, ExecDelegatecall
<1>2. s \in State /\ GoodNow(s)
  BY <1>1, RunFacts, CacheGoodNow
<1>3. Top.address \in Addr \ Precompiles /\ Top.caller \in Addr
  BY <1>1, RunFacts
<1>4. \/ StateModificationError
      \/ Continue(s)
      \/ EnterCallWithTransfer(s, to, value)
      \/ EnterCall(s, Top.address, to, to, TRUE)
      \/ EnterCall(s, Top.address, Top.address, to, FALSE)
      \/ EnterCall(s, Top.caller, Top.address, to, FALSE)
  BY DEF ExecCall, ExecStaticcall, ExecCallcode, ExecDelegatecall
<1> HIDE DEF s
<1>5. CASE Continue(s)
  BY <1>2, <1>5 DEF Continue, LeadsToGood
<1> QED BY <1>1, <1>2, <1>3, <1>4, <1>5, StateModificationErrorGood, EnterCallGood,
           EnterCallWithTransferGood

\* CREATE.
LEMMA CreateGood ==
  ASSUME TypeOK, LInv, NEW target \in CreateTargets, NEW value \in Nat, ExecCreate(target, value)
  PROVE  LeadsToGood
<1> DEFINE s == CacheAccount(chain, state, target)
           counted == WithNonceIncremented(s)
           created == CreatedAccount(counted, target)
           frame == CreateFrame(counted, target)
           paid == AddTransfer(chain, created, Top.address, target, value)
<1>1. Executes("CREATE") /\ phase = "run" /\ Top.has_code
  BY ExecutesFacts DEF ExecCreate
<1>2. target \in Addr \ Precompiles /\ Top.address \in Addr \ Precompiles
  BY <1>1, RunFacts, AddressAssumption
<1>3. s \in State /\ GoodNow(s)
  BY <1>1, <1>2, RunFacts, CacheGoodNow
<1>4. \/ StateModificationError
      \/ Continue(s)
      \/ Continue(counted)
      \/ frames' = Append(frames, frame) /\ state' = paid
  BY DEF ExecCreate, s, counted
<1> HIDE DEF s
<1>5. counted \in State /\ GoodNow(counted)
  <2>1. Self(s) \in Account
    BY <1>2, <1>3, ShownAccount DEF Self
  <2>2. /\ [Self(s) EXCEPT !.nonce = @ + 1] \in Account
        /\ [Self(s) EXCEPT !.nonce = @ + 1].balance = AccountOf(chain, s, Top.address).balance
    BY <2>1 DEF Account, Self
  <2> QED BY <1>1, <1>2, <1>3, <2>2, WithNonceIncrementedType, WriteGoodNow
          DEF WithNonceIncremented
<1> HIDE DEF counted
<1>6. created \in State /\ GoodNow(created)
  <2>1. AccountOf(chain, counted, target) \in Account
    BY <1>2, <1>5, ShownAccount
  <2> DEFINE account == [AccountOf(chain, counted, target) EXCEPT !.nonce = 1, !.created = TRUE]
  <2>2. account \in Account /\ account.balance = AccountOf(chain, counted, target).balance
    BY <2>1 DEF Account
  <2>3. created = UpdateAccount(counted, target, account)
    BY DEF CreatedAccount
  <2> HIDE DEF account
  <2> QED BY <1>2, <1>5, <2>2, <2>3, CreatedAccountType, WriteGoodNow
<1> HIDE DEF created
<1>7. GoodNow(paid)
  BY <1>2, <1>6, TransferGoodNow
<1>8. frame \in Frame /\ frame.parent_state = counted /\ Ordinary(frame)
  BY <1>1, <1>2, <1>5, ExecutesFacts, TopIsFrame, TopFields, TypesOfVariables
     DEF CreateFrame, Frame, Status, Output, Ordinary
<1> HIDE DEF frame, paid
<1>9. CASE StateModificationError
  BY <1>1, <1>9, StateModificationErrorGood
<1>10. CASE Continue(s) \/ Continue(counted)
  BY <1>3, <1>5, <1>10 DEF Continue, LeadsToGood
<1>11. CASE frames' = Append(frames, frame) /\ state' = paid
  BY <1>5, <1>7, <1>8, <1>11 DEF LeadsToGood
<1> QED BY <1>4, <1>9, <1>10, <1>11

\* SSTORE and LOG.
LEMMA StoresGood ==
  ASSUME TypeOK, LInv, NEW value \in Word, ExecSstore(value) \/ ExecLog
  PROVE  LeadsToGood
<1> DEFINE written == UpdateAccount(state, Top.address, [Self(state) EXCEPT !.slot = value])
           logged == [state EXCEPT !.events = @ + 1]
<1>1. phase = "run" /\ Top.has_code
  BY ExecutesFacts DEF ExecSstore, ExecLog
<1>2. Top.address \in Addr \ Precompiles /\ state \in State /\ GoodNow(state)
  BY <1>1, RunFacts
<1>3. GoodNow(written)
  <2>1. Self(state) \in Account
    BY <1>2, ShownAccount DEF Self
  <2>2. /\ [Self(state) EXCEPT !.slot = value] \in Account
        /\ [Self(state) EXCEPT !.slot = value].balance =
             AccountOf(chain, state, Top.address).balance
    BY <2>1 DEF Account, Self
  <2> QED BY <1>2, <2>2, WriteGoodNow
<1>4. GoodNow(logged)
  <2>1. /\ logged.transfers = state.transfers /\ logged.cached = state.cached
        /\ logged.accounts = state.accounts
    BY <1>2 DEF State
  <2> HIDE DEF logged
  <2> QED BY <1>2, <2>1, SameGood DEF GoodNow
<1>5. StateModificationError \/ Continue(written) \/ Continue(logged)
  BY DEF ExecSstore, ExecLog
<1> HIDE DEF written, logged
<1>6. CASE Continue(written) \/ Continue(logged)
  BY <1>3, <1>4, <1>6 DEF Continue, LeadsToGood
<1> QED BY <1>1, <1>5, <1>6, StateModificationErrorGood

\* SELFDESTRUCT.
LEMMA SelfdestructGood ==
  ASSUME TypeOK, LInv, NEW named \in Addr, ExecSelfdestruct(named)
  PROVE  LeadsToGood
<1> DEFINE s == CacheAccount(chain, state, named)
           recipient == IF Self(s).created /\ named = Top.address THEN BurnAddress ELSE named
           warm == CacheAccount(chain, s, recipient)
           swept == AddTransfer(chain, warm, Top.address, recipient, Self(s).balance)
           marked == UpdateAccount(swept, Top.address,
                                   [Self(swept) EXCEPT !.selfdestruct = TRUE])
<1>1. phase = "run" /\ Top.has_code
  BY ExecutesFacts DEF ExecSelfdestruct
<1>2. /\ Top.address \in Addr \ Precompiles /\ state \in State /\ GoodNow(state)
      /\ recipient \in Addr
  BY <1>1, RunFacts, BoundsOfInputs
<1>3. \/ StateModificationError
      \/ state' = marked /\ StopTop("success", "none")
  BY DEF ExecSelfdestruct
<1>4. s \in State /\ GoodNow(s)
  BY <1>2, CacheGoodNow
<1> HIDE DEF s, recipient
<1>5. warm \in State /\ GoodNow(warm)
  BY <1>2, <1>4, CacheGoodNow
<1>6. Self(s).balance \in Nat
  BY <1>2, <1>4, ShownAccount DEF Self, Account
<1> HIDE DEF warm
<1>7. swept \in State /\ GoodNow(swept)
  BY <1>2, <1>5, <1>6, TransferGoodNow
<1> HIDE DEF swept
<1>8. GoodNow(marked)
  <2>1. Self(swept) \in Account
    BY <1>2, <1>7, ShownAccount DEF Self
  <2>2. /\ [Self(swept) EXCEPT !.selfdestruct = TRUE] \in Account
        /\ [Self(swept) EXCEPT !.selfdestruct = TRUE].balance =
             AccountOf(chain, swept, Top.address).balance
    BY <2>1 DEF Account, Self
  <2> QED BY <1>2, <1>7, <2>2, WriteGoodNow
<1> HIDE DEF marked
<1>9. CASE state' = marked /\ StopTop("success", "none")
  BY <1>1, <1>8, <1>9, StatusErrors, StopTopStops, StopsGood
<1> QED BY <1>1, <1>3, <1>9, StateModificationErrorGood

\* Every opcode.
LEMMA OpcodeGood ==
  ASSUME TypeOK, LInv, Opcode
  PROVE  LeadsToGood
<1>1. CASE \E to \in Callees, value \in Values : ExecCall(to, value) \/ ExecCallcode(to, value)
  BY <1>1, BoundsOfInputs, CallsGood
<1>2. CASE \E to \in Callees : ExecStaticcall(to) \/ ExecDelegatecall(to)
  <2>1. 0 \in Nat
    OBVIOUS
  <2> QED BY <1>2, <2>1, BoundsOfInputs, CallsGood
<1>3. CASE \E target \in CreateTargets, value \in Values : ExecCreate(target, value)
  BY <1>3, BoundsOfInputs, CreateGood
<1>4. CASE \E to \in Callees : ExecSelfdestruct(to)
  BY <1>4, BoundsOfInputs, SelfdestructGood
<1>5. CASE (\E value \in Word : ExecSstore(value)) \/ ExecLog
  BY <1>5, WordAssumption, StoresGood
<1> QED BY <1>1, <1>2, <1>3, <1>4, <1>5 DEF Opcode

\* A context that is stopped is like itself.
LEMMA StoppedAlike ==
  ASSUME NEW frame \in Frame, NEW status \in Status, NEW output \in Output
  PROVE  Alike(Stopped(frame, status, output), frame)
BY DEF Alike, Stopped, Frame

\* Stopping the top context preserves the invariant.
LEMMA StopsTopGood ==
  ASSUME TypeOK, LInv, phase = "run", phase' = "run", tx'.origin = tx.origin,
         chain'.balance = chain.balance, NoCode(chain'), NoCode(base'), GoodNow(state'),
         StopsTop
  PROVE  LInv'
<1>1. PICK status \in Status \ {"running"}, output \in Output :
        frames' = [frames EXCEPT ![Depth] = Stopped(Top, status, output)]
  BY DEF StopsTop
<1>2. /\ Stopped(Top, status, output) \in Frame
      /\ Alike(Stopped(Top, status, output), Top)
  BY TopIsFrame, StoppedType, StoppedAlike
<1> QED BY <1>1, <1>2, ReplacedGood

\* Opcodes preserve the invariant.
LEMMA OpcodeKeepsLedger ==
  ASSUME TypeOK, LInv, Opcode
  PROVE  LInv'
<1>1. /\ phase = "run" /\ phase' = "run" /\ tx' = tx /\ chain' = chain /\ base' = base
  BY OpcodeShape DEF ContextStep, Running
<1>2. LeadsToGood
  BY OpcodeGood
<1>3. NoCode(chain') /\ NoCode(base') /\ GoodNow(state')
  BY <1>1, <1>2 DEF LInv, LeadsToGood
<1>4. CASE frames' = frames
  <2>1. Depth' = Depth /\ Depth \in Nat
    BY <1>1, <1>4, TopIsFrame DEF Depth
  <2> QED BY <1>1, <1>3, <1>4, <2>1, KeptGood DEF Alike
<1>5. CASE StopsTop
  BY <1>1, <1>3, <1>5, StopsTopGood
<1>6. CASE \E f \in Frame : Ordinary(f) /\ GoodNow(f.parent_state) /\ frames' = Append(frames, f)
  BY <1>1, <1>3, <1>6, OpenedGood
<1> QED BY <1>2, <1>4, <1>5, <1>6 DEF LeadsToGood

-----------------------------------------------------------------------------
(***************************************************************************)
(* The end of a context.                                                   *)
(***************************************************************************)
\* A transaction that Starknet reverts leaves a good state.
LEMMA AbortKeepsLedger ==
  ASSUME TypeOK, LInv, Abort
  PROVE  LInv'
<1>1. /\ chain' = base /\ base' = base /\ phase' = "idle" /\ frames' = <<>>
      /\ state' = InitState /\ tx'.origin = tx.origin
  BY TypesOfVariables DEF Abort, Transaction
<1>2. Snapshots' = {InitState} /\ Depth' = 0
  BY <1>1 DEF Snapshots, Depth
<1>3. base.balance \in [Addr -> Nat]
  BY TypesOfVariables DEF Chain
<1>4. GoodNow(InitState)'
  BY <1>1, <1>3, NothingHeld, InitGood DEF GoodNow
<1> QED BY <1>1, <1>2, <1>4 DEF LInv

\* Returning, reverting and halting preserve the invariant.
LEMMA PlainEndKeepsLedger ==
  ASSUME TypeOK, LInv, ExecReturn \/ ExecRevert \/ ExceptionalHalt
  PROVE  LInv'
<1>1. /\ phase = "run" /\ phase' = "run" /\ tx' = tx /\ chain' = chain /\ base' = base
      /\ state' = state
  BY DEF ExecReturn, ExecRevert, ExceptionalHalt, Ends, Running
<1>2. StopsTop
  BY StatusErrors, StopTopStops DEF ExecReturn, ExecRevert, ExceptionalHalt, Output
<1>3. GoodNow(state') /\ NoCode(chain') /\ NoCode(base')
  BY <1>1, RunFacts DEF LInv
<1> QED BY <1>1, <1>2, <1>3, StopsTopGood

\* So does stopping a precompile that leaves the native token alone.
LEMMA StopPrecompileKeepsLedger ==
  ASSUME TypeOK, LInv, phase = "run", phase' = "run", tx'.origin = tx.origin,
         chain'.balance = chain.balance, chain'.code = chain.code, base' = base, state' = state,
         NEW status \in Status \ {"running"}, NEW called \in Felt, StopPrecompile(status, called)
  PROVE  LInv'
<1> DEFINE f == [Stopped(Top, status, "none") EXCEPT !.cairo_precompile_called = called]
<1>1. Stopped(Top, status, "none") \in Frame /\ Alike(Stopped(Top, status, "none"), Top)
  BY TopIsFrame, StatusErrors, StoppedType, StoppedAlike
<1>2. f \in Frame /\ Alike(f, Top)
  BY <1>1 DEF Frame, Alike
<1>3. frames' = [frames EXCEPT ![Depth] = f]
  BY TopIsFrame DEF StopPrecompile, Top
<1> HIDE DEF f
<1>4. NoCode(chain') /\ NoCode(base') /\ GoodNow(state')
  BY RunFacts DEF LInv, NoCode
<1> QED BY <1>2, <1>3, <1>4, ReplacedGood

\* Cairo calls that may not move the native token leave it and the code alone.
LEMMA CairoCallsLeaveBalances ==
  ASSUME TypeOK, ~CairoMovesNative, NEW n, NEW balance \in BalancesAfterCairoCalls
  PROVE  /\ AfterCairoCalls(n, balance).balance = chain.balance
         /\ AfterCairoCalls(n, balance).code = chain.code
<1>1. balance = chain.balance
  BY DEF BalancesAfterCairoCalls
<1> QED BY <1>1, TypesOfVariables DEF AfterCairoCalls, Chain

\* The end of any context, with such Cairo calls, preserves the invariant.
LEMMA EndKeepsLedger ==
  ASSUME TypeOK, LInv, ~CairoMovesNative, End
  PROVE  LInv'
<1>1. CASE ExecReturn \/ ExecRevert \/ ExceptionalHalt
  BY <1>1, PlainEndKeepsLedger
<1>2. CASE CairoCallPanics
  BY <1>2, AbortKeepsLedger DEF CairoCallPanics
<1>3. CASE EthPrecompile \/ CairoPrecompileRefuses
  <2>1. PICK status \in Status \ {"running"} : StopPrecompile(status, 0)
    BY <1>3, StatusErrors DEF EthPrecompile, CairoPrecompileRefuses
  <2>2. /\ phase = "run" /\ 0 \in Felt
        /\ chain' = chain /\ base' = base /\ phase' = phase /\ tx' = tx /\ state' = state
    BY <1>3, InPrecompileFacts DEF EthPrecompile, CairoPrecompileRefuses
  <2> QED BY <2>1, <2>2, StopPrecompileKeepsLedger
<1>4. CASE CairoPrecompileExecutes
  <2>1. PICK n \in IF Top.code_address = CairoMulticall THEN 0..MaxBatch ELSE {1},
             balance \in BalancesAfterCairoCalls, status \in {"success", "EXCEPTIONAL_HALT"} :
          /\ chain' = IF n = 0 THEN chain ELSE AfterCairoCalls(n, balance)
          /\ StopPrecompile(status, 1)
    BY <1>4 DEF CairoPrecompileExecutes
  <2>2. /\ phase = "run" /\ 1 \in Felt /\ status \in Status \ {"running"}
        /\ base' = base /\ phase' = phase /\ tx' = tx /\ state' = state
    BY <1>4, InPrecompileFacts, StatusErrors DEF CairoPrecompileExecutes
  <2>3. chain'.balance = chain.balance /\ chain'.code = chain.code
    BY <2>1, CairoCallsLeaveBalances
  <2> QED BY <2>1, <2>2, <2>3, StopPrecompileKeepsLedger
<1>5. CASE CairoBatchFails
  <2>1. PICK n \in 1..(MaxBatch - 1), balance \in BalancesAfterCairoCalls :
          /\ chain' = AfterCairoCalls(n, balance)
          /\ tx' = [tx EXCEPT !.leaked = @ + n]
    BY <1>5 DEF CairoBatchFails
  <2>2. /\ phase = "run" /\ 0 \in Felt /\ StopPrecompile("EXCEPTIONAL_HALT", 0)
        /\ base' = base /\ phase' = phase /\ state' = state
    BY <1>5, InPrecompileFacts DEF CairoBatchFails
  <2>3. chain'.balance = chain.balance /\ chain'.code = chain.code
    BY <2>1, CairoCallsLeaveBalances
  <2>4. tx'.origin = tx.origin
    BY <2>1, TypesOfVariables DEF Transaction
  <2> QED BY <2>2, <2>3, <2>4, StatusErrors, StopPrecompileKeepsLedger
<1> QED BY <1>1, <1>2, <1>3, <1>4, <1>5 DEF End

\* A context that ends lets its caller go on with a good state.
LEMMA ResumeKeepsLedger ==
  ASSUME TypeOK, LInv, phase = "run", Depth > 1, NEW s, GoodNow(s), Resume(s)
  PROVE  LInv'
<1>1. /\ frames' \in Seq(Frame) /\ Depth' = Depth - 1 /\ Depth \in Nat
      /\ \A i \in 1..(Depth - 2) : frames'[i] = frames[i]
      /\ frames'[Depth - 1] = [Parent EXCEPT !.cairo_precompile_called = CairoCalled]
  BY ResumedFrames, TopIsFrame
<1>2. Parent \in Frame
  BY TopIsFrame DEF Parent
<1>3. Alike([Parent EXCEPT !.cairo_precompile_called = CairoCalled], Parent)
  BY <1>2 DEF Frame, Alike
<1>4. \A i \in 1..Depth' : i \in 1..(Depth - 2) \/ i = Depth - 1
  BY <1>1
<1>5. \A i \in 1..Depth' : Alike(frames'[i], frames[i])
  BY <1>1, <1>3, <1>4 DEF Parent, Alike
<1>6. /\ phase' = "run" /\ chain' = chain /\ base' = base /\ state' = s
      /\ tx'.origin = tx.origin
  BY TypesOfVariables DEF Resume, Transaction
<1>7. NoCode(chain') /\ NoCode(base') /\ GoodNow(state')
  BY <1>6 DEF LInv
<1>8. Depth' <= Depth /\ Depth' \in Nat
  BY <1>1
<1> QED BY <1>5, <1>6, <1>7, <1>8, KeptGood

\* The state that a context restores is good.
LEMMA ParentStateGood ==
  ASSUME TypeOK, LInv, phase = "run", Depth > 1
  PROVE  Top.parent_state \in State /\ GoodNow(Top.parent_state)
<1>1. Depth \in 2..Depth
  BY TopIsFrame
<1> QED BY <1>1, TopIsFrame, TopFields DEF LInv, Snapshots, Top

\* The code that a creation returns goes to no precompile.
LEMMA WithCodeGood ==
  ASSUME TypeOK, LInv, phase = "run", Top.is_create
  PROVE  WithCode(state, Top) \in State /\ GoodNow(WithCode(state, Top))
<1> DEFINE old == AccountOf(chain, state, Top.address)
           new == [old EXCEPT !.code = Top.output = "code", !.created = TRUE]
<1>1. state \in State /\ GoodNow(state) /\ Top.address \in Addr \ Precompiles
  BY RunFacts
<1>2. old \in Account
  BY <1>1, ShownAccount
<1>3. new \in Account /\ new.balance = old.balance
  BY <1>2 DEF Account
<1>4. WithCode(state, Top) = UpdateAccount(state, Top.address, new)
  BY DEF WithCode
<1> HIDE DEF new
<1> QED BY <1>1, <1>3, <1>4, WriteGoodNow, UpdateAccountType

\* The end of a call, and of a creation, preserve the invariant.
LEMMA FinalizeCallKeepsLedger ==
  ASSUME TypeOK, LInv, FinalizeCall
  PROVE  LInv'
<1>1. phase = "run" /\ Depth > 1
  BY DEF FinalizeCall, TopStopped
<1>2. /\ state \in State /\ GoodNow(state) /\ Top.code_address \in Addr
      /\ Top.parent_state \in State /\ GoodNow(Top.parent_state)
  BY <1>1, RunFacts, TopIsFrame, TopFields, ParentStateGood
<1>3. \/ Abort
      \/ Resume(CacheAccount(chain, Top.parent_state, Top.code_address))
      \/ Resume(CacheAccount(chain, state, Top.code_address))
  BY DEF FinalizeCall
<1> QED BY <1>1, <1>2, <1>3, AbortKeepsLedger, CacheGoodNow, ResumeKeepsLedger

LEMMA FinalizeCreateKeepsLedger ==
  ASSUME TypeOK, LInv, FinalizeCreate
  PROVE  LInv'
<1>1. phase = "run" /\ Depth > 1 /\ Top.is_create
  BY DEF FinalizeCreate, TopStopped
<1>2. Abort \/ Resume(Top.parent_state) \/ Resume(WithCode(state, Top))
  BY DEF FinalizeCreate
<1> QED BY <1>1, <1>2, AbortKeepsLedger, ParentStateGood, WithCodeGood, ResumeKeepsLedger

-----------------------------------------------------------------------------
(***************************************************************************)
(* The fee.                                                                 *)
(***************************************************************************)
\* When the fee is paid, what was held of the sender's balance is given back.
LEMMA PayFeeGood ==
  ASSUME TypeOK, LInv, phase = "run", NEW s \in State, GoodNow(s), NEW fee \in Nat
  PROVE  Good(chain.balance, [a \in Addr |-> 0], PayFee(s, fee))
<1> DEFINE old == AccountOf(chain, s, tx.origin)
           new == [old EXCEPT !.balance = @ + MaxFee]
           freed == UpdateAccount(s, tx.origin, new)
           none == [a \in Addr |-> 0]
<1>1. /\ chain \in Chain /\ chain.balance \in [Addr -> Nat] /\ NoCode(chain)
      /\ Held \in [Addr -> Nat] /\ MaxFee \in Nat /\ none \in [Addr -> Nat]
      /\ tx.origin \in Addr \ Precompiles /\ Coinbase \in Addr
  BY RunFacts, BoundsOfInputs, AmountAssumption, AddressAssumption DEF LInv
<1>2. old \in Account /\ old.balance = BalanceOf(chain.balance, s, tx.origin)
  BY <1>1, ShownAccount
<1>3. new \in Account /\ new.balance = old.balance + MaxFee
  BY <1>1, <1>2 DEF Account
<1>4. /\ Held[tx.origin] = MaxFee /\ none[tx.origin] = 0
      /\ \A a \in Addr \ {tx.origin} : none[a] = Held[a]
  BY <1>1, HeldType
<1>5. old.balance \in Nat /\ new.balance \in Nat
  BY <1>2, <1>3 DEF Account
<1>6. PayFee(s, fee) = AddTransfer(chain, freed, tx.origin, Coinbase, fee)
  BY DEF PayFee
<1> HIDE DEF old, new, none
<1>7. new.balance + none[tx.origin] = BalanceOf(chain.balance, s, tx.origin) + Held[tx.origin]
  BY <1>1, <1>2, <1>3, <1>4, <1>5
<1>8. freed \in State /\ Good(chain.balance, none, freed)
  BY <1>1, <1>3, <1>4, <1>7, UpdateGood, UpdateAccountType DEF GoodNow
<1> HIDE DEF freed
<1>9. Good(chain.balance, none, AddTransfer(chain, freed, tx.origin, Coinbase, fee))
  BY <1>1, <1>8, TransferGood
<1> QED BY <1>6, <1>9 DEF none

\* After a revert the sender pays from its balance before the transaction.
LEMMA PayFeeAfterRevertGood ==
  ASSUME TypeOK, LInv, phase = "run", NEW fee \in Nat
  PROVE  Good(chain.balance, [a \in Addr |-> 0], PayFeeAfterRevert(fee))
<1> DEFINE old == AccountOf(chain, InitState, tx.origin)
           new == [old EXCEPT !.nonce = @ + 1]
           counted == UpdateAccount(InitState, tx.origin, new)
           none == [a \in Addr |-> 0]
<1>1. /\ chain \in Chain /\ chain.balance \in [Addr -> Nat] /\ NoCode(chain)
      /\ none \in [Addr -> Nat] /\ InitState \in State
      /\ tx.origin \in Addr \ Precompiles /\ Coinbase \in Addr
  BY RunFacts, BoundsOfInputs, InitStateType, AddressAssumption DEF LInv
<1>2. old \in Account /\ old.balance = BalanceOf(chain.balance, InitState, tx.origin)
  BY <1>1, ShownAccount
<1>3. new \in Account /\ new.balance = old.balance
  BY <1>2 DEF Account
<1>4. PayFeeAfterRevert(fee) = AddTransfer(chain, counted, tx.origin, Coinbase, fee)
  BY DEF PayFeeAfterRevert
<1>5. \A a \in Addr : none[a] = 0
  OBVIOUS
<1> HIDE DEF old, new, none
<1>6. Good(chain.balance, none, InitState)
  BY <1>1, <1>5, InitGood
<1>7. counted \in State /\ Good(chain.balance, none, counted)
  BY <1>1, <1>2, <1>3, <1>6, WriteGood, UpdateAccountType
<1> HIDE DEF counted
<1>8. Good(chain.balance, none, AddTransfer(chain, counted, tx.origin, Coinbase, fee))
  BY <1>1, <1>7, TransferGood
<1> QED BY <1>4, <1>8 DEF none

\* What is good of a state when nothing is held.
LEMMA GoodUnheld ==
  ASSUME NEW balance, NEW held, NEW now, NEW s, \A a \in Addr : held[a] = now[a],
         Good(balance, held, s)
  PROVE  Good(balance, now, s)
BY DEF Good

\* Every sender of a good state is cached.
LEMMA SendersCached ==
  ASSUME NEW balance, NEW held, NEW s, Good(balance, held, s)
  PROVE  Senders(s) \subseteq s.cached \ Precompiles
BY DEF Good, Senders

\* The commit begins with a good state and all of its accounts.
LEMMA SettleKeepsLedger ==
  ASSUME TypeOK, LInv, phase = "run", NEW status, NEW fee, NEW s,
         Good(chain.balance, [a \in Addr |-> 0], s), Settle(status, fee, s)
  PROVE  LInv'
<1>1. /\ chain' = chain /\ base' = base /\ phase' = "accounts" /\ frames' = <<>>
      /\ state' = s /\ tx'.origin = tx.origin /\ to_commit' = s.cached
  BY TypesOfVariables DEF Settle, Transaction
<1>2. Snapshots' = {s} /\ Depth' = 0
  BY <1>1 DEF Snapshots, Depth
<1>3. \A a \in Addr : [b \in Addr |-> 0][a] = Held'[a]
  BY <1>1, NothingHeld
<1>4. Good(chain.balance, Held', s)
  BY <1>3, GoodUnheld
<1>5. GoodNow(s)'
  BY <1>1, <1>4 DEF GoodNow
<1>6. Senders(s) \subseteq s.cached
  BY SendersCached
<1> QED BY <1>1, <1>2, <1>5, <1>6 DEF LInv

\* The end of the root context preserves the invariant.
LEMMA FinalizeRootKeepsLedger ==
  ASSUME TypeOK, LInv, FinalizeRoot
  PROVE  LInv'
<1>1. phase = "run" /\ \A fee \in 1..MaxFee : fee \in Nat
  BY AmountAssumption DEF FinalizeRoot, TopStopped
<1>2. RootState \in State /\ GoodNow(RootState)
  BY <1>1, RunFacts, WithCodeGood DEF RootState
<1>3. \/ Abort
      \/ \E fee \in 1..MaxFee : Settle("reverted", fee, PayFeeAfterRevert(fee))
      \/ \E fee \in 1..MaxFee : Settle("success", fee, PayFee(RootState, fee))
  BY DEF FinalizeRoot
<1>4. CASE \E fee \in 1..MaxFee : Settle("reverted", fee, PayFeeAfterRevert(fee))
  BY <1>1, <1>4, PayFeeAfterRevertGood, SettleKeepsLedger
<1>5. CASE \E fee \in 1..MaxFee : Settle("success", fee, PayFee(RootState, fee))
  BY <1>1, <1>2, <1>5, PayFeeGood, SettleKeepsLedger
<1> QED BY <1>3, <1>4, <1>5, AbortKeepsLedger

-----------------------------------------------------------------------------
(***************************************************************************)
(* The next transaction.                                                    *)
(***************************************************************************)
\* The accounts that are warm at the start show what Starknet stores.
LEMMA WarmGood ==
  ASSUME NEW c \in Chain, NoCode(c), NEW held, \A a \in Addr : held[a] = 0,
         NEW as \in SUBSET Addr
  PROVE  LET s == CacheAll(c, InitState, as)
         IN s \in State /\ Good(c.balance, held, s)
<1> DEFINE s == CacheAll(c, InitState, as)
<1>1. c.balance \in [Addr -> Nat]
  BY DEF Chain
<1>2. InitState.transfers = <<>> /\ InitState.cached = {} /\ InitState \in State
  BY InitStateType DEF InitState
<1>3. /\ s.transfers = <<>> /\ s.cached = as
      /\ \A a \in as : s.accounts[a] = FetchAccount(c, a)
  BY <1>2 DEF CacheAll, AccountOf, State
<1>4. \A a \in Addr : FetchAccount(c, a).balance = c.balance[a]
  BY DEF FetchAccount, EmptyAccount
<1>5. \A a \in Precompiles : ~FetchAccount(c, a).code
  BY DEF FetchAccount, EmptyAccount, NoCode
<1>6. Good(c.balance, held, InitState)
  BY <1>1, InitGood
<1>7. s \in State
  BY <1>2, CacheAllType
<1> HIDE DEF s
<1>8. \A a \in Addr : BalanceOf(c.balance, s, a) = BalanceOf(c.balance, InitState, a)
  BY <1>2, <1>3, <1>4 DEF BalanceOf
<1>9. Good(c.balance, held, s)
  BY <1>2, <1>3, <1>5, <1>6, <1>8 DEF Good
<1> QED BY <1>7, <1>9 DEF s

\* A transaction that is rejected commits what it has cached.
LEMMA RejectKeepsLedger ==
  ASSUME TypeOK, LInv, frames = <<>>, NEW origin \in Eoa, NEW s,
         Good(chain.balance, [a \in Addr |-> 0], s), RejectTransaction(origin, s),
         chain' = chain, base' = chain
  PROVE  LInv'
<1>1. /\ phase' = "accounts" /\ frames' = <<>> /\ state' = s /\ tx'.origin = origin
      /\ to_commit' = s.cached
  BY DEF RejectTransaction, NewTx
<1>2. Snapshots' = {s} /\ Depth' = 0
  BY <1>1 DEF Snapshots, Depth
<1>3. \A a \in Addr : [b \in Addr |-> 0][a] = Held'[a]
  BY <1>1, NothingHeld
<1>4. GoodNow(s)'
  BY <1>3, GoodUnheld DEF GoodNow
<1>5. Senders(s) \subseteq s.cached
  BY SendersCached
<1> QED BY <1>1, <1>2, <1>4, <1>5 DEF LInv

\* A transaction that begins holds back the largest fee.
LEMMA EnterRootKeepsLedger ==
  ASSUME TypeOK, LInv, NEW origin \in Eoa, NEW to \in Addr, NEW value \in Nat,
         NEW deploy \in BOOLEAN, deploy => to \notin Precompiles,
         NEW warm \in State, Good(chain.balance, [a \in Addr |-> 0], warm),
         AccountOf(chain, warm, origin).balance >= MaxFee,
         EnterRoot(origin, to, value, deploy, warm), chain' = chain, base' = chain
  PROVE  LInv'
<1> DEFINE old == AccountOf(chain, warm, origin)
           sender == [old EXCEPT !.balance = @ - MaxFee, !.nonce = @ + 1]
           reserved == ReserveFee(warm, origin)
           paid == AddTransfer(chain, reserved, origin, to, value)
           target == AccountOf(chain, paid, to)
           account == [target EXCEPT !.nonce = IF deploy THEN 1 ELSE @, !.created = deploy]
           entered == UpdateAccount(paid, to, account)
           none == [a \in Addr |-> 0]
           held == [a \in Addr |-> IF a = origin THEN MaxFee ELSE 0]
<1>1. /\ chain \in Chain /\ chain.balance \in [Addr -> Nat] /\ NoCode(chain)
      /\ MaxFee \in Nat /\ held \in [Addr -> Nat] /\ none \in [Addr -> Nat]
      /\ origin \in Addr \ Precompiles
  BY TypesOfVariables, BoundsOfInputs, AmountAssumption, AddressAssumption DEF LInv, Chain
<1>2. /\ state' = entered /\ phase' = "run" /\ tx'.origin = origin
      /\ frames' = << frames'[1] >> /\ frames'[1].address = to /\ frames'[1].is_create = deploy
      /\ frames'[1].has_code = (deploy \/ (to \in chain.registered /\ chain.code[to]))
  BY DEF EnterRoot, NewTx
<1>3. reserved \in State /\ Good(chain.balance, held, reserved)
  <2>1. /\ old \in Account /\ old.balance = BalanceOf(chain.balance, warm, origin)
        /\ old.balance >= MaxFee
    BY <1>1, AccountOfBalance
  <2>2. sender \in Account /\ sender.balance = old.balance - MaxFee /\ old.balance \in Nat
    <3>1. old.balance \in Nat /\ old.balance - MaxFee \in Nat /\ old.nonce + 1 \in Nat
      BY <1>1, <2>1 DEF Account
    <3> HIDE DEF old
    <3> QED BY <2>1, <3>1 DEF Account
  <2>3. /\ \A a \in Addr \ {origin} : held[a] = none[a]
        /\ held[origin] = MaxFee /\ none[origin] = 0
    BY <1>1
  <2>4. reserved = UpdateAccount(warm, origin, sender)
    BY DEF ReserveFee
  <2> HIDE DEF old, sender, held, none, reserved
  <2>5. sender.balance + held[origin] = BalanceOf(chain.balance, warm, origin) + none[origin]
    BY <1>1, <2>1, <2>2, <2>3
  <2>6. Good(chain.balance, none, warm)
    BY DEF none
  <2> QED BY <1>1, <2>2, <2>3, <2>4, <2>5, <2>6, UpdateGood, UpdateAccountType
<1> HIDE DEF reserved, held
<1>4. paid \in State /\ Good(chain.balance, held, paid)
  BY <1>1, <1>3, TransferGood, AddTransferType
<1> HIDE DEF paid
<1>5. /\ target \in Account /\ target.balance = BalanceOf(chain.balance, paid, to)
      /\ to \in Precompiles => ~target.code
  BY <1>1, <1>4, AccountOfBalance, PrecompilesWithoutCode
<1> HIDE DEF target
<1>6. account \in Account /\ account.balance = target.balance /\ account.code = target.code
  BY <1>5 DEF Account
<1> HIDE DEF account
<1>7. Good(chain.balance, held, entered)
  BY <1>1, <1>4, <1>5, <1>6, WriteGood
<1> HIDE DEF entered
<1>8. Depth' = 1 /\ Snapshots' = {state'}
  <2>1. Len(frames') = 1
    BY <1>2
  <2> QED BY <2>1 DEF Depth, Snapshots
<1>9. \A a \in Addr : held[a] = Held'[a]
  BY <1>2 DEF held, Held, Reserved
<1>10. Good(chain'.balance, Held', state')
  BY <1>2, <1>7, <1>9, GoodUnheld
<1>11. Ordinary(frames'[1])
  BY <1>1, <1>2 DEF Ordinary, NoCode
<1>12. tx'.origin \in Eoa /\ NoCode(chain') /\ NoCode(base')
  BY <1>1, <1>2
<1>13. /\ phase' = "run" /\ \A s \in Snapshots' : GoodNow(s)'
       /\ \A i \in 1..Depth' : Ordinary(frames'[i])
  BY <1>2, <1>8, <1>10, <1>11 DEF GoodNow
<1> QED BY <1>12, <1>13 DEF LInv

\* Sending a transaction preserves the invariant.
LEMMA SendKeepsLedger ==
  ASSUME IInv, LInv, Send
  PROVE  LInv'
<1>1. PICK origin \in Eoa, value \in Values, access_list \in AccessLists,
           to \in Callees \cup CreateTargets, deploy \in BOOLEAN :
        /\ SendTransaction(origin, to, value, deploy, access_list)
        /\ deploy => to \in CreateTargets
  BY DEF Send
<1> DEFINE as == {Coinbase, to} \cup Precompiles \cup access_list
           warm == WarmState(to, access_list)
           none == [a \in Addr |-> 0]
<1>2. origin \in Addr /\ to \in Addr /\ value \in Nat /\ MaxFee \in Nat
  BY BoundsOfInputs, AmountAssumption
<1>3. TypeOK /\ chain \in Chain /\ chain.balance[origin] \in Nat /\ NoCode(chain)
  BY <1>2, TypesOfVariables DEF IInv, Chain, LInv
<1>4. as \in SUBSET Addr
  BY <1>2, BoundsOfInputs, AddressAssumption
<1>5. phase = "idle" /\ chain' = chain /\ base' = chain
      /\ chain.balance[origin] >= value + MaxFee
  BY <1>1 DEF SendTransaction
<1>6. frames = <<>>
  BY <1>5 DEF IInv, FramesWhileRunning
<1>7. warm = CacheAll(chain, InitState, as)
  BY DEF WarmState
<1>8. none \in [Addr -> Nat] /\ \A a \in Addr : none[a] = 0
  OBVIOUS
<1>9. AccountOf(chain, warm, origin).balance = chain.balance[origin]
  BY <1>2 DEF WarmState, CacheAll, AccountOf, InitState, FetchAccount, EmptyAccount
<1>10. \/ RejectTransaction(origin, warm)
       \/ RejectTransaction(origin, CacheAccount(chain, warm, origin))
       \/ EnterRoot(origin, to, value, deploy, warm)
  BY <1>1 DEF SendTransaction, warm
<1> HIDE DEF as, warm, none
<1>11. warm \in State /\ Good(chain.balance, none, warm)
  BY <1>3, <1>4, <1>7, <1>8, WarmGood
<1>12. Good(chain.balance, none, CacheAccount(chain, warm, origin))
  BY <1>2, <1>3, <1>8, <1>11, CacheGood
<1>13. deploy => to \notin Precompiles
  BY <1>1, AddressAssumption
<1>14. AccountOf(chain, warm, origin).balance >= MaxFee
  BY <1>2, <1>3, <1>5, <1>9
<1>15. CASE RejectTransaction(origin, warm)
  BY <1>3, <1>5, <1>6, <1>11, <1>15, RejectKeepsLedger DEF none
<1>16. CASE RejectTransaction(origin, CacheAccount(chain, warm, origin))
  BY <1>3, <1>5, <1>6, <1>12, <1>16, RejectKeepsLedger DEF none
<1>17. CASE EnterRoot(origin, to, value, deploy, warm)
  BY <1>2, <1>3, <1>5, <1>11, <1>13, <1>14, <1>17, EnterRootKeepsLedger DEF none
<1> QED BY <1>10, <1>15, <1>16, <1>17

-----------------------------------------------------------------------------
(***************************************************************************)
(* The commit.                                                              *)
(***************************************************************************)
\* A transfer adds its sender to those of the others.
LEMMA AddTransferSenders ==
  ASSUME NEW c \in Chain, NEW s \in State, NEW from \in Addr, NEW to \in Addr, NEW amount \in Nat
  PROVE  Senders(AddTransfer(c, s, from, to, amount)) \subseteq Senders(s) \cup {from}
<1> DEFINE next == AddTransfer(c, s, from, to, amount)
           t == [sender |-> from, recipient |-> to, amount |-> amount]
<1>1. next = s \/ next.transfers = Append(s.transfers, t)
  BY Zenon DEF AddTransfer, State
<1>2. t \in Transfer /\ s.transfers \in Seq(Transfer) /\ t.sender = from
  BY DEF Transfer, State
<1> HIDE DEF next, t
<1>3. ASSUME next.transfers = Append(s.transfers, t), NEW n \in 1..Len(next.transfers)
      PROVE  next.transfers[n].sender \in Senders(s) \cup {from}
  <2>1. CASE n = Len(s.transfers) + 1
    BY <1>2, <1>3, <2>1
  <2>2. CASE n # Len(s.transfers) + 1
    <3>1. n \in 1..Len(s.transfers) /\ next.transfers[n] = s.transfers[n]
      BY <1>2, <1>3, <2>2
    <3> QED BY <3>1 DEF Senders
  <2> QED BY <2>1, <2>2
<1> QED BY <1>1, <1>3 DEF Senders, next

\* The senders of the other transfers are among those of all.
LEMMA TailSenders ==
  ASSUME NEW s \in State, s.transfers # <<>>
  PROVE  /\ Head(s.transfers).sender \in Senders(s)
         /\ Senders([s EXCEPT !.transfers = Tail(@)]) \subseteq Senders(s)
<1> DEFINE ts == s.transfers
           rest == [s EXCEPT !.transfers = Tail(@)]
<1>1. ts \in Seq(Transfer) /\ ts # <<>> /\ rest.transfers = Tail(ts)
  BY DEF State
<1>2. 1 \in 1..Len(ts) /\ Head(ts) = ts[1]
  BY <1>1
<1>3. \A n \in 1..Len(Tail(ts)) : n + 1 \in 1..Len(ts) /\ Tail(ts)[n] = ts[n + 1]
  BY <1>1
<1> HIDE DEF rest
<1> QED BY <1>1, <1>2, <1>3 DEF Senders, rest

\* Outside of a transaction's execution the present state is all there is.
LEMMA CommitKeepsLedger ==
  ASSUME TypeOK, LInv, frames = <<>>, frames' = frames, phase # "run", phase' # "run",
         tx' = tx, base' = base, NoCode(chain'), Good(chain'.balance, Held, state'),
         phase' \in {"accounts", "transfers"} =>
           Senders(state') \subseteq to_commit' \cup chain'.registered,
         phase' = "transfers" => to_commit' = {}
  PROVE  LInv'
<1>1. Snapshots' = {state'} /\ Depth' = 0
  BY DEF Snapshots, Depth
<1>2. Held' = Held
  BY DEF Held, Reserved
<1>3. \A s \in Snapshots' : GoodNow(s)'
  BY <1>1, <1>2 DEF GoodNow
<1>4. tx'.origin \in Eoa /\ NoCode(base')
  BY DEF LInv
<1>5. \A i \in 1..Depth' : Ordinary(frames'[i])
  BY <1>1
<1> QED BY <1>3, <1>4, <1>5 DEF LInv

\* Committing an account preserves the invariant: the account is deployed, and what
\* it leaves when it vanishes is a transfer that it can make.
LEMMA CommitAccountKeepsLedger ==
  ASSUME TypeOK, LInv, frames = <<>>, CommitAccount
  PROVE  LInv'
<1> DEFINE a == CHOOSE x \in to_commit : TRUE
           account == state.accounts[a]
           burnt == AddTransfer(chain, state, a, BurnAddress, account.balance)
           written == WriteAccount(account, a)
<1>1. /\ phase = "accounts" /\ to_commit # {} /\ to_commit' = to_commit \ {a}
      /\ frames' = frames /\ phase' = phase /\ base' = base /\ tx' = tx
  BY DEF CommitAccount
<1>2. /\ chain \in Chain /\ chain.balance \in [Addr -> Nat] /\ state \in State
      /\ to_commit \in SUBSET Addr /\ NoCode(chain) /\ GoodNow(state)
      /\ Held \in [Addr -> Nat] /\ Senders(state) \subseteq to_commit \cup chain.registered
  BY <1>1, TypesOfVariables, HeldType DEF TypeOK, LInv, Snapshots, Chain
<1>3. a \in to_commit /\ a \in Addr
  BY <1>1, <1>2
<1>4. account \in Account /\ account.balance \in Nat
  BY <1>2, <1>3 DEF State, Account
<1>5. \/ a \in Precompiles /\ chain' = chain /\ state' = state
      \/ a \notin Precompiles /\ chain' = written /\ (state' = burnt \/ state' = state)
  BY DEF CommitAccount
<1>6. /\ written.balance = chain.balance /\ written.registered = chain.registered \cup {a}
      /\ \A b \in Addr \ {a} : written.code[b] = chain.code[b]
  BY <1>2, <1>3, Zenon DEF WriteAccount, Chain
<1> HIDE DEF a, account, burnt, written
<1>7. CASE a \in Precompiles /\ chain' = chain /\ state' = state
  <2>1. Senders(state) \subseteq state.cached \ Precompiles
    BY <1>2, SendersCached DEF GoodNow
  <2>2. Senders(state') \subseteq to_commit' \cup chain'.registered
    BY <1>1, <1>2, <1>7, <2>1
  <2>3. NoCode(chain') /\ Good(chain'.balance, Held, state')
    BY <1>2, <1>7 DEF GoodNow
  <2> QED BY <1>1, <2>2, <2>3, CommitKeepsLedger
<1>8. CASE a \notin Precompiles /\ chain' = written /\ (state' = burnt \/ state' = state)
  <2>1. /\ Good(chain.balance, Held, burnt) /\ Senders(burnt) \subseteq Senders(state) \cup {a}
    BY <1>2, <1>3, <1>4, <1>8, BoundsOfInputs, TransferGood, AddTransferSenders
       DEF GoodNow, burnt
  <2>2. Senders(state') \subseteq to_commit' \cup chain'.registered
    BY <1>1, <1>2, <1>6, <1>8, <2>1
  <2>3. Good(chain'.balance, Held, state')
    BY <1>2, <1>6, <1>8, <2>1 DEF GoodNow
  <2>4. NoCode(chain')
    BY <1>2, <1>6, <1>8, BoundsOfInputs DEF NoCode
  <2> QED BY <1>1, <2>2, <2>3, <2>4, CommitKeepsLedger
<1> QED BY <1>5, <1>7, <1>8

\* A transfer finds the balance it needs, and an account that is deployed.
LEMMA TransferCanBeMade ==
  ASSUME TypeOK, LInv, phase = "transfers", state.transfers # <<>>
  PROVE  CanTransfer(Head(state.transfers))
<1>1. /\ chain.balance \in [Addr -> Nat] /\ state \in State /\ GoodNow(state)
      /\ Senders(state) \subseteq chain.registered
  BY TypesOfVariables DEF LInv, Snapshots, Chain
<1>2. Head(state.transfers).sender \in chain.registered
  BY <1>1, TailSenders
<1>3. Head(state.transfers).amount <= chain.balance[Head(state.transfers).sender]
  BY <1>1, TailGood DEF GoodNow
<1> QED BY <1>2, <1>3 DEF CanTransfer

\* Making the transfers preserves the invariant.
LEMMA TransferEthKeepsLedger ==
  ASSUME TypeOK, LInv, frames = <<>>, TransferEth
  PROVE  LInv'
<1> DEFINE t == Head(state.transfers)
           rest == [state EXCEPT !.transfers = Tail(@)]
<1>1. phase = "transfers" /\ state.transfers # <<>>
  BY DEF TransferEth
<1>2. CanTransfer(t)
  BY <1>1, TransferCanBeMade
<1>3. /\ chain' = [chain EXCEPT !.balance = Transferred(@, t)] /\ state' = rest
      /\ base' = base /\ phase' = phase /\ tx' = tx /\ frames' = frames
      /\ to_commit' = to_commit
  BY <1>2 DEF TransferEth
<1>4. /\ chain \in Chain /\ chain.balance \in [Addr -> Nat] /\ state \in State /\ GoodNow(state)
      /\ Senders(state) \subseteq to_commit \cup chain.registered /\ to_commit = {}
      /\ NoCode(chain)
  BY <1>1, TypesOfVariables DEF LInv, Snapshots, Chain
<1>5. Senders(rest) \subseteq Senders(state)
  BY <1>1, <1>4, TailSenders
<1>6. Good(Transferred(chain.balance, t), Held, rest)
  BY <1>1, <1>4, TailGood DEF GoodNow
<1> HIDE DEF t, rest
<1>7. /\ chain'.balance = Transferred(chain.balance, t) /\ chain'.code = chain.code
      /\ chain'.registered = chain.registered
  BY <1>3, <1>4 DEF Chain
<1>8. NoCode(chain') /\ Good(chain'.balance, Held, state')
  BY <1>3, <1>4, <1>6, <1>7 DEF NoCode
<1>9. Senders(state') \subseteq to_commit' \cup chain'.registered
  BY <1>3, <1>4, <1>5, <1>7
<1> QED BY <1>1, <1>3, <1>4, <1>8, <1>9, CommitKeepsLedger

\* So does every step of the commit.
LEMMA CommitStepKeepsLedger ==
  ASSUME IInv, LInv, CommitStep
  PROVE  LInv'
<1>1. TypeOK /\ (phase # "run" => frames = <<>>)
  BY DEF IInv, FramesWhileRunning
<1>2. CASE CommitAccount
  BY <1>1, <1>2, CommitAccountKeepsLedger DEF CommitAccount
<1>3. CASE TransferEth
  BY <1>1, <1>3, TransferEthKeepsLedger DEF TransferEth
<1>4. CASE EmitEvents
  <2>1. /\ phase = "accounts" /\ to_commit = {} /\ to_commit' = to_commit
        /\ phase' = "transfers" /\ state' = state /\ frames' = frames /\ base' = base
        /\ tx' = tx /\ chain' = [chain EXCEPT !.events = @ + state.events]
    BY <1>4 DEF EmitEvents
  <2>2. /\ chain'.balance = chain.balance /\ chain'.code = chain.code
        /\ chain'.registered = chain.registered
    BY <1>1, <2>1, TypesOfVariables DEF Chain
  <2>3. NoCode(chain') /\ Good(chain'.balance, Held, state')
    BY <2>1, <2>2 DEF LInv, Snapshots, GoodNow, NoCode
  <2>4. Senders(state') \subseteq to_commit' \cup chain'.registered
    BY <2>1, <2>2 DEF LInv
  <2> QED BY <1>1, <2>1, <2>3, <2>4, CommitKeepsLedger
<1>5. CASE Commit
  <2>1. /\ phase = "transfers" /\ phase' = "idle" /\ state' = InitState /\ chain' = chain
        /\ frames' = frames /\ base' = base /\ tx' = tx
    BY <1>5 DEF Commit
  <2>2. chain.balance \in [Addr -> Nat] /\ \A a \in Addr : Held[a] = 0
    BY <1>1, <2>1, TypesOfVariables, HeldType DEF Chain
  <2>3. NoCode(chain') /\ Good(chain'.balance, Held, state')
    BY <2>1, <2>2, InitGood DEF LInv
  <2> QED BY <1>1, <2>1, <2>3, CommitKeepsLedger
<1> QED BY <1>2, <1>3, <1>4, <1>5 DEF CommitStep

-----------------------------------------------------------------------------
(***************************************************************************)
(* The theorems.                                                           *)
(***************************************************************************)
\* The invariant holds at first,
LEMMA InitLedger == Init => LInv
<1> SUFFICES ASSUME Init PROVE LInv
  OBVIOUS
<1>1. /\ chain = Genesis /\ base = Genesis /\ phase = "idle" /\ frames = <<>>
      /\ state = InitState /\ tx.origin = CHOOSE a \in Eoa : TRUE
  BY DEF Init
<1>2. tx.origin \in Eoa
  BY <1>1, AddressAssumption
<1>3. NoCode(chain) /\ NoCode(base)
  BY <1>1, AddressAssumption DEF NoCode, Genesis
<1>4. chain.balance \in [Addr -> Nat]
  BY <1>1, AmountAssumption DEF Genesis
<1>5. \A a \in Addr : Held[a] = 0
  BY <1>1, HeldType
<1>6. GoodNow(state)
  BY <1>1, <1>4, <1>5, InitGood DEF GoodNow
<1>7. Snapshots = {state} /\ Depth = 0
  BY <1>1 DEF Snapshots, Depth
<1> QED BY <1>1, <1>2, <1>3, <1>6, <1>7 DEF LInv

\* and every step preserves it.
LEMMA StepKeepsLedger ==
  ASSUME ~CairoMovesNative, IInv, LInv, [Next]_vars
  PROVE  LInv'
<1>1. TypeOK
  BY DEF IInv
<1>2. CASE Send
  BY <1>2, SendKeepsLedger
<1>3. CASE Opcode
  BY <1>1, <1>3, OpcodeKeepsLedger
<1>4. CASE End
  BY <1>1, <1>4, EndKeepsLedger
<1>5. CASE Finalize
  BY <1>1, <1>5, FinalizeCallKeepsLedger, FinalizeCreateKeepsLedger, FinalizeRootKeepsLedger
     DEF Finalize
<1>6. CASE CommitStep
  BY <1>6, CommitStepKeepsLedger
<1>7. CASE UNCHANGED vars
  BY <1>7 DEF vars, LInv, Snapshots, Depth, GoodNow, Held, Reserved
<1> QED BY <1>2, <1>3, <1>4, <1>5, <1>6, <1>7 DEF Next, Proceed, NoMoreTransactions

\* In every reachable state, when Cairo calls move no native token of their caller,
\* the present state and those that contexts would restore are good.
THEOREM LedgerInvariant ==
  ASSUME ~CairoMovesNative
  PROVE  Spec => [](IInv /\ LInv)
<1>1. Init => IInv /\ LInv
  BY InitInvariant, InitLedger
<1>2. IInv /\ LInv /\ [Next]_vars => (IInv /\ LInv)'
  BY StepPreserves, StepKeepsLedger
<1> QED BY <1>1, <1>2, PTL DEF Spec

\* The cached balances are those that the recorded transfers will lead to, in the
\* present state and in every one that could be restored, whatever the program.
THEOREM LedgerAlwaysMatches ==
  ASSUME ~CairoMovesNative
  PROVE  Spec => []LedgerMatches
<1>1. ASSUME IInv, LInv, NEW s \in Snapshots, NEW a \in Addr
      PROVE  Replay(chain.balance, s.transfers)[Len(s.transfers)][a] =
               AccountOf(chain, s, a).balance + Reserved(a)
  <2>1. chain \in Chain /\ s \in State
    BY <1>1, SnapshotType DEF IInv, TypeOK
  <2>2. AccountOf(chain, s, a).balance = BalanceOf(chain.balance, s, a)
    BY <2>1, AccountOfBalance
  <2>3. After(chain.balance, s.transfers)[a] = BalanceOf(chain.balance, s, a) + Held[a]
    BY <1>1 DEF LInv, GoodNow, Good
  <2> QED BY <2>2, <2>3 DEF After, Held
<1>2. IInv /\ LInv => LedgerMatches
  BY <1>1 DEF LedgerMatches
<1> QED BY <1>2, LedgerInvariant, PTL

\* No transfer of a commit fails.
THEOREM CommitsNeverFail ==
  ASSUME ~CairoMovesNative
  PROVE  Spec => []CommitNeverFails
<1>1. IInv /\ LInv => CommitNeverFails
  BY TransferCanBeMade DEF IInv, CommitNeverFails
<1> QED BY <1>1, LedgerInvariant, PTL

-----------------------------------------------------------------------------
(***************************************************************************)
(* The fourth part: transactions are atomic, Interpreter implements         *)
(* AtomicTx.                                                               *)
(*                                                                         *)
(* Until it ends, a transaction is compared with base, the storage that     *)
(* Starknet would restore: AInv says what the present storage and the       *)
(* states may differ in.  Lawful speaks of one account: its nonce counts    *)
(* up, that of a sender by the transactions it sent, its code is written    *)
(* once, by a creation, and its storage only changes with a nonce.  Sound   *)
(* says this of all the accounts of a state, and that whoever has no code   *)
(* and did not send the transaction makes no transfer.  A context with code *)
(* has an account with a nonce (Born), in the present state and in every    *)
(* state that it can be given back when one of its callees fails, so that   *)
(* SSTORE gives storage to such accounts only.                              *)
(*                                                                         *)
(* During the commit, the accounts that were written are Lawful as          *)
(* Starknet stores them, the others are as they were, and the transfers are *)
(* still to come.  What the sender is left with follows from the ledger     *)
(* (LInv), or, if Cairo calls may spend it all, from the supply, which is   *)
(* constant.                                                                *)
(*                                                                         *)
(* The same invariant says what an account was that a transaction created:  *)
(* nothing.  With the supply, which bounds what is burnt, it leaves nothing *)
(* when it is destroyed as well (VInv).                                     *)
(***************************************************************************)

-----------------------------------------------------------------------------
(***************************************************************************)
(* Sums.  The library folds a function over a set by a recursive function   *)
(* of the set, which takes the elements in an order of its own.             *)
(***************************************************************************)
\* The element that a sum over t takes first.
First(t) == CHOOSE x \in t : TRUE

\* g sums f over the sets of D, which holds what is left of each when its first
\* element is taken.
Adds(f, D, g) ==
  g = [t \in D |-> IF t = {} THEN 0 ELSE f[First(t)] + g[t \ {First(t)}]]

LEMMA SumDef ==
  ASSUME NEW f, NEW S
  PROVE  SumFunctionOnSet(f, S) = (CHOOSE g : Adds(f, SUBSET S, g))[S]
BY DEF SumFunctionOnSet, FoldFunctionOnSet, MapThenFoldSet, Adds, First

LEMMA AddsExist ==
  ASSUME NEW f, NEW S, IsFiniteSet(S)
  PROVE  \E g : Adds(f, SUBSET S, g)
<1> DEFINE Small(n) == {t \in SUBSET S : Cardinality(t) <= n}
           N == {n \in Nat : \E g : Adds(f, Small(n), g)}
<1>1. \A t \in SUBSET S : IsFiniteSet(t) /\ Cardinality(t) \in Nat
  BY FS_Subset, FS_CardinalityType
<1>2. \A t \in SUBSET S : t # {} =>
        /\ First(t) \in t
        /\ t \ {First(t)} \in SUBSET S
        /\ Cardinality(t \ {First(t)}) = Cardinality(t) - 1
  <2> TAKE t \in SUBSET S
  <2> HAVE t # {}
  <2>1. First(t) \in t
    BY DEF First
  <2> QED BY <1>1, <2>1, FS_RemoveElement
<1>3. 0 \in N
  <2>1. Adds(f, Small(0), [t \in Small(0) |-> 0])
    <3>1. \A t \in Small(0) : t = {}
      BY <1>1, FS_EmptySet
    <3> QED BY <3>1 DEF Adds
  <2> QED BY <2>1
<1>4. ASSUME NEW n \in Nat, n \in N PROVE n + 1 \in N
  <2>1. PICK g : Adds(f, Small(n), g)
    BY <1>4
  <2> DEFINE h == [t \in Small(n + 1) |-> IF t = {} THEN 0 ELSE f[First(t)] + g[t \ {First(t)}]]
  <2>2. ASSUME NEW t \in Small(n + 1), t # {} PROVE h[t \ {First(t)}] = g[t \ {First(t)}]
    <3> DEFINE u == t \ {First(t)}
    <3>1. u \in SUBSET S /\ Cardinality(u) = Cardinality(t) - 1 /\ Cardinality(t) <= n + 1
      BY <1>2, <2>2
    <3>2. Cardinality(u) <= n
      BY <1>1, <3>1
    <3>3. u \in Small(n) /\ u \in Small(n + 1)
      BY <1>1, <3>1, <3>2
    <3> HIDE DEF u
    <3>4. h[u] = IF u = {} THEN 0 ELSE f[First(u)] + g[u \ {First(u)}]
      BY <3>3
    <3>5. g[u] = IF u = {} THEN 0 ELSE f[First(u)] + g[u \ {First(u)}]
      BY <2>1, <3>3 DEF Adds
    <3> QED BY <3>4, <3>5 DEF u
  <2>3. h = [t \in Small(n + 1) |-> IF t = {} THEN 0 ELSE f[First(t)] + h[t \ {First(t)}]]
    BY <2>2
  <2> HIDE DEF h
  <2>4. Adds(f, Small(n + 1), h)
    BY <2>3 DEF Adds
  <2> QED BY <2>4
<1> HIDE DEF N
<1>5. \A n \in Nat : n \in N
  BY <1>3, <1>4, NatSet
<1>6. Cardinality(S) \in N
  BY <1>1, <1>5
<1>7. Small(Cardinality(S)) = SUBSET S
  BY FS_Subset
<1> QED BY <1>6, <1>7 DEF N

\* Induction over the subsets of a finite set, by their size.
LEMMA SubsetInduction ==
  ASSUME NEW S, IsFiniteSet(S), NEW D, {} \in D,
         \A t \in SUBSET S : t # {} /\ (\A x \in t : t \ {x} \in D) => t \in D
  PROVE  \A t \in SUBSET S : t \in D
<1> DEFINE N == {n \in Nat : \A t \in SUBSET S : Cardinality(t) = n => t \in D}
<1>1. \A t \in SUBSET S : IsFiniteSet(t) /\ Cardinality(t) \in Nat
  BY FS_Subset, FS_CardinalityType
<1>2. 0 \in N
  <2>1. \A t \in SUBSET S : Cardinality(t) = 0 => t = {}
    BY <1>1, FS_EmptySet
  <2> QED BY <2>1
<1>3. ASSUME NEW n \in Nat, n \in N PROVE n + 1 \in N
  <2>1. ASSUME NEW t \in SUBSET S, Cardinality(t) = n + 1 PROVE t \in D
    <3>1. t # {}
      BY <2>1, FS_EmptySet
    <3>2. ASSUME NEW x \in t PROVE t \ {x} \in D
      <4>1. t \ {x} \in SUBSET S /\ Cardinality(t \ {x}) = n
        BY <1>1, <2>1, FS_RemoveElement
      <4> QED BY <1>3, <4>1
    <3> QED BY <3>1, <3>2
  <2> QED BY <2>1
<1> HIDE DEF N
<1>4. \A n \in Nat : n \in N
  BY <1>2, <1>3, NatSet
<1> QED BY <1>1, <1>4 DEF N

\* A sum of natural numbers is one,
LEMMA AddsType ==
  ASSUME NEW S, IsFiniteSet(S), NEW f \in [S -> Nat], NEW g, Adds(f, SUBSET S, g)
  PROVE  \A t \in SUBSET S : g[t] \in Nat
<1> DEFINE D == {t \in SUBSET S : g[t] \in Nat}
<1>1. {} \in D
  BY DEF Adds
<1>2. ASSUME NEW t \in SUBSET S, t # {}, \A x \in t : t \ {x} \in D PROVE t \in D
  <2>1. First(t) \in t
    BY <1>2 DEF First
  <2>2. g[t] = f[First(t)] + g[t \ {First(t)}]
    BY <1>2 DEF Adds
  <2> QED BY <1>2, <2>1, <2>2
<1> HIDE DEF D
<1>3. \A t \in SUBSET S : t \in D
  BY <1>1, <1>2, SubsetInduction
<1> QED BY <1>3 DEF D

\* and any element may be taken first.
LEMMA AddsAnyFirst ==
  ASSUME NEW S, IsFiniteSet(S), NEW f \in [S -> Nat], NEW g, Adds(f, SUBSET S, g)
  PROVE  \A t \in SUBSET S : \A x \in t : g[t] = f[x] + g[t \ {x}]
<1> DEFINE D == {t \in SUBSET S : \A x \in t : g[t] = f[x] + g[t \ {x}]}
<1>1. {} \in D
  OBVIOUS
<1>2. ASSUME NEW t \in SUBSET S, t # {}, \A x \in t : t \ {x} \in D PROVE t \in D
  <2> SUFFICES ASSUME NEW x \in t PROVE g[t] = f[x] + g[t \ {x}]
    OBVIOUS
  <2> DEFINE y == First(t)
  <2>1. y \in t
    BY <1>2 DEF First
  <2>2. g[t] = f[y] + g[t \ {y}]
    BY <1>2 DEF Adds
  <2>3. CASE x = y
    BY <2>2, <2>3
  <2>4. CASE x # y
    <3> HIDE DEF y
    <3> DEFINE u == (t \ {x}) \ {y}
               fx == f[x]
               fy == f[y]
               gu == g[u]
               gx == g[t \ {x}]
               gy == g[t \ {y}]
               gt == g[t]
    <3>1. gy = fx + g[(t \ {y}) \ {x}]
      BY <1>2, <2>1, <2>4
    <3>2. gx = fy + gu
      BY <1>2, <2>1, <2>4
    <3>3. (t \ {y}) \ {x} = u
      OBVIOUS
    <3>4. fx \in Nat /\ fy \in Nat
      BY <2>1
    <3>5. gu \in Nat
      <4>1. u \in SUBSET S
        OBVIOUS
      <4> QED BY <4>1, AddsType
    <3>6. gy = fx + gu
      BY <3>1, <3>3
    <3>7. gt = fy + gy
      BY <2>2
    <3> HIDE DEF u, fx, fy, gu, gx, gy, gt
    <3>8. gt = fx + gx
      BY <3>2, <3>4, <3>5, <3>6, <3>7
    <3> QED BY <3>8 DEF gt, fx, gx
  <2> QED BY <2>3, <2>4
<1> HIDE DEF D
<1>3. \A t \in SUBSET S : t \in D
  BY <1>1, <1>2, SubsetInduction
<1> QED BY <1>3 DEF D

\* Sums depend on the values over the set only.
LEMMA AddsAgree ==
  ASSUME NEW S, IsFiniteSet(S), NEW f, NEW h, NEW g, NEW k,
         Adds(f, SUBSET S, g), Adds(h, SUBSET S, k)
  PROVE  \A t \in SUBSET S : (\A x \in t : f[x] = h[x]) => g[t] = k[t]
<1> DEFINE D == {t \in SUBSET S : (\A x \in t : f[x] = h[x]) => g[t] = k[t]}
<1>1. {} \in D
  BY DEF Adds
<1>2. ASSUME NEW t \in SUBSET S, t # {}, \A x \in t : t \ {x} \in D PROVE t \in D
  <2> SUFFICES ASSUME \A x \in t : f[x] = h[x] PROVE g[t] = k[t]
    OBVIOUS
  <2>1. First(t) \in t
    BY <1>2 DEF First
  <2>2. g[t] = f[First(t)] + g[t \ {First(t)}] /\ k[t] = h[First(t)] + k[t \ {First(t)}]
    BY <1>2 DEF Adds
  <2> QED BY <1>2, <2>1, <2>2
<1> HIDE DEF D
<1>3. \A t \in SUBSET S : t \in D
  BY <1>1, <1>2, SubsetInduction
<1> QED BY <1>3 DEF D

\* What a function adds up to but for one argument.
Rest(f, a) == (CHOOSE g : Adds(f, SUBSET (DOMAIN f), g))[(DOMAIN f) \ {a}]

\* A sum is one value and the rest, which bounds every other value,
LEMMA SumSplit ==
  ASSUME NEW S, IsFiniteSet(S), NEW f \in [S -> Nat], NEW a \in S
  PROVE  /\ Rest(f, a) \in Nat
         /\ SumFunction(f) = f[a] + Rest(f, a)
         /\ \A b \in S \ {a} : f[b] <= Rest(f, a)
<1> DEFINE g == CHOOSE h : Adds(f, SUBSET S, h)
<1>1. DOMAIN f = S
  OBVIOUS
<1>2. Adds(f, SUBSET S, g)
  BY AddsExist
<1>3. SumFunction(f) = g[S] /\ Rest(f, a) = g[S \ {a}]
  BY <1>1, SumDef DEF SumFunction, Rest
<1> HIDE DEF g
<1>4. S \in SUBSET S /\ S \ {a} \in SUBSET S
  OBVIOUS
<1>5. /\ \A t \in SUBSET S : g[t] \in Nat
      /\ \A t \in SUBSET S : \A x \in t : g[t] = f[x] + g[t \ {x}]
  BY <1>2, AddsType, AddsAnyFirst
<1>6. ASSUME NEW b \in S \ {a} PROVE f[b] <= Rest(f, a)
  <2> DEFINE u == (S \ {a}) \ {b}
  <2>1. u \in SUBSET S /\ b \in S \ {a}
    OBVIOUS
  <2>2. g[S \ {a}] = f[b] + g[u]
    BY <1>4, <1>5, <2>1
  <2>3. g[u] \in Nat /\ f[b] \in Nat
    BY <1>5, <2>1
  <2> HIDE DEF u
  <2> QED BY <1>3, <2>2, <2>3
<1>7. g[S] = f[a] + g[S \ {a}] /\ g[S \ {a}] \in Nat
  BY <1>4, <1>5
<1> QED BY <1>3, <1>6, <1>7

\* and which does not depend on that value.
LEMMA RestAgrees ==
  ASSUME NEW S, IsFiniteSet(S), NEW f \in [S -> Nat], NEW h \in [S -> Nat], NEW a \in S,
         \A b \in S \ {a} : f[b] = h[b]
  PROVE  Rest(f, a) = Rest(h, a)
<1> DEFINE g == CHOOSE x : Adds(f, SUBSET S, x)
           k == CHOOSE x : Adds(h, SUBSET S, x)
<1>1. DOMAIN f = S /\ DOMAIN h = S
  OBVIOUS
<1>2. Adds(f, SUBSET S, g) /\ Adds(h, SUBSET S, k)
  BY AddsExist
<1>3. Rest(f, a) = g[S \ {a}] /\ Rest(h, a) = k[S \ {a}]
  BY <1>1 DEF Rest
<1> HIDE DEF g, k
<1>4. S \ {a} \in SUBSET S
  OBVIOUS
<1> QED BY <1>2, <1>3, <1>4, AddsAgree

\* Moving an amount from one argument to another keeps the sum.
LEMMA SumMoved ==
  ASSUME NEW S, IsFiniteSet(S), NEW f \in [S -> Nat], NEW h \in [S -> Nat],
         NEW a \in S, NEW b \in S, a # b, NEW amount \in Nat,
         h[a] = f[a] - amount, h[b] = f[b] + amount, \A c \in S \ {a, b} : h[c] = f[c]
  PROVE  SumFunction(h) = SumFunction(f)
<1> DEFINE m == [f EXCEPT ![a] = h[a]]
<1>1. /\ m \in [S -> Nat] /\ m[a] = h[a] /\ m[b] = f[b]
      /\ \A c \in S \ {a} : m[c] = f[c]
      /\ \A c \in S \ {b} : m[c] = h[c]
  OBVIOUS
<1> HIDE DEF m
<1>2. Rest(m, a) = Rest(f, a) /\ Rest(m, b) = Rest(h, b)
  BY <1>1, RestAgrees
<1>3. /\ SumFunction(f) = f[a] + Rest(f, a)
      /\ SumFunction(m) = m[a] + Rest(m, a)
      /\ SumFunction(m) = m[b] + Rest(m, b)
      /\ SumFunction(h) = h[b] + Rest(h, b)
      /\ Rest(f, a) \in Nat /\ Rest(h, b) \in Nat
  BY <1>1, SumSplit
<1>4. f[a] \in Nat /\ f[b] \in Nat /\ h[a] \in Nat /\ h[b] \in Nat
  OBVIOUS
<1> QED BY <1>1, <1>2, <1>3, <1>4

-----------------------------------------------------------------------------
(***************************************************************************)
(* The invariant.  b is the storage that Starknet would restore, o the      *)
(* sender of the transaction.                                               *)
(***************************************************************************)
Supply(c) == SumFunction(c.balance)

\* Who may lose tokens by a transaction.
Spender(b, o, a) == a = o \/ b.code[a] \/ a \in CreateTargets

\* What an account may be that had another nonce, code and slot in b.
Lawful(b, o, a, nonce, code, slot, created) ==
  /\ nonce >= b.nonce[a]
  /\ a \in Eoa => nonce = b.nonce[a] + (IF a = o THEN 1 ELSE 0)
  /\ created => a \in CreateTargets /\ b.nonce[a] = 0 /\ ~b.code[a] /\ nonce > 0
  /\ ~created => code = b.code[a]
  /\ slot # b.slot[a] => nonce > 0

LawfulAccount(b, o, a, x) == Lawful(b, o, a, x.nonce, x.code, x.slot, x.created)

\* What Starknet stores for an account that was written.
LawfulStored(c, b, o, a) ==
  Lawful(b, o, a, c.nonce[a], c.code[a], c.slot[a], c.code[a] # b.code[a])

\* What the transaction may have taken from the sender's balance so far.
Solvent(b, o, x) == x.balance + MaxFee + LargestValue >= b.balance[o]

SpendersOnly(b, o, s) ==
  \A n \in 1..Len(s.transfers) : Spender(b, o, s.transfers[n].sender)

Sound(b, o, s) ==
  /\ o \in s.cached
  /\ Solvent(b, o, s.accounts[o])
  /\ \A a \in s.cached : LawfulAccount(b, o, a, s.accounts[a])
  /\ SpendersOnly(b, o, s)

\* An account that the transaction created.
Created(s, a) == a \in s.cached /\ s.accounts[a].created

\* A context with code is that of an account that has had code or was created,
\* a context that creates one that of the account it creates.
Born(b, f, s) ==
  /\ f.has_code => b.code[f.address] \/ Created(s, f.address)
  /\ f.is_create => Created(s, f.address)

\* The same nonce, code and storage.
Kept(c, b, a) == c.nonce[a] = b.nonce[a] /\ c.code[a] = b.code[a] /\ c.slot[a] = b.slot[a]

\* Storage between two transactions.
Settled(c) ==
  /\ UnregisteredEmpty(c)
  /\ \A a \in Addr : c.code[a] => c.nonce[a] > 0
  /\ \A a \in Eoa : ~c.code[a]
  /\ Supply(c) = SumFunction(GenesisBalance)

\* Storage in the course of one.
Begun(c, b, o) ==
  /\ b.registered \subseteq c.registered
  /\ c.cairo >= b.cairo
  /\ Supply(c) = Supply(b)
  /\ \A a \in Addr : ~Spender(b, o, a) => c.balance[a] >= b.balance[a]

\* The contexts, and the states they may be given back.
Contexts(b, o) ==
  /\ \A i \in 1..Depth : Spender(b, o, frames[i].caller)
  /\ \A i \in 2..Depth : Sound(b, o, frames[i].parent_state)
  /\ \A i \in 1..Depth : \A j \in (i + 1)..Depth : Born(b, frames[i], frames[j].parent_state)

\* The present state, unless the top context is to be undone.
Present(b, o) ==
  Top.status \notin Reverted =>
    Sound(b, o, state) /\ \A i \in 1..Depth : Born(b, frames[i], state)

RunInv(c, b, o) ==
  /\ b.balance[o] >= MaxFee
  /\ \A a \in Addr : Kept(c, b, a)
  /\ c.events = b.events
  /\ c.cairo = b.cairo \/ ~CairoMovesNative => c.balance = b.balance
  /\ Contexts(b, o)
  /\ Present(b, o)

\* The account of a transaction that failed, and what Starknet stores for it.
Counted(b, o, a) == b.nonce[a] + (IF tx.status = "reverted" /\ a = o THEN 1 ELSE 0)

Plain(b, o, a, x) == x.nonce = Counted(b, o, a) /\ x.slot = b.slot[a] /\ ~x.created

PlainStored(c, b, o, a) ==
  c.nonce[a] = Counted(b, o, a) /\ c.slot[a] = b.slot[a] /\ c.code[a] = b.code[a]

\* The fee is all that a failure moves, if it moves any.
FeeTransfer(o, fee) == [sender |-> o, recipient |-> Coinbase, amount |-> fee]

FeeMoves(c, b, o) ==
  \/ /\ tx.status = "invalid" \/ o = Coinbase
     /\ state.transfers = <<>> /\ c.balance = b.balance
  \/ /\ tx.status = "reverted" /\ o # Coinbase
     /\ \E fee \in 1..MaxFee :
          /\ fee <= b.balance[o]
          /\ \/ state.transfers = <<FeeTransfer(o, fee)>> /\ c.balance = b.balance
             \/ state.transfers = <<>> /\ c.balance = Transferred(b.balance, FeeTransfer(o, fee))

FailureInv(c, b, o) ==
  /\ state.events = 0 /\ c.events = b.events
  /\ \A a \in to_commit : Plain(b, o, a, state.accounts[a])
  /\ \A a \in Addr \ to_commit : PlainStored(c, b, o, a)
  /\ FeeMoves(c, b, o)
  /\ tx.status = "reverted" => b.balance[o] >= MaxFee
  /\ tx.status = "invalid" => c.cairo = b.cairo

SuccessInv(c, b, o) ==
  /\ c.events >= b.events
  /\ o \in state.cached /\ Solvent(b, o, state.accounts[o])
  /\ SpendersOnly(b, o, state)
  /\ \A a \in to_commit : LawfulAccount(b, o, a, state.accounts[a])
  /\ \A a \in Addr \ to_commit : LawfulStored(c, b, o, a)

CommitInv(c, b, o) ==
  /\ to_commit \subseteq state.cached
  /\ \A a \in Addr : a \in to_commit \/ a \notin c.registered => Kept(c, b, a)
  /\ \/ tx.status = "success" /\ SuccessInv(c, b, o)
     \/ tx.status \in {"invalid", "reverted"} /\ FailureInv(c, b, o)

Ledger == IF phase = "idle" THEN chain ELSE base

AInv ==
  /\ tx.origin \in Eoa
  /\ phase = "idle" => tx.status # "running"
  /\ Settled(Ledger)
  /\ phase # "idle" => Begun(chain, base, tx.origin)
  /\ phase = "run" => RunInv(chain, base, tx.origin)
  /\ phase \in {"accounts", "transfers"} => CommitInv(chain, base, tx.origin)
  /\ phase = "transfers" => to_commit = {}

-----------------------------------------------------------------------------
(***************************************************************************)
(* What the operations on a state do to its accounts.                       *)
(***************************************************************************)
\* State.update_account writes one account.
LEMMA UpdateFields ==
  ASSUME NEW s \in State, NEW a \in Addr, NEW x \in Account
  PROVE  LET t == UpdateAccount(s, a, x)
         IN /\ t \in State
            /\ t.cached = s.cached \cup {a} /\ t.transfers = s.transfers /\ t.events = s.events
            /\ \A e \in Addr : t.accounts[e] = IF e = a THEN x ELSE s.accounts[e]
BY ZenonT(60), UpdateAccountType DEF UpdateAccount, State

\* Accounts that differ in their balances only.
SameButBalance(x, y) ==
  /\ x.nonce = y.nonce /\ x.code = y.code /\ x.slot = y.slot
  /\ x.created = y.created /\ x.selfdestruct = y.selfdestruct

\* State.add_transfer changes balances only: the sender's decreases by the amount,
\* no other one decreases.
LEMMA TransferFields ==
  ASSUME NEW c \in Chain, NEW s \in State, NEW from \in Addr, NEW to \in Addr, NEW amount \in Nat
  PROVE  LET t == AddTransfer(c, s, from, to, amount)
             old(a) == AccountOf(c, s, a)
         IN /\ t \in State /\ t.events = s.events
            /\ s.cached \subseteq t.cached /\ t.cached \subseteq s.cached \cup {from, to}
            /\ \A a \in t.cached : SameButBalance(t.accounts[a], old(a))
            /\ \A a \in t.cached : t.accounts[a].balance >= old(a).balance - (IF a = from THEN amount ELSE 0)
            /\ \/ t.transfers = s.transfers
               \/ t.transfers = Append(s.transfers, [sender |-> from, recipient |-> to, amount |-> amount])
<1> DEFINE t == AddTransfer(c, s, from, to, amount)
           sender == AccountOf(c, s, from)
           recipient == AccountOf(c, s, to)
           old(a) == AccountOf(c, s, a)
           paid == [sender EXCEPT !.balance = @ - amount]
           got == [recipient EXCEPT !.balance = @ + amount]
<1>1. t \in State
  BY AddTransferType
<1>2. \A a \in Addr : old(a) \in Account /\ old(a).balance \in Nat
  BY AccountOfType DEF Account
<1>3. \A a \in s.cached : old(a) = s.accounts[a]
  BY DEF AccountOf
<1>4. \A a \in s.cached : a \in Addr
  BY DEF State
<1>5. CASE NullTransfer(from, to, amount) \/ ~TransferPossible(c, s, from, to, amount)
  <2>1. t = s
    BY <1>5 DEF AddTransfer
  <2>2. ASSUME NEW a \in s.cached
        PROVE  /\ SameButBalance(s.accounts[a], old(a))
               /\ s.accounts[a].balance >= old(a).balance - (IF a = from THEN amount ELSE 0)
    <3>1. old(a) = s.accounts[a] /\ old(a).balance \in Nat
      BY <1>2, <1>3, <1>4
    <3> QED BY <3>1 DEF SameButBalance
  <2> HIDE DEF t
  <2> QED BY <1>1, <2>1, <2>2 DEF t
<1>6. CASE ~(NullTransfer(from, to, amount) \/ ~TransferPossible(c, s, from, to, amount))
  <2>1. from # to /\ amount <= sender.balance
    BY <1>6 DEF NullTransfer, TransferPossible
  <2>2. /\ t.cached = s.cached \cup {from, to} /\ t.events = s.events
        /\ t.transfers = Append(s.transfers, [sender |-> from, recipient |-> to, amount |-> amount])
        /\ t.accounts = [s.accounts EXCEPT ![from] = paid, ![to] = got]
    BY <1>6, Zenon DEF AddTransfer, State
  <2>3. s.accounts \in [Addr -> Account]
    BY DEF State
  <2>4. \A a \in Addr : t.accounts[a] = IF a = to THEN got ELSE IF a = from THEN paid
                                                                  ELSE s.accounts[a]
    BY <2>2, <2>3
  <2>5. /\ SameButBalance(paid, sender) /\ paid.balance = sender.balance - amount
        /\ SameButBalance(got, recipient) /\ got.balance = recipient.balance + amount
    BY <1>2 DEF SameButBalance, Account
  <2> HIDE DEF t, paid, got
  <2>6. ASSUME NEW a \in t.cached
        PROVE  /\ SameButBalance(t.accounts[a], old(a))
               /\ t.accounts[a].balance >= old(a).balance - (IF a = from THEN amount ELSE 0)
    <3>1. a \in Addr /\ (a \in s.cached \/ a = from \/ a = to)
      BY <1>4, <2>2
    <3>2. CASE a = to
      BY <1>2, <2>1, <2>4, <2>5, <3>1, <3>2
    <3>3. CASE a = from
      BY <1>2, <2>1, <2>4, <2>5, <3>1, <3>3
    <3>4. CASE a # to /\ a # from
      <4>1. t.accounts[a] = old(a) /\ old(a).balance \in Nat
        BY <1>2, <1>3, <2>4, <3>1, <3>4
      <4> QED BY <3>4, <4>1 DEF SameButBalance
    <3> QED BY <3>2, <3>3, <3>4
  <2> QED BY <1>1, <2>2, <2>6 DEF t
<1> QED BY <1>5, <1>6

-----------------------------------------------------------------------------
(***************************************************************************)
(* Sound states.                                                            *)
(***************************************************************************)
\* What the amounts are.
HasLargestValue == \E v \in Values : \A w \in Values : w <= v

LEMMA LargestValueBounds ==
  ASSUME HasLargestValue
  PROVE  LargestValue \in Nat /\ \A v \in Values : v <= LargestValue
BY BoundsOfInputs DEF HasLargestValue, LargestValue

\* Starknet's storage c shows the nonces, the code and the slots of b.
Reads(c, b) ==
  /\ \A a \in Addr : Kept(c, b, a)
  /\ UnregisteredEmpty(b)
  /\ b.registered \subseteq c.registered

\* So does Account.fetch_or_create.
LEMMA FetchReads ==
  ASSUME NEW c \in Chain, NEW b \in Chain, Reads(c, b), NEW a \in Addr
  PROVE  /\ FetchAccount(c, a).nonce = b.nonce[a]
         /\ FetchAccount(c, a).code = b.code[a]
         /\ FetchAccount(c, a).slot = b.slot[a]
         /\ FetchAccount(c, a).created = FALSE
         /\ FetchAccount(c, a).selfdestruct = FALSE
         /\ FetchAccount(c, a).balance = c.balance[a]
         /\ FetchAccount(c, a) \in Account
<1>1. FetchAccount(c, a) \in Account
  BY FetchAccountType
<1>2. CASE a \in c.registered
  BY <1>1, <1>2 DEF FetchAccount, EmptyAccount, Reads, Kept
<1>3. CASE a \notin c.registered
  <2>1. a \in Addr \ b.registered
    BY <1>3 DEF Reads
  <2>2. b.nonce[a] = 0 /\ b.code[a] = FALSE /\ b.slot[a] = 0
    BY <2>1 DEF Reads, UnregisteredEmpty
  <2> QED BY <1>1, <1>3, <2>2 DEF FetchAccount, EmptyAccount
<1> QED BY <1>2, <1>3

\* The states between which no creation is undone.
Grows(s, t) == \A a \in Addr : Created(s, a) => Created(t, a)

Leads(b, o, s, t) == t \in State /\ Sound(b, o, t) /\ Grows(s, t)

LEMMA LeadsOn ==
  ASSUME NEW b, NEW o, NEW s, NEW t, NEW u, Leads(b, o, s, t), Leads(b, o, t, u)
  PROVE  Leads(b, o, s, u)
BY DEF Leads, Grows

LEMMA LeadsNowhere ==
  ASSUME NEW b, NEW o, NEW s \in State, Sound(b, o, s)
  PROVE  Leads(b, o, s, s)
BY DEF Leads, Grows

\* A context stays born.
LEMMA BornLater ==
  ASSUME NEW b, NEW f \in Frame, NEW s, NEW t, Grows(s, t), Born(b, f, s)
  PROVE  Born(b, f, t)
BY TopFields DEF Born, Grows

\* A sound state shows lawful accounts, whether they are cached or not.
LEMMA ShownLawful ==
  ASSUME NEW c \in Chain, NEW b \in Chain, Reads(c, b), NEW o \in Eoa,
         NEW s \in State, Sound(b, o, s), NEW a \in Addr
  PROVE  /\ AccountOf(c, s, a) \in Account
         /\ LawfulAccount(b, o, a, AccountOf(c, s, a))
         /\ AccountOf(c, s, a).created => Created(s, a)
         /\ a = o => AccountOf(c, s, a) = s.accounts[o] /\ Solvent(b, o, AccountOf(c, s, a))
<1>1. CASE a \in s.cached
  <2>1. AccountOf(c, s, a) = s.accounts[a] /\ AccountOf(c, s, a) \in Account
    BY <1>1, AccountOfType DEF AccountOf
  <2> QED BY <1>1, <2>1 DEF Sound, Created
<1>2. CASE a \notin s.cached
  <2> DEFINE x == FetchAccount(c, a)
  <2>1. AccountOf(c, s, a) = x /\ a # o
    BY <1>2 DEF AccountOf, Sound
  <2>2. /\ x.nonce = b.nonce[a] /\ x.code = b.code[a] /\ x.slot = b.slot[a]
        /\ x.created = FALSE /\ x \in Account
    BY FetchReads
  <2>3. b.nonce[a] \in Nat
    BY DEF Chain
  <2> HIDE DEF x
  <2>4. LawfulAccount(b, o, a, x)
    BY <2>1, <2>2, <2>3 DEF LawfulAccount, Lawful
  <2> QED BY <2>1, <2>2, <2>4
<1> QED BY <1>1, <1>2

\* Writing a lawful account keeps a state sound.
LEMMA UpdateSound ==
  ASSUME NEW b \in Chain, NEW o \in Eoa, NEW s \in State, Sound(b, o, s),
         NEW a \in Addr, NEW x \in Account, LawfulAccount(b, o, a, x),
         a = o => Solvent(b, o, x), Created(s, a) => x.created
  PROVE  /\ Leads(b, o, s, UpdateAccount(s, a, x))
         /\ x.created => Created(UpdateAccount(s, a, x), a)
<1> DEFINE t == UpdateAccount(s, a, x)
<1>1. /\ t \in State /\ t.cached = s.cached \cup {a} /\ t.transfers = s.transfers
      /\ \A e \in Addr : t.accounts[e] = IF e = a THEN x ELSE s.accounts[e]
  BY UpdateFields
<1>2. o \in Addr /\ \A e \in s.cached : e \in Addr
  BY BoundsOfInputs DEF State
<1> HIDE DEF t
<1>3. o \in t.cached /\ Solvent(b, o, t.accounts[o])
  BY <1>1, <1>2 DEF Sound
<1>4. ASSUME NEW e \in t.cached PROVE LawfulAccount(b, o, e, t.accounts[e])
  <2>1. CASE e = a
    BY <1>1, <2>1
  <2>2. CASE e # a
    BY <1>1, <1>2, <2>2 DEF Sound
  <2> QED BY <2>1, <2>2
<1>5. SpendersOnly(b, o, t)
  BY <1>1 DEF Sound, SpendersOnly
<1>6. Grows(s, t)
  BY <1>1 DEF Grows, Created
<1>7. x.created => Created(t, a)
  BY <1>1 DEF Created
<1> QED BY <1>1, <1>3, <1>4, <1>5, <1>6, <1>7 DEF Leads, Sound, t

\* So does reading an account.
LEMMA CacheSound ==
  ASSUME NEW c \in Chain, NEW b \in Chain, Reads(c, b), NEW o \in Eoa,
         NEW s \in State, Sound(b, o, s), NEW a \in Addr
  PROVE  /\ Leads(b, o, s, CacheAccount(c, s, a))
         /\ AccountOf(c, CacheAccount(c, s, a), a).created => Created(CacheAccount(c, s, a), a)
<1> DEFINE x == AccountOf(c, s, a)
<1>1. /\ x \in Account /\ LawfulAccount(b, o, a, x)
      /\ a = o => Solvent(b, o, x)
  BY ShownLawful
<1>2. Created(s, a) => x.created
  BY DEF Created, AccountOf
<1>3. CacheAccount(c, s, a) = UpdateAccount(s, a, x)
  BY DEF CacheAccount
<1>4. AccountOf(c, UpdateAccount(s, a, x), a) = x
  BY <1>1, UpdateFields DEF AccountOf
<1> HIDE DEF x
<1> QED BY <1>1, <1>2, <1>3, <1>4, UpdateSound

\* So does a transfer by one who may spend, if it leaves the sender of the
\* transaction solvent.
LEMMA TransferSound ==
  ASSUME NEW c \in Chain, NEW b \in Chain, Reads(c, b), NEW o \in Eoa, HasLargestValue,
         NEW s \in State, Sound(b, o, s),
         NEW from \in Addr, NEW to \in Addr, NEW amount \in Nat, Spender(b, o, from),
         from = o => s.accounts[o].balance - amount + MaxFee + LargestValue >= b.balance[o]
  PROVE  Leads(b, o, s, AddTransfer(c, s, from, to, amount))
<1> DEFINE t == AddTransfer(c, s, from, to, amount)
           old(a) == AccountOf(c, s, a)
           m == [sender |-> from, recipient |-> to, amount |-> amount]
<1>1. /\ t \in State /\ s.cached \subseteq t.cached
      /\ \A a \in t.cached : SameButBalance(t.accounts[a], old(a))
      /\ \A a \in t.cached :
           t.accounts[a].balance >= old(a).balance - (IF a = from THEN amount ELSE 0)
      /\ t.transfers = s.transfers \/ t.transfers = Append(s.transfers, m)
  BY TransferFields
<1>2. /\ o \in Addr /\ o \in t.cached /\ old(o) = s.accounts[o]
      /\ old(o).balance \in Nat /\ Solvent(b, o, old(o))
  BY <1>1, BoundsOfInputs, ShownLawful DEF Sound, Account
<1>3. t.cached \subseteq Addr /\ m.sender = from
  BY <1>1 DEF State
<1>4. t.accounts[o].balance \in Nat /\ MaxFee \in Nat /\ LargestValue \in Nat /\ b.balance[o] \in Nat
  BY <1>1, <1>2, AmountAssumption, LargestValueBounds DEF State, Account, Chain
<1>5. m \in Transfer /\ s.transfers \in Seq(Transfer)
  BY DEF Transfer, State
<1> HIDE DEF t, m
<1>6. Solvent(b, o, t.accounts[o])
  <2>1. t.accounts[o].balance >= s.accounts[o].balance - (IF o = from THEN amount ELSE 0)
    BY <1>1, <1>2
  <2>2. s.accounts[o].balance \in Nat
    BY <1>2
  <2>3. CASE from = o
    <3>1. t.accounts[o].balance >= s.accounts[o].balance - amount
      BY <2>1, <2>3
    <3>2. s.accounts[o].balance - amount + MaxFee + LargestValue >= b.balance[o]
      BY <2>3
    <3>3. t.accounts[o].balance + MaxFee + LargestValue >= b.balance[o]
      BY <1>4, <2>2, <3>1, <3>2
    <3> QED BY <3>3 DEF Solvent
  <2>4. CASE from # o
    <3>1. t.accounts[o].balance >= s.accounts[o].balance
      BY <1>4, <2>1, <2>2, <2>4
    <3>2. s.accounts[o].balance + MaxFee + LargestValue >= b.balance[o]
      BY <1>2 DEF Solvent
    <3>3. t.accounts[o].balance + MaxFee + LargestValue >= b.balance[o]
      BY <1>4, <2>2, <3>1, <3>2
    <3> QED BY <3>3 DEF Solvent
  <2> QED BY <2>3, <2>4
<1>7. ASSUME NEW a \in t.cached PROVE LawfulAccount(b, o, a, t.accounts[a])
  <2>1. LawfulAccount(b, o, a, old(a)) /\ SameButBalance(t.accounts[a], old(a))
    BY <1>1, <1>3, ShownLawful
  <2> HIDE DEF old
  <2> QED BY <2>1 DEF LawfulAccount, SameButBalance
<1>8. SpendersOnly(b, o, t)
  <2>1. CASE t.transfers = s.transfers
    BY <2>1 DEF Sound, SpendersOnly
  <2>2. CASE t.transfers = Append(s.transfers, m)
    <3> SUFFICES ASSUME NEW n \in 1..Len(t.transfers)
                 PROVE  Spender(b, o, t.transfers[n].sender)
      BY DEF SpendersOnly
    <3>1. CASE n = Len(s.transfers) + 1
      <4>1. t.transfers[n] = m
        BY <1>5, <2>2, <3>1
      <4> QED BY <1>3, <4>1
    <3>2. CASE n # Len(s.transfers) + 1
      <4>1. n \in 1..Len(s.transfers) /\ t.transfers[n] = s.transfers[n]
        BY <1>5, <2>2, <3>2
      <4> QED BY <4>1 DEF Sound, SpendersOnly
    <3> QED BY <3>1, <3>2
  <2> QED BY <1>1, <2>1, <2>2
<1>9. Grows(s, t)
  <2> SUFFICES ASSUME NEW a \in Addr, Created(s, a) PROVE Created(t, a)
    BY DEF Grows
  <2>1. a \in s.cached /\ a \in t.cached /\ s.accounts[a].created
    BY <1>1 DEF Created
  <2>2. old(a) = s.accounts[a] /\ SameButBalance(t.accounts[a], old(a))
    BY <1>1, <2>1 DEF AccountOf
  <2> HIDE DEF old
  <2> QED BY <2>1, <2>2 DEF Created, SameButBalance
<1> QED BY <1>1, <1>2, <1>6, <1>7, <1>8, <1>9 DEF Leads, Sound, t

\* An account with code, or created by the transaction, has a nonce and no sender.
LEMMA CoderHasNonce ==
  ASSUME NEW c \in Chain, NEW b \in Chain, Reads(c, b), Settled(b), NEW o \in Eoa,
         NEW s \in State, Sound(b, o, s), NEW a \in Addr, b.code[a] \/ Created(s, a)
  PROVE  /\ AccountOf(c, s, a).nonce > 0
         /\ a \notin Eoa /\ a # o /\ Spender(b, o, a)
<1> DEFINE x == AccountOf(c, s, a)
<1>1. x \in Account /\ LawfulAccount(b, o, a, x) /\ (Created(s, a) => x.created)
  BY ShownLawful DEF Created, AccountOf
<1>2. b.nonce[a] \in Nat /\ x.nonce \in Nat
  BY <1>1 DEF Chain, Account
<1>3. Created(s, a) => a \in CreateTargets /\ x.nonce > 0
  BY <1>1 DEF LawfulAccount, Lawful
<1>4. b.code[a] => b.nonce[a] > 0 /\ a \notin Eoa
  BY DEF Settled
<1>5. x.nonce >= b.nonce[a]
  BY <1>1 DEF LawfulAccount, Lawful
<1>6. Eoa \cap CreateTargets = {}
  BY AddressAssumption
<1> HIDE DEF x
<1>7. x.nonce > 0
  BY <1>2, <1>3, <1>4, <1>5
<1> QED BY <1>3, <1>4, <1>6, <1>7 DEF Spender, x

-----------------------------------------------------------------------------
(***************************************************************************)
(* The execution: what a step may start from.                               *)
(***************************************************************************)
\* What is known while a transaction runs.
LEMMA RunningFacts ==
  ASSUME IInv, AInv, phase = "run"
  PROVE  /\ TypeOK /\ chain \in Chain /\ base \in Chain /\ state \in State
         /\ tx.origin \in Eoa /\ tx.origin \in Addr
         /\ Settled(base) /\ Begun(chain, base, tx.origin) /\ Reads(chain, base)
         /\ RunInv(chain, base, tx.origin)
         /\ Depth \in Nat /\ Depth \in 1..Depth
         /\ Top \in Frame /\ Top.address \in Addr /\ Top.caller \in Addr
         /\ Spender(base, tx.origin, Top.caller)
<1>1. TypeOK
  BY DEF IInv
<1>2. /\ chain \in Chain /\ base \in Chain /\ state \in State
      /\ tx.origin \in Eoa /\ tx.origin \in Addr
  BY <1>1, TypesOfVariables DEF AInv
<1>3. Settled(base) /\ Begun(chain, base, tx.origin) /\ RunInv(chain, base, tx.origin)
  BY DEF AInv, Ledger
<1>4. Reads(chain, base)
  BY <1>3 DEF Reads, Settled, Begun, RunInv
<1>5. Depth \in Nat /\ Depth \in 1..Depth /\ Top \in Frame
  BY <1>1, TopIsFrame
<1>6. Top.address \in Addr /\ Top.caller \in Addr
  BY <1>5, TopFields
<1>7. Spender(base, tx.origin, Top.caller)
  BY <1>3, <1>5 DEF RunInv, Contexts, Top
<1> QED BY <1>1, <1>2, <1>3, <1>4, <1>5, <1>6, <1>7

\* The states that the present one may lead to.
To(s) == Leads(base, tx.origin, state, s)

\* The present state of a context that runs is one.
LEMMA PresentFacts ==
  ASSUME IInv, AInv, phase = "run", Top.status \notin Reverted
  PROVE  /\ Sound(base, tx.origin, state) /\ To(state)
         /\ \A i \in 1..Depth : Born(base, frames[i], state)
         /\ Born(base, Top, state)
<1>1. /\ Sound(base, tx.origin, state)
      /\ \A i \in 1..Depth : Born(base, frames[i], state)
  BY RunningFacts DEF RunInv, Present
<1>2. Born(base, Top, state)
  BY <1>1, RunningFacts DEF Top
<1>3. To(state)
  BY <1>1, RunningFacts, LeadsNowhere DEF To
<1> QED BY <1>1, <1>2, <1>3

\* A context that runs has not reverted.
LEMMA RunningNotReverted ==
  ASSUME Running
  PROVE  phase = "run" /\ Top.status \notin Reverted
BY DEF Running, Reverted

\* What a sound state shows of an account.
LEMMA Shown ==
  ASSUME IInv, AInv, phase = "run", NEW s, To(s), NEW a \in Addr
  PROVE  /\ s \in State /\ AccountOf(chain, s, a) \in Account
         /\ LawfulAccount(base, tx.origin, a, AccountOf(chain, s, a))
         /\ AccountOf(chain, s, a).created => Created(s, a)
BY RunningFacts, ShownLawful DEF To, Leads

\* The account of a context with code has a nonce; its owner sends no transactions.
LEMMA OwnAccount ==
  ASSUME IInv, AInv, Running, Top.has_code, NEW s, To(s)
  PROVE  /\ Self(s) \in Account /\ Self(s).nonce > 0
         /\ LawfulAccount(base, tx.origin, Top.address, Self(s))
         /\ Created(s, Top.address) => Self(s).created
         /\ base.code[Top.address] \/ Created(s, Top.address)
         /\ Top.address \notin Eoa /\ Top.address # tx.origin
         /\ Spender(base, tx.origin, Top.address)
<1>1. phase = "run" /\ Born(base, Top, state)
  BY RunningNotReverted, PresentFacts
<1>2. base.code[Top.address] \/ Created(s, Top.address)
  BY <1>1, RunningFacts DEF To, Leads, Grows, Born
<1>3. Self(s) \in Account /\ LawfulAccount(base, tx.origin, Top.address, Self(s))
  BY <1>1, RunningFacts, Shown DEF Self
<1>4. Created(s, Top.address) => Self(s).created
  BY DEF Created, Self, AccountOf
<1>5. /\ Self(s).nonce > 0 /\ Top.address \notin Eoa /\ Top.address # tx.origin
      /\ Spender(base, tx.origin, Top.address)
  BY <1>1, <1>2, RunningFacts, CoderHasNonce DEF To, Leads, Self
<1> QED BY <1>2, <1>3, <1>4, <1>5

\* Reading an account, writing one and a transfer lead on.
LEMMA CacheLeads ==
  ASSUME IInv, AInv, phase = "run", NEW s, To(s), NEW a \in Addr
  PROVE  To(CacheAccount(chain, s, a))
BY RunningFacts, CacheSound, LeadsOn DEF To, Leads

LEMMA WriteLeads ==
  ASSUME IInv, AInv, phase = "run", NEW s, To(s), NEW a \in Addr, a # tx.origin, NEW x \in Account,
         LawfulAccount(base, tx.origin, a, x), Created(s, a) => x.created
  PROVE  To(UpdateAccount(s, a, x)) /\ (x.created => Created(UpdateAccount(s, a, x), a))
<1>1. s \in State /\ Sound(base, tx.origin, s)
  BY DEF To, Leads
<1> QED BY <1>1, RunningFacts, UpdateSound, LeadsOn DEF To

LEMMA TransferLeads ==
  ASSUME HasLargestValue, IInv, AInv, phase = "run", NEW s, To(s),
         NEW from \in Addr, from # tx.origin, Spender(base, tx.origin, from),
         NEW to \in Addr, NEW amount \in Nat
  PROVE  Leads(base, tx.origin, s, AddTransfer(chain, s, from, to, amount))
<1>1. s \in State /\ Sound(base, tx.origin, s)
  BY DEF To, Leads
<1> QED BY <1>1, RunningFacts, TransferSound

-----------------------------------------------------------------------------
(***************************************************************************)
(* Steps on the stack of contexts.                                          *)
(***************************************************************************)
\* What Starknet's storage may have become.
RunChain(c, b, o) ==
  /\ Begun(c, b, o)
  /\ \A a \in Addr : Kept(c, b, a)
  /\ c.events = b.events
  /\ c.cairo = b.cairo \/ ~CairoMovesNative => c.balance = b.balance

AlikeCaller(f, g) == Alike(f, g) /\ f.caller = g.caller

\* The same accounts are born.
LEMMA BornAlike ==
  ASSUME NEW b, NEW f, NEW g, NEW s, AlikeCaller(f, g), Born(b, g, s)
  PROVE  Born(b, f, s)
BY DEF AlikeCaller, Alike, Born

\* A step that keeps contexts, or leaves the top one, preserves the invariant if
\* the state that goes on is sound.
LEMMA KeptSound ==
  ASSUME IInv, AInv, phase = "run", phase' = "run", tx'.origin = tx.origin, base' = base,
         RunChain(chain', base, tx.origin),
         Depth' \in Nat, Depth' <= Depth, Depth' > 0,
         \A i \in 1..Depth' : AlikeCaller(frames'[i], frames[i]),
         Top'.status \notin Reverted =>
           /\ Sound(base, tx.origin, state')
           /\ \A i \in 1..Depth' : Born(base, frames[i], state')
  PROVE  AInv'
<1>1. /\ tx.origin \in Eoa /\ Settled(base) /\ RunInv(chain, base, tx.origin)
      /\ Depth \in Nat
  BY RunningFacts
<1>2. \A i \in 1..Depth' : i \in 1..Depth
  BY <1>1
<1>3. Contexts(base, tx.origin)
  BY <1>1 DEF RunInv
<1>4. ASSUME NEW i \in 1..Depth' PROVE Spender(base, tx.origin, frames'[i].caller)
  BY <1>2, <1>3 DEF Contexts, AlikeCaller
<1>5. ASSUME NEW i \in 2..Depth' PROVE Sound(base, tx.origin, frames'[i].parent_state)
  <2>1. i \in 1..Depth' /\ i \in 2..Depth
    BY <1>1
  <2> QED BY <1>3, <2>1 DEF Contexts, AlikeCaller, Alike
<1>6. ASSUME NEW i \in 1..Depth', NEW j \in (i + 1)..Depth'
      PROVE  Born(base, frames'[i], frames'[j].parent_state)
  <2>1. i \in 1..Depth /\ j \in (i + 1)..Depth /\ j \in 1..Depth'
    BY <1>1
  <2>2. Born(base, frames[i], frames[j].parent_state)
    BY <1>3, <2>1 DEF Contexts
  <2>3. frames'[j].parent_state = frames[j].parent_state
    BY <2>1 DEF AlikeCaller, Alike
  <2> QED BY <2>2, <2>3, BornAlike
<1>7. Contexts(base, tx.origin)'
  BY <1>4, <1>5, <1>6 DEF Contexts
<1>8. Present(base, tx.origin)'
  BY BornAlike DEF Present
<1>9. RunInv(chain, base, tx.origin)'
  BY <1>1, <1>7, <1>8 DEF RunInv, RunChain
<1> QED BY <1>1, <1>9 DEF AInv, Ledger, RunChain

\* So does one that replaces the top context by one like it,
LEMMA ReplacedSound ==
  ASSUME IInv, AInv, phase = "run", phase' = "run", tx'.origin = tx.origin, base' = base,
         RunChain(chain', base, tx.origin),
         NEW f \in Frame, AlikeCaller(f, Top), frames' = [frames EXCEPT ![Depth] = f],
         Top.status \notin Reverted, To(state')
  PROVE  AInv'
<1>1. frames \in Seq(Frame) /\ frames # <<>> /\ Depth \in Nat /\ Depth > 0
  BY RunningFacts, TopIsFrame DEF TypeOK
<1>2. /\ Depth' = Depth /\ frames'[Depth] = f
      /\ \A i \in 1..(Depth - 1) : frames'[i] = frames[i]
  BY <1>1, ReplaceTop DEF Depth
<1>3. \A i \in 1..Depth : i \in 1..(Depth - 1) \/ i = Depth
  BY <1>1
<1>4. \A i \in 1..Depth : AlikeCaller(frames'[i], frames[i])
  BY <1>2, <1>3 DEF AlikeCaller, Alike, Top
<1>5. ASSUME NEW i \in 1..Depth PROVE Born(base, frames[i], state')
  <2>1. frames[i] \in Frame /\ Born(base, frames[i], state)
    BY PresentFacts, RunningFacts, TopIsFrame
  <2> QED BY <2>1, BornLater DEF To, Leads
<1>6. Sound(base, tx.origin, state')
  BY DEF To, Leads
<1> QED BY <1>1, <1>2, <1>4, <1>5, <1>6, KeptSound

\* or opens one whose account is born.
Opened(f) ==
  /\ To(f.parent_state)
  /\ Spender(base, tx.origin, f.caller)
  /\ Born(base, f, state')

LEMMA OpenedSound ==
  ASSUME IInv, AInv, phase = "run", phase' = "run", tx'.origin = tx.origin, base' = base,
         chain' = chain, NEW f \in Frame, Opened(f), frames' = Append(frames, f),
         Top.status \notin Reverted, To(state')
  PROVE  AInv'
<1>1. /\ Depth \in Nat /\ Depth > 0 /\ frames \in Seq(Frame)
      /\ \A i \in 1..Depth : frames[i] \in Frame
  BY RunningFacts, TopIsFrame DEF TypeOK
<1>2. /\ Depth' = Depth + 1 /\ frames'[Depth + 1] = f
      /\ \A i \in 1..Depth : frames'[i] = frames[i]
  BY <1>1, PushFrame DEF Depth
<1>3. /\ tx.origin \in Eoa /\ Settled(base) /\ RunInv(chain, base, tx.origin)
      /\ Begun(chain, base, tx.origin)
  BY RunningFacts
<1>4. Contexts(base, tx.origin)
  BY <1>3 DEF RunInv
<1>5. ASSUME NEW s, To(s), NEW i \in 1..Depth PROVE Born(base, frames[i], s)
  <2>1. frames[i] \in Frame /\ Born(base, frames[i], state)
    BY <1>1, PresentFacts
  <2> QED BY <1>5, <2>1, BornLater DEF To, Leads
<1>6. ASSUME NEW i \in 1..Depth' PROVE Spender(base, tx.origin, frames'[i].caller)
  <2>1. i \in 1..Depth \/ i = Depth + 1
    BY <1>1, <1>2
  <2> QED BY <1>2, <1>4, <2>1 DEF Contexts, Opened
<1>7. ASSUME NEW i \in 2..Depth' PROVE Sound(base, tx.origin, frames'[i].parent_state)
  <2>1. (i \in 2..Depth /\ i \in 1..Depth) \/ i = Depth + 1
    BY <1>1, <1>2
  <2> QED BY <1>2, <1>4, <2>1 DEF Contexts, Opened, To, Leads
<1>8. ASSUME NEW i \in 1..Depth', NEW j \in (i + 1)..Depth'
      PROVE  Born(base, frames'[i], frames'[j].parent_state)
  <2>0. i \in 1..Depth
    <3>1. Depth' = Depth + 1 /\ Depth \in Nat
      BY <1>1, <1>2
    <3> HIDE DEF Depth
    <3> QED BY <1>8, <3>1
  <2>1. i \in 1..Depth /\ frames'[i] = frames[i]
    BY <1>2, <2>0
  <2>2. CASE j = Depth + 1
    BY <1>2, <1>5, <2>1, <2>2 DEF Opened
  <2>3. CASE j # Depth + 1
    <3>1. j \in (i + 1)..Depth /\ j \in 1..Depth
      BY <1>1, <1>2, <2>1, <2>3
    <3> QED BY <1>2, <1>4, <2>1, <3>1 DEF Contexts
  <2> QED BY <2>2, <2>3
<1>9. Contexts(base, tx.origin)'
  BY <1>6, <1>7, <1>8 DEF Contexts
<1>10. ASSUME NEW i \in 1..Depth' PROVE Born(base, frames'[i], state')
  <2>1. i \in 1..Depth \/ i = Depth + 1
    BY <1>1, <1>2
  <2> QED BY <1>2, <1>5, <2>1 DEF Opened
<1>11. Sound(base, tx.origin, state')
  BY DEF To, Leads
<1>12. Present(base, tx.origin)'
  BY <1>10, <1>11 DEF Present
<1>13. RunInv(chain, base, tx.origin)'
  BY <1>3, <1>9, <1>12 DEF RunInv
<1> QED BY <1>3, <1>13 DEF AInv, Ledger

-----------------------------------------------------------------------------
(***************************************************************************)
(* Opcodes.                                                                *)
(***************************************************************************)
\* An opcode leads to a sound state, and what it opens is sound.
LeadsToSound ==
  /\ To(state')
  /\ \/ frames' = frames
     \/ StopsTop
     \/ \E f \in Frame : Opened(f) /\ frames' = Append(frames, f)

\* A write that a static context attempts changes nothing.
LEMMA StateModificationErrorSound ==
  ASSUME IInv, AInv, Running, StateModificationError
  PROVE  LeadsToSound
BY StateModificationErrorStops, RunningNotReverted, PresentFacts DEF LeadsToSound

\* The context of a call runs the code of an account that is born.
LEMMA ChildBorn ==
  ASSUME IInv, AInv, Running, Top.has_code, NEW s, To(s), NEW t, Grows(s, t),
         NEW caller \in Addr, NEW to \in Addr, NEW code_address \in Addr,
         NEW is_staticcall \in BOOLEAN, to = code_address \/ to = Top.address
  PROVE  LET child == ChildFrame(s, caller, to, code_address, is_staticcall)
         IN /\ child \in Frame /\ child.parent_state = s /\ child.caller = caller
            /\ Born(base, child, t)
<1> DEFINE child == ChildFrame(s, caller, to, code_address, is_staticcall)
           x == AccountOf(chain, s, code_address)
<1>1. phase = "run" /\ TypeOK
  BY RunningNotReverted DEF IInv
<1>2. /\ s \in State /\ x \in Account
      /\ LawfulAccount(base, tx.origin, code_address, x)
      /\ x.created => Created(s, code_address)
  BY <1>1, Shown
<1>3. child \in Frame
  BY <1>1, <1>2, ChildFrameType
<1>4. /\ child.parent_state = s /\ child.caller = caller /\ child.address = to
      /\ child.is_create = FALSE /\ child.has_code = x.code
  BY DEF ChildFrame
<1>5. CASE to = code_address
  <2>1. x.code => base.code[to] \/ Created(s, to)
    BY <1>2, <1>5 DEF LawfulAccount, Lawful
  <2>2. Created(s, to) => Created(t, to)
    BY DEF Grows
  <2> HIDE DEF child, x
  <2>3. Born(base, child, t)
    BY <1>4, <2>1, <2>2 DEF Born
  <2> QED BY <1>3, <1>4, <2>3 DEF child
<1>6. CASE to = Top.address
  <2>1. base.code[to] \/ Created(s, to)
    BY <1>6, OwnAccount
  <2>2. Created(s, to) => Created(t, to)
    BY DEF Grows
  <2> HIDE DEF child, x
  <2>3. Born(base, child, t)
    BY <1>4, <2>1, <2>2 DEF Born
  <2> QED BY <1>3, <1>4, <2>3 DEF child
<1> QED BY <1>5, <1>6

\* A call without a transfer.
LEMMA EnterCallSound ==
  ASSUME IInv, AInv, Running, Top.has_code, NEW s, To(s),
         NEW caller \in Addr, Spender(base, tx.origin, caller),
         NEW to \in Addr, NEW code_address \in Addr, NEW is_staticcall \in BOOLEAN,
         to = code_address \/ to = Top.address,
         EnterCall(s, caller, to, code_address, is_staticcall)
  PROVE  LeadsToSound
<1> DEFINE child == ChildFrame(s, caller, to, code_address, is_staticcall)
<1>1. state' = s /\ frames' = Append(frames, child)
  BY DEF EnterCall
<1>2. Grows(s, s)
  BY DEF Grows
<1>3. /\ child \in Frame /\ child.parent_state = s /\ child.caller = caller
      /\ Born(base, child, s)
  BY <1>2, ChildBorn
<1> HIDE DEF child
<1>4. Opened(child)
  BY <1>1, <1>3 DEF Opened
<1> QED BY <1>1, <1>3, <1>4 DEF LeadsToSound

\* A call with one.
LEMMA EnterCallWithTransferSound ==
  ASSUME HasLargestValue, IInv, AInv, Running, Top.has_code, NEW s, To(s),
         NEW to \in Addr, NEW value \in Nat, EnterCallWithTransfer(s, to, value)
  PROVE  LeadsToSound
<1> DEFINE child == ChildFrame(s, Top.address, to, to, FALSE)
           halted == Stopped(child, "EXCEPTIONAL_HALT", "none")
           paid == AddTransfer(chain, s, Top.address, to, value)
<1>1. /\ phase = "run" /\ Top.address \in Addr /\ Top.address # tx.origin
      /\ Spender(base, tx.origin, Top.address)
  BY RunningNotReverted, RunningFacts, OwnAccount
<1>2. /\ frames' = Append(frames, child) \/ frames' = Append(frames, halted)
      /\ state' = paid
  BY DEF EnterCallWithTransfer
<1>3. Leads(base, tx.origin, s, paid)
  BY <1>1, TransferLeads
<1> HIDE DEF paid
<1>4. To(paid) /\ Grows(s, paid)
  BY <1>3, LeadsOn DEF To, Leads
<1>5. /\ child \in Frame /\ child.parent_state = s /\ child.caller = Top.address
      /\ Born(base, child, paid)
  BY <1>1, <1>4, ChildBorn
<1> HIDE DEF child
<1>6. /\ halted \in Frame /\ halted.parent_state = s /\ halted.caller = Top.address
      /\ halted.has_code = child.has_code /\ halted.is_create = child.is_create
      /\ halted.address = child.address
  BY <1>5, StatusErrors, StoppedType DEF Stopped, Frame
<1> HIDE DEF halted
<1>7. Opened(child)
  BY <1>1, <1>2, <1>5 DEF Opened
<1>8. Opened(halted)
  BY <1>1, <1>2, <1>5, <1>6 DEF Opened, Born
<1> QED BY <1>2, <1>4, <1>5, <1>6, <1>7, <1>8 DEF LeadsToSound

\* CALL, STATICCALL, CALLCODE and DELEGATECALL.
LEMMA CallsSound ==
  ASSUME HasLargestValue, IInv, AInv, NEW to \in Addr, NEW value \in Nat,
         \/ ExecCall(to, value)
         \/ ExecStaticcall(to)
         \/ ExecCallcode(to, value)
         \/ ExecDelegatecall(to)
  PROVE  LeadsToSound
<1> DEFINE s == CacheAccount(chain, state, to)
<1>1. Running /\ Top.has_code
  BY ExecutesFacts DEF ExecCall, ExecStaticcall, ExecCallcode, ExecDelegatecall, IInv
<1>2. phase = "run" /\ To(state)
  BY <1>1, RunningNotReverted, PresentFacts
<1>3. To(s)
  BY <1>2, CacheLeads
<1>4. /\ Top.address \in Addr /\ Spender(base, tx.origin, Top.address)
      /\ Top.caller \in Addr /\ Spender(base, tx.origin, Top.caller)
  BY <1>1, <1>2, RunningFacts, OwnAccount
<1>5. \/ StateModificationError
      \/ Continue(s)
      \/ EnterCallWithTransfer(s, to, value)
      \/ EnterCall(s, Top.address, to, to, TRUE)
      \/ EnterCall(s, Top.address, Top.address, to, FALSE)
      \/ EnterCall(s, Top.caller, Top.address, to, FALSE)
  BY DEF ExecCall, ExecStaticcall, ExecCallcode, ExecDelegatecall
<1> HIDE DEF s
<1>6. CASE Continue(s)
  BY <1>3, <1>6 DEF Continue, LeadsToSound
<1> QED BY <1>1, <1>3, <1>4, <1>5, <1>6, StateModificationErrorSound, EnterCallSound,
           EnterCallWithTransferSound

\* Counting a creation.
LEMMA CountedSound ==
  ASSUME IInv, AInv, Running, Top.has_code, NEW s, To(s)
  PROVE  /\ To(WithNonceIncremented(s))
         /\ \A a \in Addr \ {Top.address} :
              AccountOf(chain, WithNonceIncremented(s), a) = AccountOf(chain, s, a)
<1> DEFINE old == Self(s)
           new == [old EXCEPT !.nonce = @ + 1]
<1>1. phase = "run" /\ Top.address \in Addr /\ s \in State
  BY RunningNotReverted, RunningFacts DEF To, Leads
<1>2. /\ old \in Account /\ old.nonce > 0 /\ LawfulAccount(base, tx.origin, Top.address, old)
      /\ Created(s, Top.address) => old.created
      /\ Top.address \notin Eoa /\ Top.address # tx.origin
  BY OwnAccount
<1>3. WithNonceIncremented(s) = UpdateAccount(s, Top.address, new)
  BY DEF WithNonceIncremented
<1> HIDE DEF old
<1>4. /\ new \in Account /\ new.nonce = old.nonce + 1 /\ new.code = old.code
      /\ new.slot = old.slot /\ new.created = old.created
  BY <1>2 DEF Account
<1> HIDE DEF new
<1>5. old.nonce \in Nat /\ base.nonce[Top.address] \in Nat
  BY <1>1, <1>2, RunningFacts DEF Account, Chain
<1>6. LawfulAccount(base, tx.origin, Top.address, new)
  BY <1>2, <1>4, <1>5 DEF LawfulAccount, Lawful
<1>7. To(UpdateAccount(s, Top.address, new))
  BY <1>1, <1>2, <1>4, <1>6, WriteLeads
<1>8. \A a \in Addr \ {Top.address} :
        AccountOf(chain, UpdateAccount(s, Top.address, new), a) = AccountOf(chain, s, a)
  BY <1>1, <1>4, UpdateFields DEF AccountOf
<1> QED BY <1>3, <1>7, <1>8

\* Creating an account that has neither a nonce nor code.
LEMMA CreatedSound ==
  ASSUME IInv, AInv, phase = "run", NEW s, To(s), NEW target \in CreateTargets,
         ~HasCodeOrNonce(AccountOf(chain, s, target))
  PROVE  To(CreatedAccount(s, target)) /\ Created(CreatedAccount(s, target), target)
<1> DEFINE old == AccountOf(chain, s, target)
           new == [old EXCEPT !.nonce = 1, !.created = TRUE]
<1>1. /\ target \in Addr /\ target \notin Eoa /\ tx.origin \in Eoa /\ target # tx.origin
      /\ base \in Chain
  BY RunningFacts, AddressAssumption
<1>2. old \in Account /\ LawfulAccount(base, tx.origin, target, old)
  BY <1>1, Shown
<1>3. old.nonce = 0 /\ ~old.code
  BY DEF HasCodeOrNonce
<1>4. CreatedAccount(s, target) = UpdateAccount(s, target, new)
  BY DEF CreatedAccount
<1> HIDE DEF old
<1>5. /\ new \in Account /\ new.nonce = 1 /\ new.code = old.code
      /\ new.slot = old.slot /\ new.created = TRUE
  BY <1>2 DEF Account
<1> HIDE DEF new
<1>6. base.nonce[target] \in Nat /\ base.code[target] \in BOOLEAN /\ old.code \in BOOLEAN
  BY <1>1, <1>2 DEF Account, Chain
<1>7. base.nonce[target] = 0 /\ ~base.code[target]
  BY <1>2, <1>3, <1>6 DEF LawfulAccount, Lawful
<1>8. LawfulAccount(base, tx.origin, target, new)
  BY <1>1, <1>5, <1>7 DEF LawfulAccount, Lawful
<1> QED BY <1>1, <1>4, <1>5, <1>8, WriteLeads

\* CREATE.
LEMMA CreateSound ==
  ASSUME HasLargestValue, IInv, AInv, NEW target \in CreateTargets, NEW value \in Nat,
         ExecCreate(target, value)
  PROVE  LeadsToSound
<1> DEFINE s == CacheAccount(chain, state, target)
           counted == WithNonceIncremented(s)
           created == CreatedAccount(counted, target)
           frame == CreateFrame(counted, target)
           paid == AddTransfer(chain, created, Top.address, target, value)
           collision == HasCodeOrNonce(AccountOf(chain, s, target))
<1>1. Running /\ Top.has_code
  BY ExecutesFacts DEF ExecCreate, IInv
<1>2. phase = "run" /\ To(state) /\ TypeOK
  BY <1>1, RunningNotReverted, PresentFacts DEF IInv
<1>3. /\ target \in Addr /\ Top.address \in Addr /\ Top.address # tx.origin
      /\ Spender(base, tx.origin, Top.address)
  BY <1>1, <1>2, RunningFacts, OwnAccount, AddressAssumption
<1>4. To(s)
  BY <1>2, <1>3, CacheLeads
<1>5. \/ StateModificationError
      \/ Continue(s)
      \/ Continue(counted)
      \/ ~collision /\ frames' = Append(frames, frame) /\ state' = paid
  BY DEF ExecCreate, s, counted
<1> HIDE DEF s
<1>6. To(counted)
  BY <1>1, <1>4, CountedSound
<1>7. CASE Continue(s) \/ Continue(counted)
  BY <1>4, <1>6, <1>7 DEF Continue, LeadsToSound
<1>8. CASE ~collision /\ frames' = Append(frames, frame) /\ state' = paid
  <2>1. AccountOf(chain, s, Top.address).nonce > 0
    BY <1>1, <1>4, OwnAccount DEF Self
  <2>2. Top.address # target
    BY <1>8, <2>1 DEF HasCodeOrNonce
  <2>3. ~HasCodeOrNonce(AccountOf(chain, counted, target))
    BY <1>1, <1>3, <1>4, <1>8, <2>2, CountedSound
  <2> HIDE DEF counted
  <2>4. To(created) /\ Created(created, target)
    BY <1>2, <1>6, <2>3, CreatedSound
  <2> HIDE DEF created
  <2>5. Leads(base, tx.origin, created, paid)
    BY <1>2, <1>3, <2>4, TransferLeads
  <2>6. To(paid) /\ Created(paid, target)
    BY <1>3, <2>4, <2>5, LeadsOn DEF To, Leads, Grows
  <2> HIDE DEF paid
  <2>7. frame \in Frame
    <3>1. /\ chain.cairo \in Nat /\ tx.leaked \in Nat /\ counted \in State
          /\ Top.cairo_precompile_called \in Felt
      BY <1>2, <1>6, TypesOfVariables, TopIsFrame, TopFields DEF To, Leads
    <3> QED BY <1>3, <3>1 DEF CreateFrame, Frame, Status, Output
  <2>8. /\ frame.parent_state = counted /\ frame.caller = Top.address
        /\ frame.address = target
    BY DEF CreateFrame
  <2> HIDE DEF frame
  <2>9. Opened(frame)
    BY <1>3, <1>6, <1>8, <2>6, <2>8 DEF Opened, Born
  <2> QED BY <1>8, <2>6, <2>7, <2>9 DEF LeadsToSound
<1> QED BY <1>1, <1>5, <1>7, <1>8, StateModificationErrorSound

\* SSTORE and LOG.
LEMMA StoresSound ==
  ASSUME IInv, AInv, NEW value \in Word, ExecSstore(value) \/ ExecLog
  PROVE  LeadsToSound
<1> DEFINE old == Self(state)
           new == [old EXCEPT !.slot = value]
           written == UpdateAccount(state, Top.address, new)
           logged == [state EXCEPT !.events = @ + 1]
<1>1. Running /\ Top.has_code
  BY ExecutesFacts DEF ExecSstore, ExecLog, IInv
<1>2. /\ phase = "run" /\ To(state) /\ Top.address \in Addr /\ state \in State
  BY <1>1, RunningNotReverted, PresentFacts, RunningFacts
<1>3. StateModificationError \/ Continue(written) \/ Continue(logged)
  BY DEF ExecSstore, ExecLog
<1>4. To(written)
  <2>1. /\ old \in Account /\ old.nonce > 0 /\ LawfulAccount(base, tx.origin, Top.address, old)
        /\ Created(state, Top.address) => old.created
        /\ Top.address # tx.origin
    BY <1>1, <1>2, OwnAccount
  <2> HIDE DEF old
  <2>2. /\ new \in Account /\ new.nonce = old.nonce /\ new.code = old.code
        /\ new.created = old.created
    BY <2>1 DEF Account
  <2> HIDE DEF new
  <2>3. LawfulAccount(base, tx.origin, Top.address, new)
    BY <2>1, <2>2 DEF LawfulAccount, Lawful
  <2> QED BY <1>2, <2>1, <2>2, <2>3, WriteLeads
<1>5. To(logged)
  <2>1. /\ logged \in State
        /\ logged.transfers = state.transfers /\ logged.cached = state.cached
        /\ logged.accounts = state.accounts
    BY <1>2 DEF State
  <2> HIDE DEF logged
  <2>2. SpendersOnly(base, tx.origin, logged) <=> SpendersOnly(base, tx.origin, state)
    BY <2>1 DEF SpendersOnly
  <2> QED BY <1>2, <2>1, <2>2 DEF To, Leads, Sound, Grows, Created
<1> HIDE DEF written, logged
<1>6. CASE Continue(written) \/ Continue(logged)
  BY <1>4, <1>5, <1>6 DEF Continue, LeadsToSound
<1> QED BY <1>1, <1>3, <1>6, StateModificationErrorSound

\* SELFDESTRUCT.
LEMMA SelfdestructSound ==
  ASSUME HasLargestValue, IInv, AInv, NEW named \in Addr, ExecSelfdestruct(named)
  PROVE  LeadsToSound
<1> DEFINE s == CacheAccount(chain, state, named)
           recipient == IF Self(s).created /\ named = Top.address THEN BurnAddress ELSE named
           warm == CacheAccount(chain, s, recipient)
           swept == AddTransfer(chain, warm, Top.address, recipient, Self(s).balance)
           new == [Self(swept) EXCEPT !.selfdestruct = TRUE]
           marked == UpdateAccount(swept, Top.address, new)
<1>1. Running /\ Top.has_code
  BY ExecutesFacts DEF ExecSelfdestruct, IInv
<1>2. /\ phase = "run" /\ To(state) /\ Top.address \in Addr /\ recipient \in Addr
  BY <1>1, RunningNotReverted, PresentFacts, RunningFacts, BoundsOfInputs
<1>3. \/ StateModificationError
      \/ state' = marked /\ StopTop("success", "none")
  BY DEF ExecSelfdestruct
<1>4. Top.address # tx.origin /\ Spender(base, tx.origin, Top.address)
  BY <1>1, <1>2, OwnAccount
<1>5. To(s)
  BY <1>2, CacheLeads
<1> HIDE DEF s, recipient
<1>6. To(warm)
  BY <1>2, <1>5, CacheLeads
<1>7. Self(s).balance \in Nat
  BY <1>1, <1>5, OwnAccount DEF Account
<1> HIDE DEF warm
<1>8. To(swept)
  <2>1. Leads(base, tx.origin, warm, swept)
    BY <1>2, <1>4, <1>6, <1>7, TransferLeads
  <2> HIDE DEF swept
  <2> QED BY <1>6, <2>1, LeadsOn DEF To
<1> HIDE DEF swept
<1>9. To(marked)
  <2>1. /\ Self(swept) \in Account
        /\ LawfulAccount(base, tx.origin, Top.address, Self(swept))
        /\ Created(swept, Top.address) => Self(swept).created
    BY <1>1, <1>8, OwnAccount
  <2>2. /\ new \in Account /\ new.nonce = Self(swept).nonce /\ new.code = Self(swept).code
        /\ new.created = Self(swept).created /\ new.slot = Self(swept).slot
    BY <2>1 DEF Account
  <2> HIDE DEF new
  <2>3. LawfulAccount(base, tx.origin, Top.address, new)
    BY <2>1, <2>2 DEF LawfulAccount, Lawful
  <2> QED BY <1>2, <1>4, <1>8, <2>1, <2>2, <2>3, WriteLeads
<1> HIDE DEF marked
<1>10. CASE state' = marked /\ StopTop("success", "none")
  BY <1>9, <1>10, StatusErrors, StopTopStops DEF LeadsToSound
<1> QED BY <1>1, <1>3, <1>10, StateModificationErrorSound

\* Every opcode.
LEMMA OpcodeSound ==
  ASSUME HasLargestValue, IInv, AInv, Opcode
  PROVE  LeadsToSound
<1>1. CASE \E to \in Callees, value \in Values : ExecCall(to, value) \/ ExecCallcode(to, value)
  BY <1>1, BoundsOfInputs, CallsSound
<1>2. CASE \E to \in Callees : ExecStaticcall(to) \/ ExecDelegatecall(to)
  <2>1. 0 \in Nat
    OBVIOUS
  <2> QED BY <1>2, <2>1, BoundsOfInputs, CallsSound
<1>3. CASE \E target \in CreateTargets, value \in Values : ExecCreate(target, value)
  BY <1>3, BoundsOfInputs, CreateSound
<1>4. CASE \E to \in Callees : ExecSelfdestruct(to)
  BY <1>4, BoundsOfInputs, SelfdestructSound
<1>5. CASE (\E value \in Word : ExecSstore(value)) \/ ExecLog
  BY <1>5, WordAssumption, StoresSound
<1> QED BY <1>1, <1>2, <1>3, <1>4, <1>5 DEF Opcode

\* A stopped context is like itself.
LEMMA StoppedAlikeCaller ==
  ASSUME NEW frame \in Frame, NEW status \in Status, NEW output \in Output
  PROVE  AlikeCaller(Stopped(frame, status, output), frame)
BY StoppedAlike DEF AlikeCaller, Stopped, Frame

\* What does not touch Starknet's storage leaves it as the execution may.
LEMMA SameRunChain ==
  ASSUME IInv, AInv, phase = "run", chain' = chain
  PROVE  RunChain(chain', base, tx.origin)
BY RunningFacts DEF RunInv, RunChain

\* Stopping a context that runs preserves the invariant.
LEMMA StopsTopSound ==
  ASSUME IInv, AInv, Running, phase' = "run", tx'.origin = tx.origin, base' = base,
         RunChain(chain', base, tx.origin), To(state'), StopsTop
  PROVE  AInv'
<1>1. PICK status \in Status \ {"running"}, output \in Output :
        frames' = [frames EXCEPT ![Depth] = Stopped(Top, status, output)]
  BY DEF StopsTop
<1>2. phase = "run" /\ Top.status \notin Reverted /\ Top \in Frame
  BY RunningNotReverted, RunningFacts
<1>3. /\ Stopped(Top, status, output) \in Frame
      /\ AlikeCaller(Stopped(Top, status, output), Top)
  BY <1>2, StoppedType, StoppedAlikeCaller
<1> QED BY <1>1, <1>2, <1>3, ReplacedSound

\* Opcodes preserve the invariant.
LEMMA OpcodeKeepsAtomic ==
  ASSUME HasLargestValue, IInv, AInv, Opcode
  PROVE  AInv'
<1>1. /\ Running /\ phase = "run" /\ phase' = "run" /\ tx' = tx /\ chain' = chain /\ base' = base
  BY OpcodeShape DEF ContextStep, Running, IInv
<1>2. LeadsToSound
  BY OpcodeSound
<1>3. Top.status \notin Reverted /\ To(state') /\ RunChain(chain', base, tx.origin)
  BY <1>1, <1>2, RunningNotReverted, SameRunChain DEF LeadsToSound
<1>4. CASE frames' = frames
  <2>1. Depth' = Depth /\ Top \in Frame /\ frames \in Seq(Frame) /\ frames # <<>>
    BY <1>1, <1>4, RunningFacts DEF Depth, TypeOK
  <2>2. frames' = [frames EXCEPT ![Depth] = Top]
    BY <1>4, <2>1 DEF Top
  <2> QED BY <1>1, <1>3, <2>1, <2>2, ReplacedSound DEF AlikeCaller, Alike
<1>5. CASE StopsTop
  BY <1>1, <1>3, <1>5, StopsTopSound
<1>6. CASE \E f \in Frame : Opened(f) /\ frames' = Append(frames, f)
  BY <1>1, <1>3, <1>6, OpenedSound
<1> QED BY <1>2, <1>4, <1>5, <1>6 DEF LeadsToSound

-----------------------------------------------------------------------------
(***************************************************************************)
(* The end of a context.                                                   *)
(***************************************************************************)
\* A transaction that Starknet reverts leaves the storage it found.
LEMMA AbortKeepsAtomic ==
  ASSUME IInv, AInv, phase # "idle", Abort
  PROVE  AInv'
<1>1. /\ chain' = base /\ base' = base /\ phase' = "idle" /\ tx'.origin = tx.origin
      /\ tx'.status = "aborted"
  BY TypesOfVariables DEF Abort, Transaction, IInv
<1>2. Settled(base) /\ tx.origin \in Eoa
  BY DEF AInv, Ledger
<1> QED BY <1>1, <1>2 DEF AInv, Ledger

\* Cairo calls move tokens of the caller only, which has code or sent the transaction.
LEMMA CairoCallsSound ==
  ASSUME IsFiniteSet(Addr), IInv, AInv, phase = "run", NEW n \in Nat, n > 0,
         NEW balance \in BalancesAfterCairoCalls
  PROVE  RunChain(AfterCairoCalls(n, balance), base, tx.origin)
<1> DEFINE c == AfterCairoCalls(n, balance)
           x == Top.caller
<1>1. /\ chain \in Chain /\ base \in Chain /\ TypeOK
      /\ Begun(chain, base, tx.origin) /\ RunInv(chain, base, tx.origin)
      /\ x \in Addr /\ Spender(base, tx.origin, x)
  BY RunningFacts
<1>2. c \in Chain /\ c.cairo = chain.cairo + n
  BY <1>1, AfterCairoCallsType
<1>3. /\ c.balance = balance /\ c.nonce = chain.nonce /\ c.code = chain.code
      /\ c.slot = chain.slot /\ c.events = chain.events
      /\ c.registered = chain.registered \cup {x}
  BY <1>1 DEF AfterCairoCalls, Chain
<1>4. /\ chain.balance \in [Addr -> Nat] /\ balance \in [Addr -> Nat]
      /\ chain.cairo \in Nat /\ base.cairo \in Nat
      /\ base.balance \in [Addr -> Nat]
  BY <1>1, <1>2, <1>3 DEF Chain
<1> HIDE DEF c
<1>5. /\ SumFunction(balance) = SumFunction(chain.balance)
      /\ \A a \in Addr \ {x} : balance[a] >= chain.balance[a]
  <2>1. CASE balance = chain.balance
    BY <1>4, <2>1
  <2>2. CASE balance # chain.balance
    <3>1. PICK a \in Addr \ {x}, amount \in {v \in Values : v <= chain.balance[Top.caller]} :
            balance = NativeMoved(a, amount)
      BY <2>2 DEF BalancesAfterCairoCalls
    <3>2. balance = [chain.balance EXCEPT ![x] = @ - amount, ![a] = @ + amount]
      BY <3>1 DEF NativeMoved
    <3>3. amount \in Nat
      BY BoundsOfInputs
    <3> HIDE DEF x
    <3>4. /\ balance[x] = chain.balance[x] - amount
          /\ balance[a] = chain.balance[a] + amount
          /\ \A e \in Addr \ {x, a} : balance[e] = chain.balance[e]
      BY <1>1, <1>4, <3>1, <3>2
    <3>5. SumFunction(balance) = SumFunction(chain.balance)
      BY <1>1, <1>4, <3>1, <3>3, <3>4, SumMoved
    <3>6. ASSUME NEW e \in Addr \ {x} PROVE balance[e] >= chain.balance[e]
      <4>1. balance[e] \in Nat /\ chain.balance[e] \in Nat
        BY <1>4
      <4>2. balance[e] = chain.balance[e] \/ balance[e] = chain.balance[e] + amount
        BY <3>4
      <4> QED BY <3>3, <4>1, <4>2
    <3> QED BY <3>5, <3>6
  <2> QED BY <2>1, <2>2
<1>6. Begun(c, base, tx.origin)
  <2>1. c.cairo >= base.cairo
    BY <1>1, <1>2, <1>4 DEF Begun
  <2>2. ASSUME NEW a \in Addr, ~Spender(base, tx.origin, a) PROVE c.balance[a] >= base.balance[a]
    <3>1. chain.balance[a] >= base.balance[a] /\ a # x
      BY <1>1, <2>2 DEF Begun
    <3>2. balance[a] >= chain.balance[a]
      BY <1>5, <3>1
    <3> QED BY <1>3, <1>4, <3>1, <3>2
  <2>3. Supply(c) = Supply(base)
    BY <1>1, <1>3, <1>5 DEF Begun, Supply
  <2>4. base.registered \subseteq c.registered
    BY <1>1, <1>3 DEF Begun
  <2> QED BY <2>1, <2>2, <2>3, <2>4 DEF Begun
<1>7. c.cairo # base.cairo
  BY <1>1, <1>2, <1>4 DEF Begun
<1>8. \A a \in Addr : Kept(c, base, a)
  BY <1>1, <1>3 DEF RunInv, Kept
<1>9. c.events = base.events
  BY <1>1, <1>3 DEF RunInv
<1>10. ~CairoMovesNative => c.balance = base.balance
  BY <1>1, <1>3 DEF RunInv, BalancesAfterCairoCalls
<1> QED BY <1>6, <1>7, <1>8, <1>9, <1>10 DEF RunChain, c

\* Stopping a precompile preserves the invariant.
LEMMA StopPrecompileSound ==
  ASSUME IInv, AInv, Running, phase' = "run", tx'.origin = tx.origin,
         base' = base, state' = state, RunChain(chain', base, tx.origin),
         NEW status \in Status \ {"running"}, NEW called \in Felt, StopPrecompile(status, called)
  PROVE  AInv'
<1> DEFINE f == [Stopped(Top, status, "none") EXCEPT !.cairo_precompile_called = called]
<1>1. phase = "run" /\ Top.status \notin Reverted /\ Top \in Frame /\ To(state) /\ TypeOK
  BY RunningNotReverted, RunningFacts, PresentFacts
<1>2. /\ Stopped(Top, status, "none") \in Frame
      /\ AlikeCaller(Stopped(Top, status, "none"), Top)
  BY <1>1, StatusErrors, StoppedType, StoppedAlikeCaller
<1>3. f \in Frame /\ AlikeCaller(f, Top)
  BY <1>2 DEF Frame, AlikeCaller, Alike
<1>4. frames' = [frames EXCEPT ![Depth] = f]
  BY <1>1, TopIsFrame DEF StopPrecompile, Top
<1> HIDE DEF f
<1>5. To(state')
  BY <1>1 DEF To
<1> QED BY <1>1, <1>3, <1>4, <1>5, ReplacedSound

\* The end of any context preserves the invariant.
LEMMA EndKeepsAtomic ==
  ASSUME IsFiniteSet(Addr), IInv, AInv, End
  PROVE  AInv'
<1>1. CASE ExecReturn \/ ExecRevert \/ ExceptionalHalt
  <2>1. /\ Running /\ phase = "run" /\ phase' = "run" /\ tx' = tx /\ chain' = chain /\ base' = base
        /\ state' = state
    BY <1>1 DEF ExecReturn, ExecRevert, ExceptionalHalt, Ends, Running
  <2>2. StopsTop
    BY <1>1, StatusErrors, StopTopStops DEF ExecReturn, ExecRevert, ExceptionalHalt, Output
  <2>3. To(state')
    BY <2>1, RunningNotReverted, PresentFacts DEF To
  <2> QED BY <2>1, <2>2, <2>3, SameRunChain, StopsTopSound
<1>2. CASE CairoCallPanics
  BY <1>2, AbortKeepsAtomic DEF CairoCallPanics, InPrecompile, Running
<1>3. CASE EthPrecompile \/ CairoPrecompileRefuses
  <2>1. PICK status \in Status \ {"running"} : StopPrecompile(status, 0)
    BY <1>3, StatusErrors DEF EthPrecompile, CairoPrecompileRefuses
  <2>2. /\ Running /\ phase = "run" /\ 0 \in Felt
        /\ chain' = chain /\ base' = base /\ phase' = phase /\ tx' = tx /\ state' = state
    BY <1>3, InPrecompileFacts DEF EthPrecompile, CairoPrecompileRefuses, IInv
  <2> QED BY <2>1, <2>2, SameRunChain, StopPrecompileSound
<1>4. CASE CairoPrecompileExecutes
  <2>1. PICK n \in IF Top.code_address = CairoMulticall THEN 0..MaxBatch ELSE {1},
             balance \in BalancesAfterCairoCalls, status \in {"success", "EXCEPTIONAL_HALT"} :
          /\ chain' = IF n = 0 THEN chain ELSE AfterCairoCalls(n, balance)
          /\ StopPrecompile(status, 1)
    BY <1>4 DEF CairoPrecompileExecutes
  <2>2. /\ Running /\ phase = "run" /\ 1 \in Felt /\ status \in Status \ {"running"}
        /\ base' = base /\ phase' = phase /\ tx' = tx /\ state' = state
    BY <1>4, InPrecompileFacts, StatusErrors DEF CairoPrecompileExecutes, IInv
  <2>3. n \in Nat
    BY LimitAssumption
  <2>4. RunChain(chain', base, tx.origin)
    <3>1. CASE n = 0
      BY <2>1, <2>2, <3>1, SameRunChain
    <3>2. CASE n # 0
      <4>1. n > 0
        BY <2>3, <3>2
      <4>2. RunChain(AfterCairoCalls(n, balance), base, tx.origin)
        BY <2>2, <2>3, <4>1, CairoCallsSound
      <4> QED BY <2>1, <3>2, <4>2
    <3> QED BY <3>1, <3>2
  <2> QED BY <2>1, <2>2, <2>4, StopPrecompileSound
<1>5. CASE CairoBatchFails
  <2>1. PICK n \in 1..(MaxBatch - 1), balance \in BalancesAfterCairoCalls :
          /\ chain' = AfterCairoCalls(n, balance)
          /\ tx' = [tx EXCEPT !.leaked = @ + n]
    BY <1>5 DEF CairoBatchFails
  <2>2. /\ Running /\ phase = "run" /\ 0 \in Felt /\ StopPrecompile("EXCEPTIONAL_HALT", 0)
        /\ base' = base /\ phase' = phase /\ state' = state
    BY <1>5, InPrecompileFacts DEF CairoBatchFails, IInv
  <2>3. RunChain(AfterCairoCalls(n, balance), base, tx.origin)
    <3>1. n \in Nat /\ n > 0
      BY LimitAssumption
    <3> QED BY <2>2, <3>1, CairoCallsSound
  <2>4. tx'.origin = tx.origin
    BY <2>1, TypesOfVariables DEF Transaction, IInv
  <2>5. RunChain(chain', base, tx.origin)
    BY <2>1, <2>3
  <2> QED BY <2>2, <2>4, <2>5, StatusErrors, StopPrecompileSound
<1> QED BY <1>1, <1>2, <1>3, <1>4, <1>5 DEF End

\* The caller goes on with a state that a sound one leads to.
LEMMA ResumeSound ==
  ASSUME IInv, AInv, phase = "run", Depth > 1, NEW x, NEW s, Leads(base, tx.origin, x, s),
         \A i \in 1..(Depth - 1) : Born(base, frames[i], x), Resume(s)
  PROVE  AInv'
<1>1. TypeOK /\ Depth \in Nat /\ \A i \in 1..Depth : frames[i] \in Frame
  BY RunningFacts, TopIsFrame
<1>2. /\ Depth' = Depth - 1
      /\ \A i \in 1..(Depth - 2) : frames'[i] = frames[i]
      /\ frames'[Depth - 1] = [Parent EXCEPT !.cairo_precompile_called = CairoCalled]
  BY <1>1, ResumedFrames
<1>3. Parent \in Frame
  BY <1>1 DEF Parent
<1>4. AlikeCaller([Parent EXCEPT !.cairo_precompile_called = CairoCalled], Parent)
  BY <1>3 DEF Frame, Alike, AlikeCaller
<1>5. \A i \in 1..Depth' : i \in 1..(Depth - 2) \/ i = Depth - 1
  BY <1>1, <1>2
<1>6. \A i \in 1..Depth' : AlikeCaller(frames'[i], frames[i])
  BY <1>2, <1>4, <1>5 DEF Parent, AlikeCaller, Alike
<1>7. /\ phase' = "run" /\ chain' = chain /\ base' = base /\ state' = s
      /\ tx'.origin = tx.origin
  BY <1>1, TypesOfVariables DEF Resume, Transaction
<1>8. ASSUME NEW i \in 1..Depth' PROVE Born(base, frames[i], state')
  <2>1. i \in 1..(Depth - 1) /\ frames[i] \in Frame
    BY <1>1, <1>2
  <2> QED BY <1>7, <2>1, BornLater DEF Leads
<1>9. Sound(base, tx.origin, state')
  BY <1>7 DEF Leads
<1>10. Depth' <= Depth /\ Depth' \in Nat /\ Depth' > 0
  BY <1>1, <1>2
<1>11. RunChain(chain', base, tx.origin)
  BY <1>7, SameRunChain
<1> QED BY <1>6, <1>7, <1>8, <1>9, <1>10, <1>11, KeptSound

\* What a context restores is sound.
LEMMA ParentStateSound ==
  ASSUME IInv, AInv, phase = "run", Depth > 1
  PROVE  /\ Top.parent_state \in State /\ Sound(base, tx.origin, Top.parent_state)
         /\ \A i \in 1..(Depth - 1) : Born(base, frames[i], Top.parent_state)
<1>1. Depth \in Nat /\ Top \in Frame /\ Contexts(base, tx.origin)
  BY RunningFacts DEF RunInv
<1>2. /\ Depth \in 2..Depth
      /\ \A i \in 1..(Depth - 1) : i \in 1..Depth /\ Depth \in (i + 1)..Depth
  BY <1>1
<1> QED BY <1>1, <1>2, TopFields DEF Contexts, Top

\* The code that a creation returns is that of an account it created.
LEMMA WithCodeSound ==
  ASSUME IInv, AInv, phase = "run", Top.status \notin Reverted, Top.is_create
  PROVE  To(WithCode(state, Top))
<1> DEFINE old == AccountOf(chain, state, Top.address)
           new == [old EXCEPT !.code = Top.output = "code", !.created = TRUE]
<1>1. /\ To(state) /\ Created(state, Top.address) /\ Top.address \in Addr
      /\ tx.origin \in Eoa
  BY PresentFacts, RunningFacts DEF Born
<1>2. old \in Account /\ LawfulAccount(base, tx.origin, Top.address, old) /\ old.created
  BY <1>1, Shown DEF Created, AccountOf
<1>3. Top.address # tx.origin
  BY <1>1, <1>2, AddressAssumption DEF LawfulAccount, Lawful
<1>4. WithCode(state, Top) = UpdateAccount(state, Top.address, new)
  BY DEF WithCode
<1> HIDE DEF old
<1>5. /\ new \in Account /\ new.nonce = old.nonce /\ new.slot = old.slot /\ new.created = TRUE
  BY <1>2 DEF Account
<1> HIDE DEF new
<1>6. LawfulAccount(base, tx.origin, Top.address, new)
  BY <1>2, <1>5 DEF LawfulAccount, Lawful
<1> QED BY <1>1, <1>3, <1>4, <1>5, <1>6, WriteLeads

\* The end of a call, and of a creation, preserve the invariant.
LEMMA FinalizeCallKeepsAtomic ==
  ASSUME IInv, AInv, FinalizeCall
  PROVE  AInv'
<1>1. phase = "run" /\ Depth > 1
  BY DEF FinalizeCall, TopStopped
<1>2. /\ chain \in Chain /\ base \in Chain /\ Reads(chain, base) /\ tx.origin \in Eoa
      /\ Top.code_address \in Addr /\ Depth \in Nat
  BY <1>1, RunningFacts, TopFields
<1>3. CASE Abort
  BY <1>1, <1>3, AbortKeepsAtomic
<1>4. CASE Resume(CacheAccount(chain, Top.parent_state, Top.code_address))
  <2>1. /\ Top.parent_state \in State /\ Sound(base, tx.origin, Top.parent_state)
        /\ \A i \in 1..(Depth - 1) : Born(base, frames[i], Top.parent_state)
    BY <1>1, ParentStateSound
  <2>2. Leads(base, tx.origin, Top.parent_state,
              CacheAccount(chain, Top.parent_state, Top.code_address))
    BY <1>2, <2>1, CacheSound
  <2> QED BY <1>1, <1>4, <2>1, <2>2, ResumeSound
<1>5. CASE ~HasReverted /\ Resume(CacheAccount(chain, state, Top.code_address))
  <2>1. To(state) /\ \A i \in 1..Depth : Born(base, frames[i], state)
    BY <1>1, <1>5, PresentFacts DEF HasReverted
  <2>2. \A i \in 1..(Depth - 1) : Born(base, frames[i], state)
    <3>1. \A i \in 1..(Depth - 1) : i \in 1..Depth
      BY <1>2
    <3> QED BY <2>1, <3>1
  <2>3. Leads(base, tx.origin, state, CacheAccount(chain, state, Top.code_address))
    BY <1>1, <1>2, <2>1, CacheLeads DEF To
  <2> QED BY <1>1, <1>5, <2>2, <2>3, ResumeSound
<1> QED BY <1>3, <1>4, <1>5 DEF FinalizeCall

LEMMA FinalizeCreateKeepsAtomic ==
  ASSUME IInv, AInv, FinalizeCreate
  PROVE  AInv'
<1>1. phase = "run" /\ Depth > 1 /\ Top.is_create
  BY DEF FinalizeCreate, TopStopped
<1>2. Depth \in Nat /\ tx.origin \in Eoa
  BY <1>1, RunningFacts
<1>3. CASE Abort
  BY <1>1, <1>3, AbortKeepsAtomic
<1>4. CASE Resume(Top.parent_state)
  <2>1. /\ Leads(base, tx.origin, Top.parent_state, Top.parent_state)
        /\ \A i \in 1..(Depth - 1) : Born(base, frames[i], Top.parent_state)
    BY <1>1, ParentStateSound, LeadsNowhere
  <2> QED BY <1>1, <1>4, <2>1, ResumeSound
<1>5. CASE ~CreationFails /\ Resume(WithCode(state, Top))
  <2>1. Top.status \notin Reverted
    BY <1>5 DEF CreationFails, HasReverted
  <2>2. To(WithCode(state, Top)) /\ \A i \in 1..Depth : Born(base, frames[i], state)
    BY <1>1, <2>1, WithCodeSound, PresentFacts
  <2>3. \A i \in 1..(Depth - 1) : Born(base, frames[i], state)
    <3>1. \A i \in 1..(Depth - 1) : i \in 1..Depth
      BY <1>2
    <3> QED BY <2>2, <3>1
  <2> QED BY <1>1, <1>5, <2>2, <2>3, ResumeSound DEF To
<1> QED BY <1>3, <1>4, <1>5 DEF FinalizeCreate

-----------------------------------------------------------------------------
(***************************************************************************)
(* The fee.                                                                 *)
(***************************************************************************)
\* What is known of a transaction that no batch and no wrapped record has spoilt.
Tame == ~tx.wrapped /\ tx.leaked = 0

\* The token's supply, which no balance can overflow.
SupplyFits == SumFunction(GenesisBalance) <= MaxUint

\* Paying the fee out of what was reserved leaves the sender solvent.
LEMMA PayFeeSound ==
  ASSUME HasLargestValue, IInv, AInv, phase = "run", NEW s, To(s), NEW fee \in 1..MaxFee
  PROVE  PayFee(s, fee) \in State /\ Sound(base, tx.origin, PayFee(s, fee))
<1> DEFINE o == tx.origin
           old == AccountOf(chain, s, o)
           new == [old EXCEPT !.balance = @ + MaxFee]
           freed == UpdateAccount(s, o, new)
<1>1. /\ chain \in Chain /\ base \in Chain /\ Reads(chain, base)
      /\ tx.origin \in Eoa /\ tx.origin \in Addr /\ Coinbase \in Addr
      /\ MaxFee \in Nat /\ fee \in Nat /\ fee <= MaxFee /\ LargestValue \in Nat
      /\ s \in State /\ Sound(base, tx.origin, s)
  BY RunningFacts, BoundsOfInputs, AmountAssumption, LargestValueBounds DEF To, Leads
<1>2. PayFee(s, fee) = AddTransfer(chain, freed, o, Coinbase, fee)
  BY DEF PayFee
<1> HIDE DEF o
<1>3. /\ o \in Eoa /\ o \in Addr /\ Sound(base, o, s)
      /\ old \in Account /\ LawfulAccount(base, o, o, old) /\ Solvent(base, o, old)
      /\ Created(s, o) => old.created
  <2>1. o \in Eoa /\ o \in Addr /\ Sound(base, o, s)
    BY <1>1 DEF o
  <2>2. Created(s, o) => old.created
    BY DEF Created, AccountOf
  <2> QED BY <1>1, <2>1, <2>2, ShownLawful
<1> HIDE DEF old
<1>4. /\ new \in Account /\ new.balance = old.balance + MaxFee /\ new.nonce = old.nonce
      /\ new.code = old.code /\ new.slot = old.slot /\ new.created = old.created
      /\ old.balance \in Nat /\ base.balance[o] \in Nat
  BY <1>1, <1>3 DEF Account, Chain
<1> HIDE DEF new
<1>5. Solvent(base, o, new)
  BY <1>1, <1>3, <1>4 DEF Solvent
<1>6. LawfulAccount(base, o, o, new)
  BY <1>3, <1>4 DEF LawfulAccount
<1>7. freed \in State /\ Sound(base, o, freed)
  BY <1>1, <1>3, <1>4, <1>5, <1>6, UpdateSound DEF Leads
<1>8. freed.accounts[o].balance = old.balance + MaxFee
  <2>1. s \in State /\ o \in Addr /\ new \in Account
    BY <1>1, <1>3, <1>4
  <2>2. freed.accounts[o] = new
    BY <2>1, UpdateFields
  <2> QED BY <1>4, <2>2
<1> HIDE DEF freed
<1>9. freed.accounts[o].balance - fee + MaxFee + LargestValue >= base.balance[o]
  BY <1>1, <1>3, <1>4, <1>8 DEF Solvent
<1>10. Spender(base, o, o)
  BY DEF Spender
<1>11. Leads(base, o, freed, AddTransfer(chain, freed, o, Coinbase, fee))
  BY <1>1, <1>3, <1>7, <1>9, <1>10, TransferSound
<1> QED BY <1>2, <1>11 DEF Leads, o

\* A transaction that succeeds goes on to the commit with a sound state.
LEMMA SettleSuccess ==
  ASSUME IInv, AInv, phase = "run", NEW fee, NEW s \in State, Sound(base, tx.origin, s),
         Settle("success", fee, s)
  PROVE  AInv'
<1>1. /\ TypeOK /\ chain \in Chain /\ base \in Chain /\ tx.origin \in Eoa
      /\ Settled(base) /\ Begun(chain, base, tx.origin) /\ RunInv(chain, base, tx.origin)
  BY RunningFacts
<1>2. /\ chain' = chain /\ base' = base /\ phase' = "accounts"
      /\ state' = s /\ tx'.origin = tx.origin /\ tx'.status = "success" /\ to_commit' = s.cached
  BY <1>1, TypesOfVariables DEF Settle, Transaction
<1>3. \A a \in Addr : Kept(chain, base, a)
  BY <1>1 DEF RunInv
<1>4. ASSUME NEW a \in Addr \ s.cached PROVE LawfulStored(chain, base, tx.origin, a)
  <2>1. a # tx.origin /\ base.nonce[a] \in Nat
    BY <1>1 DEF Sound, Chain
  <2> QED BY <1>3, <2>1 DEF LawfulStored, Lawful, Kept
<1>5. chain.events >= base.events
  BY <1>1 DEF RunInv, Chain
<1>6. /\ tx.origin \in s.cached /\ Solvent(base, tx.origin, s.accounts[tx.origin])
      /\ SpendersOnly(base, tx.origin, s)
      /\ \A a \in s.cached : LawfulAccount(base, tx.origin, a, s.accounts[a])
  BY DEF Sound
<1>7. SuccessInv(chain, base, tx.origin)'
  BY <1>2, <1>4, <1>5, <1>6 DEF SuccessInv
<1>8. CommitInv(chain, base, tx.origin)'
  BY <1>2, <1>3, <1>7 DEF CommitInv
<1> QED BY <1>1, <1>2, <1>8 DEF AInv, Ledger

\* After a revert the fee can be paid: the sender has it, and the token's supply
\* bounds what the coinbase gets.
LEMMA PayFeeAfterRevertPlain ==
  ASSUME IsFiniteSet(Addr), SupplyFits, IInv, AInv, phase = "run",
         chain.balance = base.balance, NEW fee \in 1..MaxFee
  PROVE  LET t == PayFeeAfterRevert(fee)
         IN /\ t \in State /\ t.events = 0 /\ tx.origin \in t.cached
            /\ \A a \in t.cached :
                 /\ t.accounts[a].nonce = base.nonce[a] + (IF a = tx.origin THEN 1 ELSE 0)
                 /\ t.accounts[a].slot = base.slot[a] /\ ~t.accounts[a].created
            /\ IF tx.origin = Coinbase THEN t.transfers = <<>>
               ELSE t.transfers = <<FeeTransfer(tx.origin, fee)>>
            /\ fee <= base.balance[tx.origin]
<1> DEFINE o == tx.origin
           old == FetchAccount(chain, o)
           new == [old EXCEPT !.nonce = @ + 1]
           counted == UpdateAccount(InitState, o, new)
           t == AddTransfer(chain, counted, o, Coinbase, fee)
<1>1. /\ chain \in Chain /\ base \in Chain /\ Reads(chain, base)
      /\ tx.origin \in Addr /\ Coinbase \in Addr /\ InitState \in State
      /\ MaxFee \in Nat /\ fee \in Nat /\ fee <= MaxFee /\ fee # 0
      /\ RunInv(chain, base, tx.origin) /\ Settled(base)
  BY RunningFacts, BoundsOfInputs, AmountAssumption, InitStateType
<1>2. PayFeeAfterRevert(fee) = t
  BY DEF PayFeeAfterRevert, AccountOf, InitState
<1> HIDE DEF o
<1>3. o \in Addr
  BY <1>1 DEF o
<1>4. /\ old \in Account /\ old.nonce = base.nonce[o] /\ old.slot = base.slot[o]
      /\ old.created = FALSE /\ old.balance = chain.balance[o]
  BY ZenonT(60), <1>1, <1>3, FetchReads
<1> HIDE DEF old
<1>5. /\ new \in Account /\ new.nonce = base.nonce[o] + 1 /\ new.slot = base.slot[o]
      /\ new.created = FALSE /\ new.balance = chain.balance[o]
  BY <1>4 DEF Account
<1> HIDE DEF new
<1>6. /\ counted \in State /\ counted.cached = {o} /\ counted.transfers = <<>>
      /\ counted.events = 0 /\ counted.accounts[o] = new
  <2>1. InitState.cached = {} /\ InitState.transfers = <<>> /\ InitState.events = 0
    BY DEF InitState
  <2>2. /\ counted \in State /\ counted.cached = InitState.cached \cup {o}
        /\ counted.transfers = InitState.transfers /\ counted.events = InitState.events
        /\ \A e \in Addr : counted.accounts[e] = IF e = o THEN new ELSE InitState.accounts[e]
    BY <1>1, <1>3, <1>5, UpdateFields
  <2> HIDE DEF counted
  <2> QED BY <1>3, <2>1, <2>2
<1> HIDE DEF counted
<1>7. /\ t \in State /\ t.events = 0 /\ o \in t.cached /\ t.cached \subseteq {o, Coinbase}
      /\ \A a \in t.cached : SameButBalance(t.accounts[a], AccountOf(chain, counted, a))
  <2>1. /\ t \in State /\ t.events = counted.events
        /\ counted.cached \subseteq t.cached /\ t.cached \subseteq counted.cached \cup {o, Coinbase}
        /\ \A a \in t.cached : SameButBalance(t.accounts[a], AccountOf(chain, counted, a))
    <3>1. /\ chain \in Chain /\ counted \in State /\ o \in Addr /\ Coinbase \in Addr
          /\ fee \in Nat
      BY <1>1, <1>3, <1>6
    <3>2. t \in State
      BY <3>1, TransferFields, Zenon
    <3>5. t.events = counted.events
      BY <3>1, Zenon DEF AddTransfer, State
    <3>6. counted.cached \subseteq t.cached
      BY <3>1, TransferFields, Zenon
    <3>4. t.cached \subseteq counted.cached \cup {o, Coinbase}
      BY <3>1, TransferFields, Zenon
    <3>3. \A a \in t.cached : SameButBalance(t.accounts[a], AccountOf(chain, counted, a))
      BY <3>1, TransferFields
    <3> QED BY <3>2, <3>3, <3>4, <3>5, <3>6
  <2> HIDE DEF t
  <2> QED BY <1>6, <2>1
<1>8. ASSUME NEW a \in t.cached
      PROVE  /\ t.accounts[a].nonce = base.nonce[a] + (IF a = o THEN 1 ELSE 0)
             /\ t.accounts[a].slot = base.slot[a] /\ ~t.accounts[a].created
  <2>1. SameButBalance(t.accounts[a], AccountOf(chain, counted, a)) /\ a \in Addr
    BY <1>1, <1>3, <1>7
  <2> HIDE DEF t
  <2>2. CASE a = o
    BY <1>5, <1>6, <2>1, <2>2 DEF AccountOf, SameButBalance
  <2>3. CASE a # o
    <3>1. /\ AccountOf(chain, counted, a) = FetchAccount(chain, a)
          /\ FetchAccount(chain, a).nonce = base.nonce[a]
          /\ FetchAccount(chain, a).slot = base.slot[a]
          /\ FetchAccount(chain, a).created = FALSE
      <4>1. AccountOf(chain, counted, a) = FetchAccount(chain, a)
        BY <1>6, <2>3 DEF AccountOf
      <4> QED BY <1>1, <2>1, <4>1, FetchReads
    <3>2. base.nonce[a] \in Nat
      BY <1>1, <2>1 DEF Chain
    <3> QED BY <2>1, <2>3, <3>1, <3>2 DEF SameButBalance
  <2> QED BY <2>2, <2>3
<1>9. base.balance \in [Addr -> Nat] /\ base.balance[o] >= MaxFee
  BY <1>1 DEF Chain, RunInv, o
<1>10. fee <= base.balance[o]
  <2>1. base.balance[o] \in Nat
    BY <1>3, <1>9
  <2> QED BY <1>1, <1>9, <2>1
<1>11. CASE o = Coinbase
  <2>1. t = counted
    BY <1>11 DEF AddTransfer, NullTransfer
  <2>2. t.transfers = <<>>
    BY <1>6, <2>1
  <2> HIDE DEF t
  <2> QED BY <1>2, <1>7, <1>8, <1>10, <1>11, <2>2 DEF o
<1>12. CASE o # Coinbase
  <2>1. AccountOf(chain, counted, o) = new
    BY <1>6 DEF AccountOf
  <2>2. AccountOf(chain, counted, Coinbase).balance = base.balance[Coinbase]
    <3>1. AccountOf(chain, counted, Coinbase) = FetchAccount(chain, Coinbase)
      BY <1>6, <1>12 DEF AccountOf
    <3>2. FetchAccount(chain, Coinbase).balance = chain.balance[Coinbase]
      BY <1>1, FetchReads
    <3> QED BY <3>1, <3>2
  <2>3. base.balance[Coinbase] + fee <= MaxUint
    <3>1. /\ Rest(base.balance, o) \in Nat
          /\ SumFunction(base.balance) = base.balance[o] + Rest(base.balance, o)
          /\ base.balance[Coinbase] <= Rest(base.balance, o)
      BY <1>1, <1>3, <1>9, <1>12, SumSplit
    <3>2. SumFunction(base.balance) <= MaxUint
      BY <1>1 DEF Settled, Supply, SupplyFits
    <3>3. base.balance[Coinbase] \in Nat /\ base.balance[o] \in Nat
      BY <1>1, <1>3, <1>9
    <3> QED BY <1>1, <1>10, <3>1, <3>2, <3>3, MaxUintAssumption
  <2>4. ~NullTransfer(o, Coinbase, fee)
    BY <1>1, <1>12 DEF NullTransfer
  <2>5. TransferPossible(chain, counted, o, Coinbase, fee)
    BY <1>5, <1>10, <2>1, <2>2, <2>3 DEF TransferPossible
  <2>6. t.transfers = Append(counted.transfers, [sender |-> o, recipient |-> Coinbase, amount |-> fee])
    BY <1>6, <2>4, <2>5, Zenon DEF AddTransfer, State
  <2>7. t.transfers = <<FeeTransfer(o, fee)>>
    BY <1>6, <2>6 DEF FeeTransfer
  <2> HIDE DEF t
  <2> QED BY <1>2, <1>7, <1>8, <1>10, <1>12, <2>7 DEF o
<1> QED BY <1>11, <1>12

\* A transaction that reverts goes on to the commit with its nonce and its fee.
LEMMA SettleFailure ==
  ASSUME IsFiniteSet(Addr), SupplyFits, IInv, AInv, phase = "run",
         chain.cairo = base.cairo \/ ~CairoMovesNative, NEW fee \in 1..MaxFee,
         Settle("reverted", fee, PayFeeAfterRevert(fee))
  PROVE  AInv'
<1> DEFINE s == PayFeeAfterRevert(fee)
<1>1. /\ TypeOK /\ chain \in Chain /\ base \in Chain /\ tx.origin \in Eoa /\ tx.origin \in Addr
      /\ Settled(base) /\ Begun(chain, base, tx.origin) /\ RunInv(chain, base, tx.origin)
  BY RunningFacts
<1>2. /\ chain' = chain /\ base' = base /\ phase' = "accounts"
      /\ state' = s /\ tx'.origin = tx.origin /\ tx'.status = "reverted" /\ to_commit' = s.cached
  BY <1>1, TypesOfVariables DEF Settle, Transaction
<1>3. /\ chain.balance = base.balance /\ chain.events = base.events
      /\ base.balance[tx.origin] >= MaxFee
      /\ \A a \in Addr : Kept(chain, base, a)
  BY <1>1 DEF RunInv
<1>4. /\ s.events = 0 /\ tx.origin \in s.cached
      /\ \A a \in s.cached :
           /\ s.accounts[a].nonce = base.nonce[a] + (IF a = tx.origin THEN 1 ELSE 0)
           /\ s.accounts[a].slot = base.slot[a] /\ ~s.accounts[a].created
      /\ IF tx.origin = Coinbase THEN s.transfers = <<>>
         ELSE s.transfers = <<FeeTransfer(tx.origin, fee)>>
      /\ fee <= base.balance[tx.origin]
  BY <1>3, PayFeeAfterRevertPlain
<1> HIDE DEF s
<1>5. FeeMoves(chain, base, tx.origin)'
  BY <1>2, <1>3, <1>4 DEF FeeMoves
<1>6. \A a \in to_commit' : Plain(base, tx.origin, a, state.accounts[a])'
  BY <1>2, <1>4 DEF Plain, Counted
<1>7. ASSUME NEW a \in Addr \ to_commit' PROVE PlainStored(chain, base, tx.origin, a)'
  <2>1. a # tx.origin /\ base.nonce[a] \in Nat /\ Kept(chain, base, a)
    BY <1>1, <1>2, <1>3, <1>4 DEF Chain
  <2> QED BY <1>2, <2>1 DEF PlainStored, Counted, Kept
<1>8. FailureInv(chain, base, tx.origin)'
  BY <1>2, <1>3, <1>4, <1>5, <1>6, <1>7 DEF FailureInv
<1>9. CommitInv(chain, base, tx.origin)'
  BY <1>2, <1>3, <1>8 DEF CommitInv
<1> QED BY <1>1, <1>2, <1>9 DEF AInv, Ledger

\* The end of the root context preserves the invariant.
LEMMA FinalizeRootKeepsAtomic ==
  ASSUME IsFiniteSet(Addr), SupplyFits, HasLargestValue, IInv, AInv, IInv', FinalizeRoot,
         Tame' \/ ~CairoMovesNative
  PROVE  AInv'
<1>1. phase = "run" /\ tx.origin \in Eoa
  BY RunningFacts DEF FinalizeRoot, TopStopped
<1>2. CASE Abort
  BY <1>1, <1>2, AbortKeepsAtomic
<1>3. CASE \E fee \in 1..MaxFee : Settle("reverted", fee, PayFeeAfterRevert(fee))
  <2>1. PICK fee \in 1..MaxFee : Settle("reverted", fee, PayFeeAfterRevert(fee))
    BY <1>3
  <2>2. /\ tx'.status = "reverted" /\ chain' = chain /\ base' = base
    BY <1>1, <2>1, TypesOfVariables DEF Settle, Transaction, IInv
  <2>3. NoOrphanCairoEffect' /\ base.cairo \in Nat
    BY TypesOfVariables DEF IInv
  <2>4. chain.cairo = base.cairo \/ ~CairoMovesNative
    BY <2>2, <2>3 DEF NoOrphanCairoEffect, Tame
  <2> QED BY <1>1, <2>1, <2>4, SettleFailure
<1>4. CASE ~RootFails /\ \E fee \in 1..MaxFee : Settle("success", fee, PayFee(RootState, fee))
  <2>1. PICK fee \in 1..MaxFee : Settle("success", fee, PayFee(RootState, fee))
    BY <1>4
  <2>2. Top.status \notin Reverted
    BY <1>4 DEF RootFails, HasReverted
  <2>3. To(RootState)
    BY <1>1, <2>2, PresentFacts, WithCodeSound DEF RootState
  <2>4. PayFee(RootState, fee) \in State /\ Sound(base, tx.origin, PayFee(RootState, fee))
    BY <1>1, <2>3, PayFeeSound
  <2> QED BY <1>1, <2>1, <2>4, SettleSuccess
<1> QED BY <1>2, <1>3, <1>4 DEF FinalizeRoot

-----------------------------------------------------------------------------
(***************************************************************************)
(* The next transaction.                                                    *)
(***************************************************************************)
\* A state that only shows what Starknet stores.
Unwritten(c, s) ==
  /\ s \in State
  /\ s.transfers = <<>> /\ s.events = 0
  /\ \A a \in s.cached : s.accounts[a] = FetchAccount(c, a)

\* The warm state is one, with the sender or without.
LEMMA WarmUnwritten ==
  ASSUME NEW c \in Chain, NEW as \in SUBSET Addr
  PROVE  Unwritten(c, CacheAll(c, InitState, as))
<1> DEFINE s == CacheAll(c, InitState, as)
<1>1. /\ InitState.cached = {} /\ InitState.transfers = <<>> /\ InitState.events = 0
      /\ InitState \in State
  BY InitStateType DEF InitState
<1>2. s \in State
  BY <1>1, CacheAllType
<1>3. /\ s.transfers = <<>> /\ s.events = 0 /\ s.cached = as
      /\ \A a \in as : s.accounts[a] = FetchAccount(c, a)
  BY <1>1 DEF CacheAll, AccountOf, State
<1> HIDE DEF s
<1> QED BY <1>2, <1>3 DEF Unwritten, s

LEMMA CacheUnwritten ==
  ASSUME NEW c \in Chain, NEW s, Unwritten(c, s), NEW a \in Addr
  PROVE  Unwritten(c, CacheAccount(c, s, a))
<1> DEFINE x == AccountOf(c, s, a)
           t == UpdateAccount(s, a, x)
<1>1. s \in State
  BY DEF Unwritten
<1>2. x \in Account /\ x = FetchAccount(c, a)
  BY <1>1, AccountOfType DEF AccountOf, Unwritten
<1>3. CacheAccount(c, s, a) = t
  BY DEF CacheAccount
<1> HIDE DEF x
<1>4. /\ t \in State /\ t.cached = s.cached \cup {a} /\ t.transfers = s.transfers
      /\ t.events = s.events
      /\ \A e \in Addr : t.accounts[e] = IF e = a THEN x ELSE s.accounts[e]
  BY <1>1, <1>2, UpdateFields
<1>5. \A e \in s.cached : e \in Addr
  BY <1>1 DEF State
<1> HIDE DEF t
<1>6. \A e \in t.cached : t.accounts[e] = FetchAccount(c, e)
  BY <1>2, <1>4, <1>5 DEF Unwritten
<1> QED BY <1>3, <1>4, <1>6 DEF Unwritten

\* Storage between two transactions shows itself.
LEMMA ReadsItself ==
  ASSUME NEW c, Settled(c)
  PROVE  Reads(c, c)
BY DEF Reads, Settled, Kept

\* A transaction that is rejected changes nothing.
LEMMA RejectKeepsAtomic ==
  ASSUME IInv, AInv, phase = "idle", NEW origin \in Eoa, NEW s, Unwritten(chain, s),
         RejectTransaction(origin, s), chain' = chain, base' = chain
  PROVE  AInv'
<1>1. /\ phase' = "accounts" /\ state' = s /\ tx'.origin = origin /\ tx'.status = "invalid"
      /\ to_commit' = s.cached
  BY DEF RejectTransaction, NewTx
<1>2. chain \in Chain /\ Settled(chain) /\ Reads(chain, chain)
  BY TypesOfVariables, ReadsItself DEF AInv, Ledger, IInv
<1>3. chain.cairo \in Nat /\ \A a \in Addr : chain.nonce[a] \in Nat /\ chain.balance[a] \in Nat
  BY <1>2 DEF Chain
<1>4. s.cached \subseteq Addr /\ s.transfers = <<>> /\ s.events = 0
  BY DEF Unwritten, State
<1>5. ASSUME NEW a \in s.cached PROVE Plain(chain, origin, a, s.accounts[a])'
  <2>1. s.accounts[a] = FetchAccount(chain, a) /\ a \in Addr
    BY <1>4 DEF Unwritten
  <2>2. /\ FetchAccount(chain, a).nonce = chain.nonce[a]
        /\ FetchAccount(chain, a).slot = chain.slot[a]
        /\ FetchAccount(chain, a).created = FALSE
    BY <1>2, <2>1, FetchReads
  <2> QED BY <1>1, <1>3, <2>1, <2>2 DEF Plain, Counted
<1>6. ASSUME NEW a \in Addr PROVE PlainStored(chain, chain, origin, a)'
  BY <1>1, <1>3 DEF PlainStored, Counted
<1>7. FeeMoves(chain, chain, origin)'
  BY <1>1, <1>4 DEF FeeMoves
<1>8. FailureInv(chain, base, tx.origin)'
  BY <1>1, <1>4, <1>5, <1>6, <1>7 DEF FailureInv
<1>9. CommitInv(chain, base, tx.origin)'
  BY <1>1, <1>8 DEF CommitInv, Kept
<1>10. Begun(chain, base, tx.origin)'
  BY <1>3 DEF Begun
<1> QED BY <1>1, <1>2, <1>9, <1>10 DEF AInv, Ledger

\* Reserving the fee makes a state sound that shows what Starknet stores.
LEMMA ReserveSound ==
  ASSUME HasLargestValue, NEW c \in Chain, Settled(c), NEW o \in Eoa, NEW s, Unwritten(c, s),
         c.balance[o] >= MaxFee
  PROVE  LET t == UpdateAccount(s, o, [AccountOf(c, s, o) EXCEPT !.balance = @ - MaxFee,
                                                                 !.nonce = @ + 1])
         IN /\ t \in State /\ Sound(c, o, t)
            /\ t.accounts[o].balance = c.balance[o] - MaxFee
            /\ \A a \in Addr : ~Created(t, a)
<1> DEFINE old == AccountOf(c, s, o)
           new == [old EXCEPT !.balance = @ - MaxFee, !.nonce = @ + 1]
           t == UpdateAccount(s, o, new)
<1>1. Reads(c, c) /\ s \in State /\ o \in Addr /\ s.transfers = <<>> /\ s.cached \subseteq Addr
  BY ReadsItself, BoundsOfInputs DEF Unwritten, State
<1>2. /\ MaxFee \in Nat /\ LargestValue \in Nat /\ c.balance[o] \in Nat
      /\ \A a \in Addr : c.nonce[a] \in Nat
  BY <1>1, AmountAssumption, LargestValueBounds DEF Chain
<1>3. old = FetchAccount(c, o)
  BY DEF AccountOf, Unwritten
<1>4. /\ old.nonce = c.nonce[o] /\ old.code = c.code[o] /\ old.slot = c.slot[o]
      /\ old.created = FALSE /\ old.balance = c.balance[o] /\ old \in Account
  <2> DEFINE x == FetchAccount(c, o)
  <2>1. /\ x.nonce = c.nonce[o] /\ x.code = c.code[o] /\ x.slot = c.slot[o]
        /\ x.created = FALSE /\ x.balance = c.balance[o] /\ x \in Account
    BY <1>1, FetchReads
  <2> HIDE DEF x, old
  <2>2. old = x
    BY <1>3 DEF x
  <2> QED BY <2>1, <2>2
<1> HIDE DEF old
<1>5. /\ new \in Account /\ new.nonce = c.nonce[o] + 1 /\ new.code = c.code[o]
      /\ new.slot = c.slot[o] /\ new.created = FALSE /\ new.balance = c.balance[o] - MaxFee
  <2>1. old.balance - MaxFee \in Nat /\ old.nonce + 1 \in Nat
    BY <1>1, <1>2, <1>4
  <2> QED BY <1>4, <2>1 DEF Account
<1> HIDE DEF new
<1>6. /\ t \in State /\ t.cached = s.cached \cup {o} /\ t.transfers = s.transfers
      /\ \A e \in Addr : t.accounts[e] = IF e = o THEN new ELSE s.accounts[e]
  BY <1>1, <1>5, UpdateFields
<1> HIDE DEF t
<1>7. Solvent(c, o, t.accounts[o])
  BY <1>1, <1>2, <1>5, <1>6 DEF Solvent
<1>8. ASSUME NEW a \in t.cached
      PROVE  LawfulAccount(c, o, a, t.accounts[a]) /\ ~t.accounts[a].created
  <2>1. a \in Addr /\ c.nonce[a] \in Nat
    BY <1>1, <1>2, <1>6
  <2>2. CASE a = o
    BY <1>1, <1>2, <1>5, <1>6, <2>1, <2>2 DEF LawfulAccount, Lawful
  <2>3. CASE a # o
    <3>1. t.accounts[a] = FetchAccount(c, a)
      BY <1>6, <2>1, <2>3 DEF Unwritten
    <3>2. /\ FetchAccount(c, a).nonce = c.nonce[a] /\ FetchAccount(c, a).code = c.code[a]
          /\ FetchAccount(c, a).slot = c.slot[a] /\ FetchAccount(c, a).created = FALSE
      BY <1>1, <2>1, FetchReads
    <3> QED BY <2>1, <2>3, <3>1, <3>2 DEF LawfulAccount, Lawful
  <2> QED BY <2>2, <2>3
<1>9. SpendersOnly(c, o, t)
  BY <1>1, <1>6 DEF SpendersOnly
<1>10. \A a \in Addr : ~Created(t, a)
  BY <1>8 DEF Created
<1>11. t.accounts[o].balance = c.balance[o] - MaxFee
  BY <1>1, <1>5, <1>6
<1> QED BY <1>6, <1>7, <1>8, <1>9, <1>10, <1>11 DEF Sound, t, new, old

\* A transaction that begins has a root context with a sound state, unless it
\* fails at once.
LEMMA EnterRootKeepsAtomic ==
  ASSUME HasLargestValue, IInv, AInv, phase = "idle", NEW origin \in Eoa, NEW to \in Addr,
         NEW value \in Values, NEW deploy \in BOOLEAN, deploy => to \in CreateTargets,
         NEW warm, Unwritten(chain, warm), chain.balance[origin] >= value + MaxFee,
         EnterRoot(origin, to, value, deploy, warm), chain' = chain, base' = chain
  PROVE  AInv'
<1> DEFINE reserved == ReserveFee(warm, origin)
           paid == AddTransfer(chain, reserved, origin, to, value)
           target == AccountOf(chain, paid, to)
           account == [target EXCEPT !.nonce = IF deploy THEN 1 ELSE @, !.created = deploy]
           entered == UpdateAccount(paid, to, account)
           collision == deploy /\ HasCodeOrNonce(target)
<1>1. /\ chain \in Chain /\ Settled(chain) /\ Reads(chain, chain) /\ origin \in Addr
      /\ value \in Nat /\ value <= LargestValue /\ MaxFee \in Nat /\ LargestValue \in Nat
      /\ chain.balance[origin] \in Nat
  BY TypesOfVariables, ReadsItself, BoundsOfInputs, AmountAssumption, LargestValueBounds
     DEF AInv, Ledger, IInv, Chain
<1>2. /\ state' = entered /\ phase' = "run" /\ tx'.origin = origin /\ tx'.status = "running"
      /\ frames' = << frames'[1] >> /\ frames'[1].address = to /\ frames'[1].is_create = deploy
      /\ frames'[1].has_code = (deploy \/ (to \in chain.registered /\ chain.code[to]))
      /\ frames'[1].caller = origin
      /\ collision => frames'[1].status = "EXCEPTIONAL_HALT"
  BY DEF EnterRoot, NewTx
<1>3. chain.balance[origin] >= MaxFee
  BY <1>1
<1>4. /\ reserved \in State /\ Sound(chain, origin, reserved)
      /\ reserved.accounts[origin].balance = chain.balance[origin] - MaxFee
      /\ \A a \in Addr : ~Created(reserved, a)
  BY <1>1, <1>3, ReserveSound DEF ReserveFee
<1> HIDE DEF reserved
<1>5. reserved.accounts[origin].balance - value + MaxFee + LargestValue >= chain.balance[origin]
  BY <1>1, <1>4
<1>6. paid \in State /\ Sound(chain, origin, paid)
  BY <1>1, <1>4, <1>5, TransferSound DEF Leads, Spender
<1>7. ~target.created
  <2>1. ~AccountOf(chain, reserved, to).created
    BY <1>1, <1>4, ShownLawful
  <2>2. CASE to \in paid.cached
    <3>1. SameButBalance(paid.accounts[to], AccountOf(chain, reserved, to))
      BY <1>1, <1>4, <2>2, TransferFields
    <3> HIDE DEF paid
    <3> QED BY <2>1, <2>2, <3>1 DEF SameButBalance, AccountOf
  <2>3. CASE to \notin paid.cached
    <3>1. target = FetchAccount(chain, to)
      BY <2>3 DEF AccountOf
    <3> QED BY <1>1, <3>1, FetchReads
  <2> QED BY <2>2, <2>3
<1> HIDE DEF paid
<1>8. /\ target \in Account /\ LawfulAccount(chain, origin, to, target)
      /\ to = origin => Solvent(chain, origin, target)
  BY <1>1, <1>6, ShownLawful
<1>9. ~Created(paid, to)
  BY <1>7 DEF Created, AccountOf
<1> HIDE DEF target
<1>10. /\ account \in Account /\ account.created = deploy /\ account.code = target.code
       /\ account.slot = target.slot /\ account.balance = target.balance
       /\ account.nonce = IF deploy THEN 1 ELSE target.nonce
  BY <1>8 DEF Account
<1> HIDE DEF account
<1>11. ASSUME ~collision PROVE LawfulAccount(chain, origin, to, account)
  <2>1. CASE deploy
    <3>1. target.nonce = 0 /\ ~target.code /\ to \in CreateTargets
      BY <1>11, <2>1 DEF HasCodeOrNonce
    <3>2. chain.nonce[to] \in Nat /\ chain.code[to] \in BOOLEAN /\ target.code \in BOOLEAN
      BY <1>1, <1>8 DEF Chain, Account
    <3>3. chain.nonce[to] = 0 /\ ~chain.code[to]
      BY <1>7, <1>8, <3>1, <3>2 DEF LawfulAccount, Lawful
    <3>4. to \notin Eoa
      BY <3>1, AddressAssumption
    <3> QED BY <1>10, <2>1, <3>1, <3>3, <3>4 DEF LawfulAccount, Lawful
  <2>2. CASE ~deploy
    BY <1>7, <1>8, <1>10, <2>2 DEF LawfulAccount, Lawful
  <2> QED BY <2>1, <2>2
<1>12. to = origin => Solvent(chain, origin, account)
  BY <1>8, <1>10 DEF Solvent
<1>13. ASSUME ~collision
       PROVE  /\ Sound(chain, origin, entered)
              /\ deploy => Created(entered, to)
  BY <1>1, <1>6, <1>9, <1>10, <1>11, <1>12, <1>13, UpdateSound DEF Leads
<1> HIDE DEF entered, collision
<1>14. Depth' = 1 /\ Top' = frames'[1]
  <2>1. Len(frames') = 1
    BY <1>2
  <2> QED BY <2>1 DEF Depth, Top
<1>15. Contexts(base, tx.origin)'
  <2>1. \A i \in 1..Depth' : i = 1
    BY <1>14
  <2>2. 2..Depth' = {} /\ \A i \in 1..Depth' : (i + 1)..Depth' = {}
    BY <1>14
  <2> QED BY <1>2, <2>1, <2>2 DEF Contexts, Spender
<1>16. Present(base, tx.origin)'
  <2> SUFFICES ASSUME Top'.status \notin Reverted
               PROVE  /\ Sound(chain, origin, entered)
                      /\ \A i \in 1..Depth' : Born(chain, frames'[i], entered)
    BY <1>2 DEF Present
  <2>1. ~collision
    BY <1>2, <1>14 DEF Reverted
  <2>2. Sound(chain, origin, entered) /\ (deploy => Created(entered, to))
    BY <1>13, <2>1
  <2>3. \A i \in 1..Depth' : i = 1
    BY <1>14
  <2>4. Born(chain, frames'[1], entered)
    BY <1>2, <2>2 DEF Born
  <2> QED BY <2>2, <2>3, <2>4
<1>17. Begun(chain, base, tx.origin)'
  <2>1. chain.cairo \in Nat /\ \A a \in Addr : chain.balance[a] \in Nat
    BY <1>1 DEF Chain
  <2> QED BY <2>1 DEF Begun
<1>18. RunInv(chain, base, tx.origin)'
  BY <1>2, <1>3, <1>15, <1>16 DEF RunInv, Kept
<1> QED BY <1>1, <1>2, <1>17, <1>18 DEF AInv, Ledger

\* Sending a transaction preserves the invariant.
LEMMA SendKeepsAtomic ==
  ASSUME HasLargestValue, IInv, AInv, Send
  PROVE  AInv'
<1>1. PICK origin \in Eoa, value \in Values, access_list \in AccessLists,
           to \in Callees \cup CreateTargets, deploy \in BOOLEAN :
        /\ SendTransaction(origin, to, value, deploy, access_list)
        /\ deploy => to \in CreateTargets
  BY DEF Send
<1> DEFINE as == {Coinbase, to} \cup Precompiles \cup access_list
           warm == WarmState(to, access_list)
<1>2. origin \in Addr /\ to \in Addr /\ chain \in Chain
  BY BoundsOfInputs, TypesOfVariables DEF IInv
<1>3. as \in SUBSET Addr
  BY <1>2, BoundsOfInputs, AddressAssumption
<1>4. phase = "idle" /\ chain' = chain /\ base' = chain
      /\ chain.balance[origin] >= value + MaxFee
  BY <1>1 DEF SendTransaction
<1>5. warm = CacheAll(chain, InitState, as)
  BY DEF WarmState
<1>6. \/ RejectTransaction(origin, warm)
      \/ RejectTransaction(origin, CacheAccount(chain, warm, origin))
      \/ EnterRoot(origin, to, value, deploy, warm)
  BY <1>1 DEF SendTransaction, warm
<1> HIDE DEF as, warm
<1>7. Unwritten(chain, warm)
  BY <1>2, <1>3, <1>5, WarmUnwritten
<1>8. Unwritten(chain, CacheAccount(chain, warm, origin))
  BY <1>2, <1>7, CacheUnwritten
<1>9. CASE RejectTransaction(origin, warm)
  BY <1>4, <1>7, <1>9, RejectKeepsAtomic
<1>10. CASE RejectTransaction(origin, CacheAccount(chain, warm, origin))
  BY <1>4, <1>8, <1>10, RejectKeepsAtomic
<1>11. CASE EnterRoot(origin, to, value, deploy, warm)
  BY <1>1, <1>2, <1>4, <1>7, <1>11, EnterRootKeepsAtomic
<1> QED BY <1>6, <1>9, <1>10, <1>11

-----------------------------------------------------------------------------
(***************************************************************************)
(* The commit.                                                              *)
(***************************************************************************)
\* What is known during the commit.
LEMMA CommitFacts ==
  ASSUME IInv, AInv, phase \in {"accounts", "transfers"}
  PROVE  /\ chain \in Chain /\ base \in Chain /\ state \in State
         /\ to_commit \subseteq Addr /\ tx \in Transaction
         /\ tx.origin \in Eoa /\ tx.origin \in Addr
         /\ Settled(base) /\ Begun(chain, base, tx.origin)
         /\ CommitInv(chain, base, tx.origin)
<1>1. TypeOK /\ to_commit \subseteq Addr
  BY DEF IInv, TypeOK
<1> QED BY <1>1, TypesOfVariables DEF AInv, Ledger

\* What a step of the commit has to keep.
LEMMA CommitGoesOn ==
  ASSUME IInv, AInv, phase \in {"accounts", "transfers"}, phase' \in {"accounts", "transfers"},
         base' = base, tx' = tx,
         Begun(chain', base, tx.origin), CommitInv(chain, base, tx.origin)',
         phase' = "transfers" => to_commit' = {}
  PROVE  AInv'
BY CommitFacts DEF AInv, Ledger

\* What Starknet stores when an account has been written.
LEMMA WriteAccountFields ==
  ASSUME chain \in Chain, NEW a \in Addr, NEW x \in Account
  PROVE  LET c == WriteAccount(x, a)
             skipped == Vanishes(x) \/ ~HasCodeOrNonce(x)
         IN /\ c.registered = chain.registered \cup {a} /\ c.balance = chain.balance
            /\ c.events = chain.events /\ c.cairo = chain.cairo
            /\ \A e \in Addr \ {a} : Kept(c, chain, e)
            /\ c.nonce[a] = IF skipped THEN chain.nonce[a] ELSE x.nonce
            /\ c.slot[a] = IF skipped THEN chain.slot[a] ELSE x.slot
            /\ c.code[a] = IF Vanishes(x) \/ ~x.created THEN chain.code[a] ELSE x.code
<1> DEFINE c == WriteAccount(x, a)
           skipped == Vanishes(x) \/ ~HasCodeOrNonce(x)
           untouched == Vanishes(x) \/ ~x.created
<1>1. /\ c.registered = chain.registered \cup {a} /\ c.balance = chain.balance
      /\ c.events = chain.events /\ c.cairo = chain.cairo
  BY Zenon DEF WriteAccount, Chain
<1>2. /\ c.nonce = IF skipped THEN chain.nonce ELSE [chain.nonce EXCEPT ![a] = x.nonce]
      /\ c.slot = IF skipped THEN chain.slot ELSE [chain.slot EXCEPT ![a] = x.slot]
      /\ c.code = IF untouched THEN chain.code ELSE [chain.code EXCEPT ![a] = x.code]
  BY Zenon DEF WriteAccount, Chain
<1>3. /\ chain.nonce \in [Addr -> Nat] /\ chain.slot \in [Addr -> Word]
      /\ chain.code \in [Addr -> BOOLEAN]
  BY DEF Chain
<1> HIDE DEF c, skipped, untouched
<1>4. /\ \A e \in Addr \ {a} : c.nonce[e] = chain.nonce[e]
      /\ c.nonce[a] = IF skipped THEN chain.nonce[a] ELSE x.nonce
  BY <1>2, <1>3
<1>5. /\ \A e \in Addr \ {a} : c.slot[e] = chain.slot[e]
      /\ c.slot[a] = IF skipped THEN chain.slot[a] ELSE x.slot
  BY <1>2, <1>3
<1>6. /\ \A e \in Addr \ {a} : c.code[e] = chain.code[e]
      /\ c.code[a] = IF untouched THEN chain.code[a] ELSE x.code
  BY <1>2, <1>3
<1> QED BY <1>1, <1>4, <1>5, <1>6 DEF Kept, c, skipped, untouched

\* A lawful account is stored as one, whether Starknet writes it or skips it.
LEMMA StoredLawful ==
  ASSUME chain \in Chain, NEW b \in Chain, NEW o \in Eoa, NEW a \in Addr, NEW x \in Account,
         Kept(chain, b, a), LawfulAccount(b, o, a, x)
  PROVE  LawfulStored(WriteAccount(x, a), b, o, a)
<1> DEFINE c == WriteAccount(x, a)
           skipped == Vanishes(x) \/ ~HasCodeOrNonce(x)
<1>1. /\ c.nonce[a] = IF skipped THEN chain.nonce[a] ELSE x.nonce
      /\ c.slot[a] = IF skipped THEN chain.slot[a] ELSE x.slot
      /\ c.code[a] = IF Vanishes(x) \/ ~x.created THEN chain.code[a] ELSE x.code
  BY WriteAccountFields
<1>2. /\ chain.nonce[a] = b.nonce[a] /\ chain.code[a] = b.code[a] /\ chain.slot[a] = b.slot[a]
      /\ b.nonce[a] \in Nat /\ x.nonce \in Nat
  BY DEF Kept, Chain, Account
<1>3. /\ x.nonce >= b.nonce[a]
      /\ a \in Eoa => x.nonce = b.nonce[a] + (IF a = o THEN 1 ELSE 0)
      /\ x.created => a \in CreateTargets /\ b.nonce[a] = 0 /\ ~b.code[a] /\ x.nonce > 0
      /\ ~x.created => x.code = b.code[a]
      /\ x.slot # b.slot[a] => x.nonce > 0
  BY DEF LawfulAccount, Lawful
<1>4. x.created => a \notin Eoa
  BY <1>3, AddressAssumption
<1> HIDE DEF c
<1>5. CASE Vanishes(x)
  <2>1. c.nonce[a] = b.nonce[a] /\ c.slot[a] = b.slot[a] /\ c.code[a] = b.code[a] /\ x.created
    BY <1>1, <1>2, <1>5 DEF Vanishes
  <2> QED BY <1>2, <1>4, <2>1 DEF LawfulStored, Lawful, c
<1>6. CASE ~Vanishes(x) /\ ~HasCodeOrNonce(x)
  <2>1. x.nonce = 0 /\ b.nonce[a] = 0 /\ ~x.created
    BY <1>2, <1>3, <1>6 DEF HasCodeOrNonce
  <2>2. c.nonce[a] = b.nonce[a] /\ c.slot[a] = b.slot[a] /\ c.code[a] = b.code[a]
    BY <1>1, <1>2, <1>6, <2>1
  <2> QED BY <1>2, <1>3, <2>1, <2>2 DEF LawfulStored, Lawful, c
<1>7. CASE ~Vanishes(x) /\ HasCodeOrNonce(x)
  <2>1. /\ c.nonce[a] = x.nonce /\ c.slot[a] = x.slot
        /\ c.code[a] = IF x.created THEN x.code ELSE b.code[a]
    BY <1>1, <1>2, <1>7
  <2> QED BY <1>2, <1>3, <2>1 DEF LawfulStored, Lawful, c
<1> QED BY <1>5, <1>6, <1>7

\* What was stored of the others stays lawful.
LEMMA OthersLawful ==
  ASSUME NEW c, NEW d, NEW b, NEW o, NEW a, Kept(d, c, a), LawfulStored(c, b, o, a)
  PROVE  LawfulStored(d, b, o, a)
BY DEF LawfulStored, Lawful, Kept

\* A precompile is skipped: it has nothing of its own.
LEMMA PrecompileLawful ==
  ASSUME NEW c, NEW b \in Chain, NEW o \in Eoa, NEW a \in Precompiles, Kept(c, b, a)
  PROVE  LawfulStored(c, b, o, a) /\ a # o
<1>1. a \notin Eoa /\ a \in Addr
  BY AddressAssumption, BoundsOfInputs
<1>2. b.nonce[a] \in Nat
  BY <1>1 DEF Chain
<1> QED BY <1>1, <1>2 DEF LawfulStored, Lawful, Kept

\* Burning what is left of a vanished account leaves the others as they were.
LEMMA BurnSound ==
  ASSUME NEW c \in Chain, NEW b \in Chain, NEW o \in Eoa, HasLargestValue,
         NEW s \in State, o \in s.cached, Solvent(b, o, s.accounts[o]), SpendersOnly(b, o, s),
         NEW a \in s.cached \cap CreateTargets, NEW amount \in Nat
  PROVE  LET t == AddTransfer(c, s, a, BurnAddress, amount)
         IN /\ t \in State /\ t.events = s.events /\ s.cached \subseteq t.cached
            /\ Solvent(b, o, t.accounts[o]) /\ SpendersOnly(b, o, t)
            /\ \A e \in s.cached : SameButBalance(t.accounts[e], s.accounts[e])
<1> DEFINE t == AddTransfer(c, s, a, BurnAddress, amount)
<1>1. /\ a \in Addr /\ BurnAddress \in Addr /\ o \in Addr /\ a # o /\ s.cached \subseteq Addr
      /\ MaxFee \in Nat /\ LargestValue \in Nat /\ b.balance[o] \in Nat
  BY BoundsOfInputs, AddressAssumption, AmountAssumption, LargestValueBounds DEF State, Chain
<1>2. /\ t \in State /\ t.events = s.events /\ s.cached \subseteq t.cached
      /\ \A e \in t.cached : SameButBalance(t.accounts[e], AccountOf(c, s, e))
      /\ \A e \in t.cached : t.accounts[e].balance >=
                               AccountOf(c, s, e).balance - (IF e = a THEN amount ELSE 0)
  <2>1. t \in State /\ s.cached \subseteq t.cached
    BY <1>1, TransferFields, Zenon
  <2>3. \A e \in t.cached : SameButBalance(t.accounts[e], AccountOf(c, s, e))
    BY <1>1, TransferFields
  <2>4. t.events = s.events
    BY <1>1, Zenon DEF AddTransfer, State
  <2>2. \A e \in t.cached : t.accounts[e].balance >=
                               AccountOf(c, s, e).balance - (IF e = a THEN amount ELSE 0)
    BY <1>1, TransferFields
  <2> HIDE DEF t
  <2> QED BY <2>1, <2>2, <2>3, <2>4
<1>3. Senders(t) \subseteq Senders(s) \cup {a}
  BY <1>1, AddTransferSenders
<1> HIDE DEF t
<1>4. \A e \in s.cached : AccountOf(c, s, e) = s.accounts[e]
  BY DEF AccountOf
<1>5. s.accounts[o].balance \in Nat /\ t.accounts[o].balance \in Nat
  BY <1>1, <1>2 DEF State, Account
<1>6. t.accounts[o].balance >= s.accounts[o].balance
  BY <1>1, <1>2, <1>4, <1>5
<1>7. Solvent(b, o, t.accounts[o])
  BY <1>1, <1>5, <1>6 DEF Solvent
<1>8. SpendersOnly(b, o, t)
  BY <1>3 DEF SpendersOnly, Senders, Spender
<1>9. \A e \in s.cached : SameButBalance(t.accounts[e], s.accounts[e])
  BY <1>2, <1>4
<1> QED BY <1>2, <1>7, <1>8, <1>9 DEF t

\* Storage that differs from the present one in one account that was written.
LEMMA WrittenBegun ==
  ASSUME NEW b, NEW o, Begun(chain, b, o), NEW c,
         chain.registered \subseteq c.registered, c.balance = chain.balance, c.cairo = chain.cairo
  PROVE  Begun(c, b, o)
BY DEF Begun, Supply

\* The accounts that are still to be committed, and those that are not deployed,
\* are as they were.
LEMMA CommitKept ==
  ASSUME IInv, AInv, NEW a \in to_commit, phase = "accounts", to_commit' = to_commit \ {a},
         \/ chain' = chain
         \/ chain' = WriteAccount(state.accounts[a], a)
  PROVE  /\ \A e \in Addr : e \in to_commit' \/ e \notin chain'.registered => Kept(chain', base, e)
         /\ \A e \in Addr \ {a} : Kept(chain', chain, e)
         /\ Begun(chain', base, tx.origin)
         /\ chain'.balance = chain.balance /\ chain'.events = chain.events
         /\ chain'.cairo = chain.cairo
         /\ state.accounts[a] \in Account /\ a \in Addr
<1>1. /\ chain \in Chain /\ state \in State /\ to_commit \subseteq Addr
      /\ Begun(chain, base, tx.origin) /\ CommitInv(chain, base, tx.origin)
  BY CommitFacts
<1>2. a \in Addr /\ state.accounts[a] \in Account
  BY <1>1 DEF State
<1>3. \A e \in Addr : e \in to_commit \/ e \notin chain.registered => Kept(chain, base, e)
  BY <1>1 DEF CommitInv
<1>4. CASE chain' = chain
  BY <1>1, <1>2, <1>3, <1>4 DEF Kept
<1>5. CASE chain' = WriteAccount(state.accounts[a], a)
  <2>1. /\ chain'.registered = chain.registered \cup {a} /\ chain'.balance = chain.balance
        /\ chain'.events = chain.events /\ chain'.cairo = chain.cairo
        /\ \A e \in Addr \ {a} : Kept(chain', chain, e)
    BY <1>1, <1>2, <1>5, WriteAccountFields
  <2>2. ASSUME NEW e \in Addr, e \in to_commit' \/ e \notin chain'.registered
        PROVE  Kept(chain', base, e)
    <3>1. e # a /\ (e \in to_commit \/ e \notin chain.registered)
      BY <2>1, <2>2
    <3>2. Kept(chain, base, e) /\ Kept(chain', chain, e)
      BY <1>3, <2>1, <3>1
    <3> QED BY <3>2 DEF Kept
  <2>3. Begun(chain', base, tx.origin)
    BY <1>1, <2>1, WrittenBegun
  <2> QED BY <1>2, <2>1, <2>2, <2>3
<1> QED BY <1>4, <1>5

\* Committing an account of a transaction that succeeded.
LEMMA CommitSuccess ==
  ASSUME HasLargestValue, IInv, AInv, phase = "accounts", SuccessInv(chain, base, tx.origin),
         tx' = tx, base' = base, NEW a \in to_commit, to_commit' = to_commit \ {a},
         to_commit \subseteq state.cached,
         \/ a \in Precompiles /\ chain' = chain /\ state' = state
         \/ /\ chain' = WriteAccount(state.accounts[a], a)
            /\ state' = IF Vanishes(state.accounts[a])
                          THEN AddTransfer(chain, state, a, BurnAddress, state.accounts[a].balance)
                          ELSE state
  PROVE  SuccessInv(chain, base, tx.origin)' /\ to_commit' \subseteq state'.cached
<1> DEFINE o == tx.origin
           x == state.accounts[a]
           burnt == AddTransfer(chain, state, a, BurnAddress, x.balance)
<1>1. /\ chain \in Chain /\ base \in Chain /\ state \in State /\ to_commit \subseteq Addr
      /\ tx.origin \in Eoa /\ CommitInv(chain, base, tx.origin)
  BY CommitFacts
<1>2. /\ x \in Account /\ a \in Addr
      /\ \A e \in Addr \ {a} : Kept(chain', chain, e)
      /\ chain'.events = chain.events
  BY CommitKept
<1>3. Kept(chain, base, a)
  BY <1>1, <1>2 DEF CommitInv
<1>4. /\ chain.events >= base.events
      /\ tx.origin \in state.cached /\ Solvent(base, tx.origin, state.accounts[tx.origin])
      /\ SpendersOnly(base, tx.origin, state)
      /\ \A e \in to_commit : LawfulAccount(base, tx.origin, e, state.accounts[e])
      /\ \A e \in Addr \ to_commit : LawfulStored(chain, base, tx.origin, e)
  BY DEF SuccessInv
<1>5. \/ a \in Precompiles /\ chain' = chain /\ state' = state
      \/ chain' = WriteAccount(x, a) /\ state' = IF Vanishes(x) THEN burnt ELSE state
  OBVIOUS
<1>6. x.balance \in Nat
  BY <1>2 DEF Account
<1>7. LawfulAccount(base, tx.origin, a, x)
  BY <1>4
<1> HIDE DEF o, x, burnt
<1>8. LawfulStored(chain', base, tx.origin, a)
  <2>1. CASE a \in Precompiles /\ chain' = chain
    BY <1>1, <1>3, <2>1, PrecompileLawful
  <2>2. CASE chain' = WriteAccount(x, a)
    BY <1>1, <1>2, <1>3, <1>7, <2>2, StoredLawful
  <2> QED BY <1>5, <2>1, <2>2
<1>9. \A e \in Addr \ to_commit' : LawfulStored(chain', base, tx.origin, e)
  <2> SUFFICES ASSUME NEW e \in Addr \ to_commit' PROVE LawfulStored(chain', base, tx.origin, e)
    OBVIOUS
  <2>1. CASE e = a
    BY <1>8, <2>1
  <2>2. CASE e # a
    <3>1. e \in Addr \ to_commit /\ Kept(chain', chain, e)
      BY <1>2, <2>2
    <3> QED BY <1>4, <3>1, OthersLawful
  <2> QED BY <2>1, <2>2
<1>10. /\ state.cached \subseteq state'.cached
       /\ Solvent(base, tx.origin, state'.accounts[tx.origin])
       /\ SpendersOnly(base, tx.origin, state')
       /\ \A e \in state.cached : SameButBalance(state'.accounts[e], state.accounts[e])
  <2>1. CASE state' = state
    BY <1>4, <2>1 DEF SameButBalance
  <2>2. CASE state' = burnt /\ Vanishes(x)
    <3>1. a \in state.cached \cap CreateTargets
      BY <1>7, <2>2 DEF Vanishes, LawfulAccount, Lawful
    <3> QED BY <1>1, <1>4, <1>6, <2>2, <3>1, BurnSound DEF burnt
  <2> QED BY <1>5, <2>1, <2>2
<1>11. ASSUME NEW e \in to_commit'
       PROVE  LawfulAccount(base, tx.origin, e, state'.accounts[e])
  <2>1. e \in to_commit /\ e \in state.cached
    OBVIOUS
  <2>2. LawfulAccount(base, tx.origin, e, state.accounts[e])
    BY <1>4, <2>1
  <2>3. SameButBalance(state'.accounts[e], state.accounts[e])
    BY <1>10, <2>1
  <2> QED BY <2>2, <2>3 DEF LawfulAccount, SameButBalance
<1>12. chain'.events >= base.events /\ tx.origin \in state'.cached
  BY <1>2, <1>4, <1>10
<1>13. to_commit' \subseteq state'.cached
  BY <1>10
<1> QED BY <1>9, <1>10, <1>11, <1>12, <1>13 DEF SuccessInv

\* Committing an account of a transaction that failed: only the sender's is not
\* as it was, and none vanishes.
LEMMA CommitFailure ==
  ASSUME IInv, AInv, phase = "accounts", FailureInv(chain, base, tx.origin),
         tx' = tx, base' = base, NEW a \in to_commit, to_commit' = to_commit \ {a},
         \/ a \in Precompiles /\ chain' = chain /\ state' = state
         \/ /\ chain' = WriteAccount(state.accounts[a], a)
            /\ state' = IF Vanishes(state.accounts[a])
                          THEN AddTransfer(chain, state, a, BurnAddress, state.accounts[a].balance)
                          ELSE state
  PROVE  FailureInv(chain, base, tx.origin)' /\ state' = state
<1> DEFINE x == state.accounts[a]
<1>1. /\ chain \in Chain /\ base \in Chain /\ to_commit \subseteq Addr
      /\ tx.origin \in Eoa /\ CommitInv(chain, base, tx.origin)
  BY CommitFacts
<1>2. /\ x \in Account /\ a \in Addr
      /\ \A e \in Addr \ {a} : Kept(chain', chain, e)
      /\ chain'.events = chain.events /\ chain'.balance = chain.balance
      /\ chain'.cairo = chain.cairo
  BY CommitKept
<1>3. Kept(chain, base, a) /\ base.nonce[a] \in Nat
  BY <1>1, <1>2 DEF CommitInv, Chain
<1>4. Plain(base, tx.origin, a, x)
  BY DEF FailureInv
<1>5. state' = state
  BY <1>4 DEF Plain, Vanishes
<1>6. \/ a \in Precompiles /\ chain' = chain
      \/ chain' = WriteAccount(x, a)
  OBVIOUS
<1> HIDE DEF x
<1>7. PlainStored(chain', base, tx.origin, a)
  <2>1. CASE a \in Precompiles /\ chain' = chain
    <3>1. a # tx.origin
      BY <1>1, <1>3, <2>1, PrecompileLawful
    <3> QED BY <1>3, <2>1, <3>1 DEF PlainStored, Counted, Kept
  <2>2. CASE chain' = WriteAccount(x, a)
    <3> DEFINE skipped == Vanishes(x) \/ ~HasCodeOrNonce(x)
    <3>1. /\ chain'.nonce[a] = IF skipped THEN chain.nonce[a] ELSE x.nonce
          /\ chain'.slot[a] = IF skipped THEN chain.slot[a] ELSE x.slot
          /\ chain'.code[a] = IF Vanishes(x) \/ ~x.created THEN chain.code[a] ELSE x.code
      BY <1>1, <1>2, <2>2, WriteAccountFields
    <3>2. ~Vanishes(x) /\ ~x.created /\ x.nonce = Counted(base, tx.origin, a)
          /\ x.slot = base.slot[a]
      BY <1>4 DEF Plain, Vanishes
    <3>3. ~HasCodeOrNonce(x) => Counted(base, tx.origin, a) = base.nonce[a]
      BY <1>3, <3>2 DEF HasCodeOrNonce, Counted
    <3> QED BY <1>3, <3>1, <3>2, <3>3 DEF PlainStored, Kept
  <2> QED BY <1>6, <2>1, <2>2
<1>8. \A e \in Addr \ to_commit' : PlainStored(chain', base, tx.origin, e)
  <2> SUFFICES ASSUME NEW e \in Addr \ to_commit' PROVE PlainStored(chain', base, tx.origin, e)
    OBVIOUS
  <2>1. CASE e = a
    BY <1>7, <2>1
  <2>2. CASE e # a
    <3>1. e \in Addr \ to_commit /\ Kept(chain', chain, e)
      BY <1>2, <2>2
    <3>2. PlainStored(chain, base, tx.origin, e)
      BY <3>1 DEF FailureInv
    <3> QED BY <3>1, <3>2 DEF PlainStored, Kept
  <2> QED BY <2>1, <2>2
<1>9. FeeMoves(chain, base, tx.origin)'
  BY <1>2, <1>5 DEF FailureInv, FeeMoves
<1>10. (\A e \in Addr \ to_commit : PlainStored(chain, base, tx.origin, e))'
  BY <1>8 DEF PlainStored, Counted
<1>11. (\A e \in to_commit : Plain(base, tx.origin, e, state.accounts[e]))'
  BY <1>5 DEF FailureInv, Plain, Counted
<1> QED BY <1>2, <1>5, <1>9, <1>10, <1>11 DEF FailureInv

LEMMA CommitAccountKeepsAtomic ==
  ASSUME HasLargestValue, IInv, AInv, CommitAccount
  PROVE  AInv'
<1> DEFINE a == CHOOSE x \in to_commit : TRUE
           account == state.accounts[a]
<1>1. /\ phase = "accounts" /\ to_commit # {} /\ to_commit' = to_commit \ {a}
      /\ phase' = phase /\ base' = base /\ tx' = tx
      /\ \/ a \in Precompiles /\ chain' = chain /\ state' = state
         \/ /\ chain' = WriteAccount(account, a)
            /\ state' = IF Vanishes(account)
                          THEN AddTransfer(chain, state, a, BurnAddress, account.balance)
                          ELSE state
  BY DEF CommitAccount
<1>2. a \in to_commit
  BY <1>1
<1> HIDE DEF a
<1>3. /\ \A e \in Addr : e \in to_commit' \/ e \notin chain'.registered => Kept(chain', base, e)
      /\ Begun(chain', base, tx.origin)
  BY <1>1, <1>2, CommitKept
<1>4. CommitInv(chain, base, tx.origin)
  BY <1>1, CommitFacts
<1>5. to_commit \subseteq state.cached
  BY <1>4 DEF CommitInv
<1>6. CASE tx.status = "success" /\ SuccessInv(chain, base, tx.origin)
  <2>1. SuccessInv(chain, base, tx.origin)' /\ to_commit' \subseteq state'.cached
    BY <1>1, <1>2, <1>5, <1>6, CommitSuccess
  <2>2. CommitInv(chain, base, tx.origin)'
    BY <1>1, <1>3, <1>6, <2>1 DEF CommitInv
  <2> QED BY <1>1, <1>3, <2>2, CommitGoesOn
<1>7. CASE tx.status \in {"invalid", "reverted"} /\ FailureInv(chain, base, tx.origin)
  <2>1. FailureInv(chain, base, tx.origin)' /\ state' = state
    BY <1>1, <1>2, <1>7, CommitFailure
  <2>2. CommitInv(chain, base, tx.origin)'
    BY <1>1, <1>3, <1>5, <1>7, <2>1 DEF CommitInv
  <2> QED BY <1>1, <1>3, <2>2, CommitGoesOn
<1> QED BY <1>4, <1>6, <1>7 DEF CommitInv

\* Emitting the events changes nothing that the invariant compares but their number.
LEMMA EmitEventsKeepsAtomic ==
  ASSUME IInv, AInv, EmitEvents
  PROVE  AInv'
<1> DEFINE o == tx.origin
<1>1. /\ phase = "accounts" /\ to_commit = {} /\ phase' = "transfers"
      /\ chain' = [chain EXCEPT !.events = @ + state.events]
      /\ base' = base /\ tx' = tx /\ state' = state /\ to_commit' = to_commit
  BY DEF EmitEvents
<1>2. /\ chain \in Chain /\ base \in Chain /\ state \in State
      /\ Begun(chain, base, tx.origin) /\ CommitInv(chain, base, tx.origin)
  BY <1>1, CommitFacts
<1>3. /\ chain'.balance = chain.balance /\ chain'.nonce = chain.nonce /\ chain'.code = chain.code
      /\ chain'.slot = chain.slot /\ chain'.registered = chain.registered
      /\ chain'.cairo = chain.cairo /\ chain'.events = chain.events + state.events
      /\ chain.events \in Nat /\ base.events \in Nat /\ state.events \in Nat
  BY <1>1, <1>2 DEF Chain, State
<1>4. Begun(chain', base, tx.origin)
  BY <1>2, <1>3, WrittenBegun
<1>5. \A e \in Addr : Kept(chain', chain, e)
  BY <1>3 DEF Kept
<1>6. \A e \in Addr : e \in to_commit' \/ e \notin chain'.registered => Kept(chain', base, e)
  BY <1>1, <1>2, <1>3 DEF CommitInv, Kept
<1>7. CASE tx.status = "success" /\ SuccessInv(chain, base, tx.origin)
  <2>1. \A e \in Addr \ to_commit : LawfulStored(chain', base, tx.origin, e)
    BY <1>5, <1>7, OthersLawful DEF SuccessInv
  <2>2. chain'.events >= base.events
    <3>1. chain.events >= base.events
      BY <1>7 DEF SuccessInv
    <3> QED BY <1>3, <3>1
  <2>3. SuccessInv(chain, base, tx.origin)'
    BY <1>1, <1>7, <2>1, <2>2 DEF SuccessInv
  <2>4. CommitInv(chain, base, tx.origin)'
    BY <1>1, <1>2, <1>6, <1>7, <2>3 DEF CommitInv
  <2> QED BY <1>1, <1>4, <2>4, CommitGoesOn
<1>8. CASE tx.status \in {"invalid", "reverted"} /\ FailureInv(chain, base, tx.origin)
  <2>1. chain'.events = base.events
    BY <1>3, <1>8 DEF FailureInv
  <2>2. (\A e \in Addr \ to_commit : PlainStored(chain, base, tx.origin, e))'
    BY <1>1, <1>3, <1>8 DEF FailureInv, PlainStored, Counted
  <2>3. FeeMoves(chain, base, tx.origin)'
    BY <1>1, <1>3, <1>8 DEF FailureInv, FeeMoves
  <2>4. FailureInv(chain, base, tx.origin)'
    BY <1>1, <1>3, <1>8, <2>1, <2>2, <2>3 DEF FailureInv
  <2>5. CommitInv(chain, base, tx.origin)'
    BY <1>1, <1>2, <1>6, <1>8, <2>4 DEF CommitInv
  <2> QED BY <1>1, <1>4, <2>5, CommitGoesOn
<1> QED BY <1>2, <1>7, <1>8 DEF CommitInv

\* A transfer that can be made neither creates nor destroys tokens, and only its
\* sender loses any.
LEMMA TransferredSum ==
  ASSUME IsFiniteSet(Addr), NEW balance \in [Addr -> Nat], NEW t \in Transfer,
         t.amount <= balance[t.sender]
  PROVE  /\ Transferred(balance, t) \in [Addr -> Nat]
         /\ SumFunction(Transferred(balance, t)) = SumFunction(balance)
         /\ \A a \in Addr \ {t.sender} : Transferred(balance, t)[a] >= balance[a]
<1> DEFINE next == Transferred(balance, t)
<1>1. next \in [Addr -> Nat]
  BY TransferredType
<1>2. t.sender \in Addr /\ t.recipient \in Addr /\ t.amount \in Nat
  BY DEF Transfer
<1>3. CASE t.sender = t.recipient
  <2>1. next = balance
    <3> DEFINE sent == [balance EXCEPT ![t.sender] = @ - t.amount]
    <3>1. /\ sent \in [Addr -> Int] /\ sent[t.sender] + t.amount = balance[t.sender]
          /\ \A a \in Addr \ {t.sender} : sent[a] = balance[a]
      BY <1>2
    <3>2. next = [sent EXCEPT ![t.sender] = @ + t.amount]
      BY <1>3 DEF Transferred
    <3> HIDE DEF sent, next
    <3>3. next \in [Addr -> Int] /\ \A a \in Addr : next[a] = balance[a]
      BY <1>2, <3>1, <3>2
    <3> QED BY <3>3
  <2> HIDE DEF next
  <2>2. \A a \in Addr : balance[a] >= balance[a]
    OBVIOUS
  <2> QED BY <1>1, <2>1, <2>2 DEF next
<1>4. CASE t.sender # t.recipient
  <2>1. \A a \in Addr : next[a] = IF a = t.sender THEN balance[a] - t.amount
                                  ELSE IF a = t.recipient THEN balance[a] + t.amount ELSE balance[a]
    BY <1>4, TransferredAt
  <2> HIDE DEF next
  <2>2. SumFunction(next) = SumFunction(balance)
    <3>1. /\ next[t.sender] = balance[t.sender] - t.amount
          /\ next[t.recipient] = balance[t.recipient] + t.amount
          /\ \A a \in Addr \ {t.sender, t.recipient} : next[a] = balance[a]
      BY <1>2, <1>4, <2>1
    <3> QED BY <1>1, <1>2, <1>4, <3>1, SumMoved
  <2>3. ASSUME NEW a \in Addr \ {t.sender} PROVE next[a] >= balance[a]
    <3>1. balance[a] \in Nat
      OBVIOUS
    <3> QED BY <1>2, <2>1, <3>1
  <2> QED BY <1>1, <2>2, <2>3 DEF next
<1> QED BY <1>3, <1>4

\* Whoever sends the next transfer may spend.
LEMMA NextSenderSpends ==
  ASSUME IInv, AInv, phase = "transfers", state.transfers # <<>>
  PROVE  Spender(base, tx.origin, Head(state.transfers).sender)
<1>1. /\ state \in State /\ CommitInv(chain, base, tx.origin)
  BY CommitFacts
<1>2. CASE SuccessInv(chain, base, tx.origin)
  <2>1. Head(state.transfers).sender \in Senders(state)
    BY <1>1, TailSenders
  <2> QED BY <1>2, <2>1 DEF SuccessInv, SpendersOnly, Senders
<1>3. CASE FailureInv(chain, base, tx.origin)
  <2>1. PICK fee \in 1..MaxFee : state.transfers = <<FeeTransfer(tx.origin, fee)>>
    BY <1>3 DEF FailureInv, FeeMoves
  <2>2. Head(state.transfers).sender = tx.origin
    BY <2>1 DEF FeeTransfer
  <2> QED BY <2>2 DEF Spender
<1> QED BY <1>1, <1>2, <1>3 DEF CommitInv

\* Making a transfer preserves the invariant.
LEMMA TransferEthKeepsAtomic ==
  ASSUME IsFiniteSet(Addr), IInv, AInv, TransferEth
  PROVE  AInv'
<1> DEFINE t == Head(state.transfers)
<1>1. phase = "transfers" /\ state.transfers # <<>>
  BY DEF TransferEth
<1>2. /\ chain \in Chain /\ base \in Chain /\ state \in State
      /\ Begun(chain, base, tx.origin) /\ CommitInv(chain, base, tx.origin) /\ to_commit = {}
  BY <1>1, CommitFacts DEF AInv
<1>3. CASE Abort
  BY <1>1, <1>3, AbortKeepsAtomic
<1>4. CASE CanTransfer(t) /\ ~Abort
  <2>1. /\ chain' = [chain EXCEPT !.balance = Transferred(@, t)]
        /\ state' = [state EXCEPT !.transfers = Tail(@)]
        /\ base' = base /\ phase' = phase /\ tx' = tx /\ to_commit' = to_commit
    BY <1>4 DEF TransferEth
  <2>2. state.transfers \in Seq(Transfer) /\ t \in Transfer
    BY <1>1, <1>2 DEF State
  <2>3. Spender(base, tx.origin, t.sender)
    BY <1>1, NextSenderSpends
  <2>4. t.amount <= chain.balance[t.sender]
    BY <1>4 DEF CanTransfer
  <2>5. Senders(state') \subseteq Senders(state)
    BY <1>1, <1>2, <2>1, TailSenders
  <2> HIDE DEF t
  <2>6. /\ chain'.balance = Transferred(chain.balance, t) /\ chain'.nonce = chain.nonce
        /\ chain'.code = chain.code /\ chain'.slot = chain.slot /\ chain'.events = chain.events
        /\ chain'.registered = chain.registered /\ chain'.cairo = chain.cairo
        /\ chain.balance \in [Addr -> Nat] /\ base.balance \in [Addr -> Nat]
    BY <1>2, <2>1 DEF Chain
  <2>7. /\ state'.accounts = state.accounts /\ state'.cached = state.cached
        /\ state'.events = state.events /\ state'.transfers = Tail(state.transfers)
    BY <1>2, <2>1 DEF State
  <2>8. Begun(chain', base, tx.origin)
    <3>1. /\ SumFunction(chain'.balance) = SumFunction(chain.balance)
          /\ chain'.balance \in [Addr -> Nat]
          /\ \A a \in Addr \ {t.sender} : chain'.balance[a] >= chain.balance[a]
      BY <2>2, <2>4, <2>6, TransferredSum
    <3>2. ASSUME NEW a \in Addr, ~Spender(base, tx.origin, a)
          PROVE  chain'.balance[a] >= base.balance[a]
      <4>1. chain'.balance[a] >= chain.balance[a]
        BY <2>3, <3>1, <3>2
      <4>2. chain.balance[a] >= base.balance[a]
        BY <1>2, <3>2 DEF Begun
      <4> QED BY <2>6, <3>1, <4>1, <4>2
    <3> QED BY <1>2, <2>6, <3>1, <3>2 DEF Begun, Supply
  <2>9. \A e \in Addr : e \in to_commit' \/ e \notin chain'.registered => Kept(chain', base, e)
    BY <1>2, <2>1, <2>6 DEF CommitInv, Kept
  <2>10. to_commit' \subseteq state'.cached
    BY <1>2, <2>1
  <2>11. CASE tx.status = "success" /\ SuccessInv(chain, base, tx.origin)
    <3>1. \A e \in Addr \ to_commit : LawfulStored(chain', base, tx.origin, e)
      BY <2>6, <2>11 DEF SuccessInv, LawfulStored
    <3>2. SpendersOnly(base, tx.origin, state')
      BY <2>5, <2>11 DEF SuccessInv, SpendersOnly, Senders
    <3>3. SuccessInv(chain, base, tx.origin)'
      BY <1>2, <2>1, <2>6, <2>7, <2>11, <3>1, <3>2 DEF SuccessInv
    <3>4. CommitInv(chain, base, tx.origin)'
      BY <2>1, <2>9, <2>10, <2>11, <3>3 DEF CommitInv
    <3> QED BY <1>1, <1>2, <2>1, <2>8, <3>4, CommitGoesOn
  <2>12. CASE tx.status \in {"invalid", "reverted"} /\ FailureInv(chain, base, tx.origin)
    <3>1. (\A e \in Addr \ to_commit : PlainStored(chain, base, tx.origin, e))'
      BY <2>1, <2>6, <2>12 DEF FailureInv, PlainStored, Counted
    <3>2. PICK fee \in 1..MaxFee :
            /\ fee <= base.balance[tx.origin]
            /\ state.transfers = <<FeeTransfer(tx.origin, fee)>> /\ chain.balance = base.balance
      BY <1>1, <2>12 DEF FailureInv, FeeMoves
    <3>3. t = FeeTransfer(tx.origin, fee) /\ Tail(state.transfers) = <<>>
      BY <3>2 DEF t
    <3>4. tx.status = "reverted" /\ tx.origin # Coinbase
      BY <1>1, <2>12 DEF FailureInv, FeeMoves
    <3>5. FeeMoves(chain, base, tx.origin)'
      BY <2>1, <2>6, <2>7, <3>2, <3>3, <3>4 DEF FeeMoves
    <3>6. FailureInv(chain, base, tx.origin)'
      BY <1>2, <2>1, <2>6, <2>7, <2>12, <3>1, <3>5 DEF FailureInv
    <3>7. CommitInv(chain, base, tx.origin)'
      BY <2>1, <2>9, <2>10, <2>12, <3>6 DEF CommitInv
    <3> QED BY <1>1, <1>2, <2>1, <2>8, <3>7, CommitGoesOn
  <2> QED BY <1>2, <2>11, <2>12 DEF CommitInv
<1> QED BY <1>3, <1>4 DEF TransferEth

\* After the last transfer Starknet's storage is settled again.
LEMMA CommitKeepsAtomic ==
  ASSUME IInv, AInv, Commit
  PROVE  AInv'
<1>1. /\ phase = "transfers" /\ phase' = "idle" /\ chain' = chain /\ base' = base /\ tx' = tx
  BY DEF Commit
<1>2. /\ chain \in Chain /\ base \in Chain /\ tx.origin \in Eoa
      /\ Settled(base) /\ Begun(chain, base, tx.origin)
      /\ CommitInv(chain, base, tx.origin) /\ to_commit = {}
  BY <1>1, CommitFacts DEF AInv
<1>3. tx.status # "running"
  BY <1>2 DEF CommitInv
<1>4. UnregisteredEmpty(chain)
  <2> SUFFICES ASSUME NEW a \in Addr \ chain.registered
               PROVE  chain.nonce[a] = 0 /\ chain.code[a] = FALSE /\ chain.slot[a] = 0
    BY DEF UnregisteredEmpty
  <2>1. a \in Addr \ base.registered /\ Kept(chain, base, a)
    BY <1>2 DEF Begun, CommitInv
  <2> QED BY <1>2, <2>1 DEF Settled, UnregisteredEmpty, Kept
<1>5. ASSUME NEW a \in Addr
      PROVE  (chain.code[a] => chain.nonce[a] > 0) /\ (a \in Eoa => ~chain.code[a])
  <2>1. /\ base.nonce[a] \in Nat /\ chain.nonce[a] \in Nat
        /\ base.code[a] \in BOOLEAN /\ chain.code[a] \in BOOLEAN
        /\ base.code[a] => base.nonce[a] > 0
        /\ a \in Eoa => ~base.code[a]
    BY <1>2 DEF Chain, Settled
  <2>2. CASE SuccessInv(chain, base, tx.origin)
    <3>1. LawfulStored(chain, base, tx.origin, a)
      BY <1>2, <2>2 DEF SuccessInv
    <3>2. chain.nonce[a] >= base.nonce[a]
      BY <3>1 DEF LawfulStored, Lawful
    <3>3. chain.code[a] # base.code[a] => a \in CreateTargets /\ chain.nonce[a] > 0
      BY <3>1 DEF LawfulStored, Lawful
    <3>4. a \in CreateTargets => a \notin Eoa
      BY AddressAssumption
    <3>5. CASE chain.code[a] # base.code[a]
      BY <3>3, <3>4, <3>5
    <3>6. CASE chain.code[a] = base.code[a]
      BY <2>1, <3>2, <3>6
    <3> QED BY <3>5, <3>6
  <2>3. CASE FailureInv(chain, base, tx.origin)
    <3>1. PlainStored(chain, base, tx.origin, a)
      BY <1>2, <2>3 DEF FailureInv
    <3>2. chain.code[a] = base.code[a]
      BY <3>1 DEF PlainStored
    <3>3. chain.nonce[a] >= base.nonce[a]
      BY <2>1, <3>1 DEF PlainStored, Counted
    <3> QED BY <2>1, <3>2, <3>3
  <2> QED BY <1>2, <2>2, <2>3 DEF CommitInv
<1>6. Supply(chain) = SumFunction(GenesisBalance)
  BY <1>2 DEF Begun, Settled
<1>7. Settled(chain)
  BY <1>4, <1>5, <1>6, BoundsOfInputs DEF Settled
<1>8. Settled(Ledger)'
  BY <1>1, <1>7 DEF Ledger
<1>9. tx'.origin \in Eoa /\ tx'.status # "running"
  BY <1>1, <1>2, <1>3
<1> QED BY <1>1, <1>8, <1>9 DEF AInv

\* So does every step of the commit.
LEMMA CommitStepKeepsAtomic ==
  ASSUME IsFiniteSet(Addr), HasLargestValue, IInv, AInv, CommitStep
  PROVE  AInv'
BY CommitAccountKeepsAtomic, EmitEventsKeepsAtomic, TransferEthKeepsAtomic, CommitKeepsAtomic
   DEF CommitStep

-----------------------------------------------------------------------------
(***************************************************************************)
(* The refinement.                                                          *)
(***************************************************************************)
\* The invariant holds at first,
LEMMA InitAtomic == Init => AInv
<1> SUFFICES ASSUME Init PROVE AInv
  OBVIOUS
<1>1. /\ chain = Genesis /\ phase = "idle" /\ tx.origin = CHOOSE a \in Eoa : TRUE
      /\ tx.status = "none"
  BY DEF Init
<1>2. tx.origin \in Eoa
  BY <1>1, AddressAssumption
<1> DEFINE nonces == [a \in Addr |-> IF a \in Contracts THEN 1 ELSE 0]
           codes == [a \in Addr |-> a \in Contracts]
           slots == [a \in Addr |-> 0]
<1>9. /\ Genesis.nonce = nonces /\ Genesis.code = codes /\ Genesis.slot = slots
      /\ Genesis.registered = Eoa \cup Contracts
  BY DEF Genesis
<1>10. /\ \A a \in Addr \ Contracts : nonces[a] = 0 /\ slots[a] = 0 /\ codes[a] = FALSE
       /\ \A a \in Addr : codes[a] => nonces[a] > 0
  <2>1. \A a \in Addr \ Contracts : codes[a] = FALSE
    <3>1. \A a \in Addr \ Contracts : ~codes[a]
      BY Zenon
    <3>2. codes \in [Addr -> BOOLEAN]
      OBVIOUS
    <3> HIDE DEF codes
    <3> QED BY <3>1, <3>2
  <2>2. \A a \in Addr : codes[a] => a \in Contracts
    BY Zenon
  <2>3. \A a \in Addr \ Contracts : nonces[a] = 0 /\ slots[a] = 0
    OBVIOUS
  <2>4. \A a \in Addr : a \in Contracts => nonces[a] = 1
    OBVIOUS
  <2> HIDE DEF nonces, codes, slots
  <2> QED BY <2>1, <2>2, <2>3, <2>4
<1> HIDE DEF nonces, codes, slots
<1>3. UnregisteredEmpty(Genesis)
  BY <1>9, <1>10 DEF UnregisteredEmpty
<1>4. \A a \in Addr : Genesis.code[a] => Genesis.nonce[a] > 0
  BY <1>9, <1>10
<1>5. \A a \in Eoa : ~Genesis.code[a]
  BY <1>9, <1>10, AddressAssumption
<1>6. Supply(Genesis) = SumFunction(GenesisBalance)
  BY DEF Supply, Genesis
<1>7. Settled(chain)
  BY <1>1, <1>3, <1>4, <1>5, <1>6 DEF Settled
<1>8. Ledger = chain
  BY <1>1 DEF Ledger
<1> QED BY <1>1, <1>2, <1>7, <1>8 DEF AInv

\* and every step preserves it.
LEMMA StepKeepsAtomic ==
  ASSUME IsFiniteSet(Addr), SupplyFits, HasLargestValue, IInv, AInv, [Next]_vars,
         Tame' \/ ~CairoMovesNative
  PROVE  AInv'
<1>1. IInv'
  BY StepPreserves
<1>2. CASE Send
  BY <1>2, SendKeepsAtomic
<1>3. CASE Opcode
  BY <1>3, OpcodeKeepsAtomic
<1>4. CASE End
  BY <1>4, EndKeepsAtomic
<1>5. CASE Finalize
  BY <1>1, <1>5, FinalizeCallKeepsAtomic, FinalizeCreateKeepsAtomic, FinalizeRootKeepsAtomic
     DEF Finalize
<1>6. CASE CommitStep
  BY <1>6, CommitStepKeepsAtomic
<1>7. CASE UNCHANGED vars
  BY <1>7 DEF vars, AInv, Ledger, RunInv, Contexts, Present, CommitInv, SuccessInv, FailureInv,
              FeeMoves, Plain, PlainStored, Counted, Depth, Top
<1> QED BY <1>2, <1>3, <1>4, <1>5, <1>6, <1>7 DEF Next, Proceed, NoMoreTransactions

\* The variables of AtomicTx.
Receipt == [origin |-> tx.origin, status |-> IF phase = "idle" THEN tx.status ELSE "running"]

LEMMA InitRefines == Init => Atomic!Init
BY DEF Init, Atomic!Init

\* A transaction begins when it is sent.
LEMMA SendRefines ==
  ASSUME AInv, Send
  PROVE  Atomic!Begin
<1>1. PICK origin \in Eoa, value \in Values, access_list \in AccessLists,
           to \in Callees \cup CreateTargets, deploy \in BOOLEAN :
        SendTransaction(origin, to, value, deploy, access_list)
  BY DEF Send
<1>2. phase = "idle" /\ chain' = chain /\ base' = chain
  BY <1>1 DEF SendTransaction
<1>3. phase' # "idle" /\ tx'.origin = origin
  BY <1>1 DEF SendTransaction, RejectTransaction, EnterRoot, NewTx
<1>4. tx.status # "running"
  BY <1>2 DEF AInv
<1>5. Ledger = chain /\ Ledger' = chain
  BY <1>2, <1>3 DEF Ledger
<1>6. Receipt.status # "running" /\ Receipt' = [origin |-> origin, status |-> "running"]
  BY <1>2, <1>3, <1>4 DEF Receipt
<1> QED BY <1>5, <1>6 DEF Atomic!Begin, Ledger, Receipt

\* A step in its course changes nothing that AtomicTx sees.
GoesOn ==
  phase # "idle" /\ phase' # "idle" /\ base' = base /\ tx'.origin = tx.origin

LEMMA GoesOnRefines ==
  ASSUME GoesOn
  PROVE  UNCHANGED Atomic!vars
BY DEF GoesOn, Atomic!vars

LEMMA AbortRefines ==
  ASSUME IInv, phase # "idle", Abort
  PROVE  Atomic!Abort
<1>1. /\ chain' = base /\ base' = base /\ phase' = "idle" /\ tx'.origin = tx.origin
      /\ tx'.status = "aborted"
  BY TypesOfVariables DEF Abort, Transaction, IInv
<1> QED BY <1>1 DEF Atomic!Abort, Atomic!Ends

\* Every step but the first and the last is one of these.
LEMMA ProceedGoesOn ==
  ASSUME IInv, Proceed, ~Commit
  PROVE  phase # "idle" /\ (Abort \/ GoesOn)
<1>1. TypeOK /\ tx \in Transaction
  BY TypesOfVariables DEF IInv
<1>2. CASE Opcode
  BY <1>1, <1>2, OpcodeShape DEF ContextStep, Running, GoesOn
<1>3. CASE End
  BY SMTT(60), <1>1, <1>3 DEF End, ExecReturn, ExecRevert, ExceptionalHalt, Ends, EthPrecompile,
     CairoPrecompileRefuses, CairoPrecompileExecutes, CairoBatchFails, CairoCallPanics,
     InPrecompile, Running, GoesOn, Transaction
<1>4. CASE Finalize
  BY <1>1, <1>4 DEF Finalize, FinalizeCall, FinalizeCreate, FinalizeRoot, TopStopped, Resume,
     Settle, GoesOn, Transaction
<1>5. CASE CommitStep
  BY <1>1, <1>5 DEF CommitStep, CommitAccount, EmitEvents, TransferEth, GoesOn
<1> QED BY <1>2, <1>3, <1>4, <1>5 DEF Proceed

-----------------------------------------------------------------------------
(***************************************************************************)
(* The end of a transaction.                                                *)
(***************************************************************************)
\* What is known of a transaction that is committed.
LEMMA EndFacts ==
  ASSUME IInv, AInv, Commit
  PROVE  /\ phase = "transfers" /\ phase' = "idle" /\ chain' = chain /\ tx' = tx
         /\ state.transfers = <<>> /\ to_commit = {}
         /\ chain \in Chain /\ base \in Chain /\ tx \in Transaction
         /\ tx.origin \in Eoa /\ tx.origin \in Addr
         /\ Settled(base) /\ Begun(chain, base, tx.origin)
         /\ base.registered \subseteq chain.registered
         /\ Ledger = base /\ Ledger' = chain
         /\ Receipt = [origin |-> tx.origin, status |-> "running"]
         /\ Receipt' = [origin |-> tx.origin, status |-> tx.status]
<1>1. /\ phase = "transfers" /\ phase' = "idle" /\ chain' = chain /\ tx' = tx
      /\ state.transfers = <<>>
  BY DEF Commit
<1>2. /\ to_commit = {} /\ chain \in Chain /\ base \in Chain /\ tx \in Transaction
      /\ tx.origin \in Eoa /\ tx.origin \in Addr
      /\ Settled(base) /\ Begun(chain, base, tx.origin)
  BY <1>1, CommitFacts DEF AInv
<1>3. Ledger = base /\ Ledger' = chain
  BY <1>1 DEF Ledger
<1>4. /\ Receipt = [origin |-> tx.origin, status |-> "running"]
      /\ Receipt' = [origin |-> tx.origin, status |-> tx.status]
  BY <1>1 DEF Receipt
<1> QED BY <1>1, <1>2, <1>3, <1>4 DEF Begun

\* The receipt, and the accounts that were deployed, are as AtomicTx says.
LEMMA EndsRefine ==
  ASSUME IInv, AInv, Commit
  PROVE  Atomic!Ends(tx.status) /\ Atomic!AccountsRemain
<1>1. /\ Ledger = base /\ Ledger' = chain /\ base.registered \subseteq chain.registered
      /\ Receipt = [origin |-> tx.origin, status |-> "running"]
      /\ Receipt' = [origin |-> tx.origin, status |-> tx.status]
  BY EndFacts
<1>2. Receipt.status = "running" /\ Receipt' = [Receipt EXCEPT !.status = tx.status]
  BY <1>1
<1> QED BY <1>1, <1>2 DEF Atomic!Ends, Atomic!AccountsRemain, Ledger, Receipt

\* A rejected transaction leaves nothing.
LEMMA RejectRefines ==
  ASSUME IInv, AInv, Commit, tx.status = "invalid"
  PROVE  Atomic!Reject
<1>1. /\ Ledger = base /\ Ledger' = chain /\ chain \in Chain /\ base \in Chain
      /\ to_commit = {} /\ phase = "transfers" /\ state.transfers = <<>>
  BY EndFacts
<1>2. FailureInv(chain, base, tx.origin)
  BY <1>1 DEF AInv, CommitInv
<1>3. \A a \in Addr : PlainStored(chain, base, tx.origin, a)
  BY <1>1, <1>2 DEF FailureInv
<1>4. \A a \in Addr : Kept(chain, base, a)
  <2> SUFFICES ASSUME NEW a \in Addr PROVE Kept(chain, base, a)
    OBVIOUS
  <2>1. base.nonce[a] \in Nat
    BY <1>1 DEF Chain
  <2> QED BY <1>3, <2>1 DEF PlainStored, Counted, Kept
<1>5. chain.nonce = base.nonce /\ chain.code = base.code /\ chain.slot = base.slot
  BY <1>1, <1>4 DEF Kept, Chain
<1>6. chain.balance = base.balance
  BY <1>1, <1>2 DEF FailureInv, FeeMoves
<1>7. chain.events = base.events /\ chain.cairo = base.cairo
  BY <1>2 DEF FailureInv
<1>8. Atomic!Unchanged({"balance", "nonce", "code", "slot", "events", "cairo"})
  BY <1>1, <1>5, <1>6, <1>7 DEF Atomic!Unchanged, Ledger
<1> QED BY <1>8, EndsRefine DEF Atomic!Reject

\* One that failed leaves its nonce and its fee.
LEMMA FailRefines ==
  ASSUME IInv, AInv, Tame, Commit, tx.status = "reverted"
  PROVE  Atomic!Fail(tx.origin)
<1>1. /\ Ledger = base /\ Ledger' = chain /\ chain \in Chain /\ base \in Chain
      /\ to_commit = {} /\ phase = "transfers" /\ state.transfers = <<>>
      /\ tx.origin \in Addr
  BY EndFacts
<1>2. FailureInv(chain, base, tx.origin)
  BY <1>1 DEF AInv, CommitInv
<1>3. \A a \in Addr : PlainStored(chain, base, tx.origin, a)
  BY <1>1, <1>2 DEF FailureInv
<1>4. chain.code = base.code /\ chain.slot = base.slot
  BY <1>1, <1>3 DEF PlainStored, Chain
<1>5. chain.nonce = [base.nonce EXCEPT ![tx.origin] = @ + 1]
  <2>1. chain.nonce \in [Addr -> Nat] /\ base.nonce \in [Addr -> Nat]
    BY <1>1 DEF Chain
  <2>2. \A a \in Addr : chain.nonce[a] = base.nonce[a] + (IF a = tx.origin THEN 1 ELSE 0)
    BY <1>3 DEF PlainStored, Counted
  <2>3. \A a \in Addr : chain.nonce[a] = [base.nonce EXCEPT ![tx.origin] = @ + 1][a]
    BY <1>1, <2>1, <2>2
  <2> QED BY <1>1, <2>1, <2>3
<1>6. chain.events = base.events
  BY <1>2 DEF FailureInv
<1>7. chain.cairo = base.cairo
  <2>1. NoOrphanCairoEffect /\ base.cairo \in Nat
    BY TypesOfVariables DEF IInv
  <2> QED BY <2>1 DEF NoOrphanCairoEffect, Tame
<1>8. PICK fee \in 1..MaxFee :
        /\ fee <= base.balance[tx.origin]
        /\ chain.balance = IF Coinbase = tx.origin THEN base.balance
                           ELSE [base.balance EXCEPT ![tx.origin] = @ - fee, ![Coinbase] = @ + fee]
  <2>1. MaxFee \in Nat \ {0} /\ base.balance \in [Addr -> Nat] /\ Coinbase \in Addr
    BY <1>1, AmountAssumption, BoundsOfInputs DEF Chain
  <2>2. CASE tx.origin = Coinbase
    <3>1. base.balance[tx.origin] >= MaxFee
      BY <1>2 DEF FailureInv
    <3>2. chain.balance = base.balance
      BY <1>2, <2>2 DEF FailureInv, FeeMoves
    <3>3. 1 \in 1..MaxFee /\ 1 <= base.balance[tx.origin]
      BY <1>1, <2>1, <3>1
    <3> QED BY <2>2, <3>2, <3>3
  <2>3. CASE tx.origin # Coinbase
    <3>1. PICK fee \in 1..MaxFee :
            /\ fee <= base.balance[tx.origin]
            /\ chain.balance = Transferred(base.balance, FeeTransfer(tx.origin, fee))
      BY <1>1, <1>2, <2>3 DEF FailureInv, FeeMoves
    <3>2. Transferred(base.balance, FeeTransfer(tx.origin, fee))
            = [base.balance EXCEPT ![tx.origin] = @ - fee, ![Coinbase] = @ + fee]
      <4> DEFINE t == FeeTransfer(tx.origin, fee)
                 next == Transferred(base.balance, t)
                 paid == [base.balance EXCEPT ![tx.origin] = @ - fee, ![Coinbase] = @ + fee]
      <4>1. t \in Transfer /\ t.sender = tx.origin /\ t.recipient = Coinbase /\ t.amount = fee
        BY <1>1, <2>1 DEF FeeTransfer, Transfer
      <4> HIDE DEF t
      <4>2. next \in [Addr -> Nat]
        BY <2>1, <3>1, <4>1, TransferredType
      <4>3. \A a \in Addr : next[a] = IF a = tx.origin THEN base.balance[a] - fee
                                      ELSE IF a = Coinbase THEN base.balance[a] + fee
                                      ELSE base.balance[a]
        BY <2>1, <2>3, <4>1, TransferredAt
      <4>4. /\ DOMAIN paid = Addr /\ paid = [a \in Addr |-> paid[a]]
            /\ \A a \in Addr : paid[a] = IF a = tx.origin THEN base.balance[a] - fee
                                         ELSE IF a = Coinbase THEN base.balance[a] + fee
                                         ELSE base.balance[a]
        BY <1>1, <2>1, <2>3
      <4> HIDE DEF next, paid
      <4>5. next = paid
        BY <4>2, <4>3, <4>4
      <4> QED BY <4>5 DEF next, paid, t
    <3> QED BY <2>3, <3>1, <3>2
  <2> QED BY <2>2, <2>3
<1>9. Atomic!Unchanged({"code", "slot", "events", "cairo"})
  BY <1>1, <1>4, <1>6, <1>7 DEF Atomic!Unchanged, Ledger
<1>10. /\ Ledger'.nonce = [Ledger.nonce EXCEPT ![tx.origin] = @ + 1]
       /\ fee <= Ledger.balance[tx.origin]
       /\ Ledger'.balance = Atomic!PaidTo(Coinbase, tx.origin, fee)
  BY <1>1, <1>5, <1>8 DEF Atomic!PaidTo, Ledger
<1> QED BY <1>9, <1>10, EndsRefine DEF Atomic!Fail, Ledger

\* What the sender is left with: the ledger tells it, or it is not more than all.
LEMMA SenderIsLeftEnough ==
  ASSUME IsFiniteSet(Addr), HasLargestValue, IInv, AInv, ~CairoMovesNative => LInv,
         Commit, tx.status = "success"
  PROVE  chain.balance[tx.origin] + MostSpent + MaxFee >= base.balance[tx.origin]
<1> DEFINE o == tx.origin
<1>1. /\ chain \in Chain /\ base \in Chain /\ to_commit = {} /\ phase = "transfers"
      /\ state.transfers = <<>> /\ tx.origin \in Addr /\ Settled(base)
  BY EndFacts
<1>2. /\ MaxFee \in Nat /\ LargestValue \in Nat
      /\ base.balance \in [Addr -> Nat] /\ chain.balance \in [Addr -> Nat]
      /\ base.balance[tx.origin] \in Nat /\ chain.balance[tx.origin] \in Nat
  BY <1>1, AmountAssumption, LargestValueBounds DEF Chain
<1>3. CASE CairoMovesNative
  <2>1. /\ SumFunction(base.balance) = base.balance[tx.origin] + Rest(base.balance, tx.origin)
        /\ Rest(base.balance, tx.origin) \in Nat
    BY <1>1, <1>2, SumSplit
  <2>2. SumFunction(base.balance) = SumFunction(GenesisBalance)
    BY <1>1 DEF Settled, Supply
  <2>3. MostSpent = base.balance[tx.origin] + Rest(base.balance, tx.origin)
    BY <1>3, <2>1, <2>2 DEF MostSpent
  <2> QED BY <1>2, <2>1, <2>3
<1>4. CASE ~CairoMovesNative
  <2>1. LInv /\ state \in Snapshots
    BY <1>4 DEF Snapshots
  <2>2. GoodNow(state)
    BY <2>1 DEF LInv
  <2>3. After(chain.balance, <<>>)[tx.origin]
          = BalanceOf(chain.balance, state, tx.origin) + Held[tx.origin]
    BY <1>1, <2>2 DEF GoodNow, Good
  <2>4. Held[tx.origin] = 0
    BY <1>1, HeldType
  <2>5. After(chain.balance, <<>>) = chain.balance
    <3>1. Replay(chain.balance, <<>>)[0] = chain.balance
      BY ReplayDef
    <3> QED BY <3>1 DEF After
  <2>6. SuccessInv(chain, base, tx.origin)
    BY <1>1 DEF AInv, CommitInv
  <2>7. tx.origin \in state.cached /\ Solvent(base, tx.origin, state.accounts[tx.origin])
    BY <2>6 DEF SuccessInv
  <2>8. state.accounts[tx.origin].balance \in Nat
    BY <1>1, TypesOfVariables DEF IInv, State, Account
  <2>9. chain.balance[tx.origin] = state.accounts[tx.origin].balance
    BY <2>3, <2>4, <2>5, <2>7, <2>8 DEF BalanceOf
  <2>10. state.accounts[tx.origin].balance + MaxFee + LargestValue >= base.balance[tx.origin]
    BY <2>7 DEF Solvent
  <2>11. MostSpent = LargestValue
    BY <1>4 DEF MostSpent
  <2> QED BY <1>2, <2>9, <2>10, <2>11
<1> QED BY <1>3, <1>4

\* AtomicTx has its own copy of the sum.
LEMMA SameSum ==
  ASSUME NEW f
  PROVE  Atomic!SumFunction(f) = SumFunction(f)
BY DEF SumFunction, SumFunctionOnSet, FoldFunctionOnSet, MapThenFoldSet,
       Atomic!SumFunction, Atomic!SumFunctionOnSet, Atomic!FoldFunctionOnSet,
       Atomic!MapThenFoldSet

\* One that succeeded keeps the limits.
LEMMA SucceedRefines ==
  ASSUME IsFiniteSet(Addr), HasLargestValue, IInv, AInv, ~CairoMovesNative => LInv,
         Commit, tx.status = "success"
  PROVE  Atomic!Succeed(tx.origin)
<1>1. /\ Ledger = base /\ Ledger' = chain /\ chain \in Chain /\ base \in Chain
      /\ to_commit = {} /\ phase = "transfers" /\ tx.origin \in Eoa /\ tx.origin \in Addr
      /\ Settled(base) /\ Begun(chain, base, tx.origin)
  BY EndFacts
<1>2. SuccessInv(chain, base, tx.origin)
  BY <1>1 DEF AInv, CommitInv
<1>3. ASSUME NEW a \in Addr
      PROVE  /\ chain.nonce[a] >= base.nonce[a]
             /\ a \in Eoa => chain.nonce[a] = base.nonce[a] + (IF a = tx.origin THEN 1 ELSE 0)
             /\ chain.code[a] # base.code[a] =>
                  a \in CreateTargets /\ base.nonce[a] = 0 /\ ~base.code[a] /\ chain.nonce[a] > 0
             /\ chain.slot[a] # base.slot[a] => chain.nonce[a] > 0
             /\ base.nonce[a] \in Nat /\ chain.nonce[a] \in Nat
             /\ base.code[a] \in BOOLEAN /\ chain.code[a] \in BOOLEAN
  <2>1. LawfulStored(chain, base, tx.origin, a)
    BY <1>1, <1>2 DEF SuccessInv
  <2>2. /\ base.nonce[a] \in Nat /\ chain.nonce[a] \in Nat
        /\ base.code[a] \in BOOLEAN /\ chain.code[a] \in BOOLEAN
    BY <1>1 DEF Chain
  <2> QED BY <2>1, <2>2 DEF LawfulStored, Lawful
<1>4. Atomic!TokenMoves(tx.origin)
  <2>1. SumFunction(chain.balance) = SumFunction(base.balance)
    BY <1>1 DEF Begun, Supply
  <2>2. chain.balance[tx.origin] + MostSpent + MaxFee >= base.balance[tx.origin]
    BY SenderIsLeftEnough
  <2>3. ASSUME NEW a \in Addr \ {tx.origin}, chain.balance[a] < base.balance[a]
        PROVE  base.code[a] \/ a \in CreateTargets
    <3>1. chain.balance[a] \in Nat /\ base.balance[a] \in Nat
      BY <1>1 DEF Chain
    <3>2. ~(chain.balance[a] >= base.balance[a])
      BY <2>3, <3>1
    <3> QED BY <1>1, <3>2 DEF Begun, Spender
  <2>4. /\ Atomic!SumFunction(Ledger'.balance) = Atomic!SumFunction(Ledger.balance)
        /\ Ledger'.balance[tx.origin] + MostSpent + MaxFee >= Ledger.balance[tx.origin]
        /\ \A a \in Addr \ {tx.origin} :
             Ledger'.balance[a] < Ledger.balance[a] => Ledger.code[a] \/ a \in CreateTargets
    BY <1>1, <2>1, <2>2, <2>3, SameSum
  <2> QED BY <2>4 DEF Atomic!TokenMoves, Ledger
<1>5. Atomic!NoncesCount(tx.origin)
  <2>1. /\ chain.nonce[tx.origin] = base.nonce[tx.origin] + 1
        /\ \A a \in Addr : chain.nonce[a] >= base.nonce[a]
        /\ \A a \in Eoa \ {tx.origin} : chain.nonce[a] = base.nonce[a]
    BY <1>1, <1>3, BoundsOfInputs
  <2>2. /\ Ledger'.nonce[tx.origin] = Ledger.nonce[tx.origin] + 1
        /\ \A a \in Addr : Ledger'.nonce[a] >= Ledger.nonce[a]
        /\ \A a \in Eoa \ {tx.origin} : Ledger'.nonce[a] = Ledger.nonce[a]
    BY <1>1, <2>1
  <2> QED BY <2>2 DEF Atomic!NoncesCount, Ledger
<1>6. Atomic!CodeIsFinal
  <2>1. ASSUME NEW a \in Addr
        PROVE  /\ base.code[a] => chain.code[a]
               /\ chain.code[a] /\ ~base.code[a] => base.nonce[a] = 0 /\ chain.nonce[a] > 0
               /\ chain.slot[a] # base.slot[a] => chain.nonce[a] > 0
    BY <1>3
  <2>2. \A a \in Addr :
          /\ Ledger.code[a] => Ledger'.code[a]
          /\ Ledger'.code[a] /\ ~Ledger.code[a] => Ledger.nonce[a] = 0 /\ Ledger'.nonce[a] > 0
          /\ Ledger'.slot[a] # Ledger.slot[a] => Ledger'.nonce[a] > 0
    BY <1>1, <2>1
  <2> QED BY <2>2 DEF Atomic!CodeIsFinal, Ledger
<1>7. Ledger'.events >= Ledger.events /\ Ledger'.cairo >= Ledger.cairo
  BY <1>1, <1>2 DEF SuccessInv, Begun
<1> QED BY <1>4, <1>5, <1>6, <1>7, EndsRefine DEF Atomic!Succeed, Ledger

\* Every step is one of AtomicTx, or changes nothing that it sees.
LEMMA StepRefines ==
  ASSUME IsFiniteSet(Addr), HasLargestValue, IInv, AInv, ~CairoMovesNative => LInv, Tame,
         [Next]_vars
  PROVE  [Atomic!Next]_(Atomic!vars)
<1>1. CASE Send
  BY <1>1, SendRefines DEF Atomic!Next
<1>2. CASE Proceed /\ ~Commit
  BY <1>2, ProceedGoesOn, AbortRefines, GoesOnRefines DEF Atomic!Next
<1>3. CASE Commit
  <2>1. tx.status \in {"success", "invalid", "reverted"}
    BY <1>3, EndFacts DEF AInv, CommitInv
  <2>2. \/ Atomic!Reject
        \/ Atomic!Fail(tx.origin)
        \/ Atomic!Succeed(tx.origin)
    BY <1>3, <2>1, RejectRefines, FailRefines, SucceedRefines
  <2> QED BY <2>2 DEF Atomic!Next
<1>4. CASE UNCHANGED vars
  BY <1>4 DEF vars, Atomic!vars
<1> QED BY <1>1, <1>2, <1>3, <1>4 DEF Next, NoMoreTransactions

-----------------------------------------------------------------------------
(***************************************************************************)
(* The theorem.                                                            *)
(***************************************************************************)
\* EVM transactions are atomic, whatever the program, the depth of its contexts
\* and the precompiles it calls: each is rejected, reverts with its nonce and its
\* fee, succeeds within the limits of the EVM, or is aborted with all it did.
\* Tame leaves out the behaviours in which the record of Cairo calls wraps around
\* in the field or a batch of them fails half-way, which can leave Cairo effects
\* behind a reverted transaction.
THEOREM AtomicTransactions ==
  ASSUME IsFiniteSet(Addr), SupplyFits, HasLargestValue
  PROVE  Spec /\ []Tame => TransactionsAreAtomic
<1> DEFINE Inv == IInv /\ AInv /\ (~CairoMovesNative => LInv)
<1>1. Init => Inv
  BY InitInvariant, InitAtomic, InitLedger
<1>2. Inv /\ Tame' /\ [Next]_vars => Inv'
  BY StepPreserves, StepKeepsAtomic, StepKeepsLedger
<1>3. Init => Atomic!Init
  BY InitRefines
<1>4. Inv /\ Tame /\ [Next]_vars => [Atomic!Next]_(Atomic!vars)
  BY StepRefines
<1> QED BY <1>1, <1>2, <1>3, <1>4, PTL DEF Spec, TransactionsAreAtomic, Atomic!Spec

-----------------------------------------------------------------------------
(***************************************************************************)
(* Accounts that vanish.  A transaction may create an account and destroy   *)
(* it: what it was before the transaction is nothing, what it leaves is     *)
(* burnt when the commit passes it, and nothing is given to it afterwards.  *)
(***************************************************************************)
\* The commit has passed a vanished account.
Burnt(a) == state.accounts[a].balance = 0 /\ Kept(chain, base, a)

VInv ==
  /\ \A a \in Addr : Ledger.nonce[a] = 0 => Ledger.slot[a] = 0
  /\ phase \in {"accounts", "transfers"} =>
       \A a \in state.cached :
         /\ state.accounts[a].created => a \in CreateTargets /\ base.nonce[a] = 0 /\ ~base.code[a]
         /\ Vanishes(state.accounts[a]) => a \in to_commit \/ Burnt(a)

\* The transfers to come neither create nor destroy tokens.
LEMMA AfterSum ==
  ASSUME IsFiniteSet(Addr), NEW balance \in [Addr -> Nat], NEW ts \in Seq(Transfer),
         Payable(balance, ts)
  PROVE  SumFunction(After(balance, ts)) = SumFunction(balance)
<1> DEFINE r == Replay(balance, ts)
           S == {n \in Nat : n <= Len(ts) => SumFunction(r[n]) = SumFunction(balance)}
<1>1. 0 \in S
  BY ReplayDef
<1>2. ASSUME NEW n \in Nat, n \in S PROVE n + 1 \in S
  <2>1. CASE n + 1 <= Len(ts)
    <3>1. /\ n <= Len(ts) /\ n + 1 \in 1..Len(ts) /\ (n + 1) - 1 = n
          /\ ts[n + 1] \in Transfer
      BY <2>1
    <3>2. r[n] \in [Addr -> Nat]
      BY <3>1, ReplayType
    <3>3. ts[n + 1].amount <= r[n][ts[n + 1].sender]
      BY <3>1 DEF Payable
    <3>4. r[n + 1] = Transferred(r[n], ts[n + 1])
      BY ReplayDef
    <3>5. SumFunction(r[n]) = SumFunction(balance)
      BY <1>2, <3>1
    <3> DEFINE now == r[n]
               t == ts[n + 1]
    <3>6. SumFunction(Transferred(now, t)) = SumFunction(now)
      <4>1. now \in [Addr -> Nat] /\ t \in Transfer /\ t.amount <= now[t.sender]
        BY <3>1, <3>2, <3>3
      <4> HIDE DEF now, t
      <4> QED BY <4>1, TransferredSum
    <3>7. SumFunction(r[n + 1]) = SumFunction(balance)
      BY <3>4, <3>5, <3>6
    <3> QED BY <3>7
  <2> QED BY <2>1
<1> HIDE DEF S
<1>3. Len(ts) \in S
  BY <1>1, <1>2, NatSet
<1> QED BY <1>3 DEF S, After

\* What an account has can be burnt: its balance and that of the burn address are
\* parts of the supply, which fits.
LEMMA BurnPossible ==
  ASSUME IsFiniteSet(Addr), SupplyFits, NEW c \in Chain, Supply(c) = SumFunction(GenesisBalance),
         NEW held, \A e \in Addr : held[e] = 0, NEW s \in State, Good(c.balance, held, s),
         NEW a \in s.cached, a # BurnAddress
  PROVE  TransferPossible(c, s, a, BurnAddress, s.accounts[a].balance)
<1> DEFINE after == After(c.balance, s.transfers)
           amount == s.accounts[a].balance
<1>1. /\ c.balance \in [Addr -> Nat] /\ s.transfers \in Seq(Transfer) /\ a \in Addr
      /\ BurnAddress \in Addr /\ Payable(c.balance, s.transfers)
  BY BoundsOfInputs DEF Chain, State, Good
<1>2. after \in [Addr -> Nat] /\ SumFunction(after) = SumFunction(GenesisBalance)
  BY <1>1, AfterType, AfterSum DEF Supply
<1>3. \A e \in Addr : after[e] = AccountOf(c, s, e).balance
  <2> SUFFICES ASSUME NEW e \in Addr PROVE after[e] = AccountOf(c, s, e).balance
    OBVIOUS
  <2>1. after[e] = BalanceOf(c.balance, s, e) + held[e]
    BY DEF Good
  <2>2. AccountOf(c, s, e).balance = BalanceOf(c.balance, s, e) /\ AccountOf(c, s, e).balance \in Nat
    BY AccountOfBalance
  <2> QED BY <2>1, <2>2
<1>4. AccountOf(c, s, a).balance = amount
  BY DEF AccountOf
<1> HIDE DEF after, amount
<1>5. /\ SumFunction(after) = after[a] + Rest(after, a)
      /\ after[BurnAddress] <= Rest(after, a) /\ Rest(after, a) \in Nat
  BY <1>1, <1>2, SumSplit
<1>6. amount + AccountOf(c, s, BurnAddress).balance <= MaxUint
  <2>1. /\ after[a] = amount /\ after[BurnAddress] = AccountOf(c, s, BurnAddress).balance
        /\ after[a] \in Nat /\ after[BurnAddress] \in Nat
    BY <1>1, <1>2, <1>3, <1>4
  <2>2. SumFunction(after) <= MaxUint /\ MaxUint \in Nat
    BY <1>2, MaxUintAssumption DEF SupplyFits
  <2> QED BY <1>5, <2>1, <2>2
<1>7. amount <= AccountOf(c, s, a).balance
      /\ AccountOf(c, s, BurnAddress).balance + amount <= MaxUint
  <2>1. amount \in Nat /\ AccountOf(c, s, BurnAddress).balance \in Nat
    BY <1>1, <1>2, <1>3, <1>4
  <2> QED BY <1>4, <1>6, <2>1
<1> QED BY <1>7 DEF TransferPossible, amount

\* Burning empties the account, and touches no other one but the burn address.
LEMMA BurnEmpties ==
  ASSUME NEW c \in Chain, NEW s \in State, NEW a \in s.cached, a # BurnAddress,
         TransferPossible(c, s, a, BurnAddress, s.accounts[a].balance)
  PROVE  LET t == AddTransfer(c, s, a, BurnAddress, s.accounts[a].balance)
         IN /\ t.accounts[a].balance = 0
            /\ \A e \in t.cached \ {BurnAddress} : e \in s.cached
            /\ \A e \in Addr \ {a, BurnAddress} : t.accounts[e] = s.accounts[e]
            /\ \A e \in t.cached : SameButBalance(t.accounts[e], AccountOf(c, s, e))
<1> DEFINE amount == s.accounts[a].balance
           t == AddTransfer(c, s, a, BurnAddress, amount)
<1>1. /\ a \in Addr /\ BurnAddress \in Addr /\ s.accounts[a] \in Account /\ amount \in Nat
      /\ AccountOf(c, s, a) = s.accounts[a]
  BY BoundsOfInputs DEF State, Account, AccountOf
<1>2. \A e \in t.cached : SameButBalance(t.accounts[e], AccountOf(c, s, e))
  BY ZenonT(60), <1>1, TransferFields
<1>3. CASE amount = 0
  <2>1. t = s
    BY <1>3 DEF AddTransfer, NullTransfer
  <2> QED BY <1>2, <1>3, <2>1
<1>4. CASE amount # 0
  <2> DEFINE sender == AccountOf(c, s, a)
             recipient == AccountOf(c, s, BurnAddress)
             paid == [sender EXCEPT !.balance = @ - amount]
             given == [recipient EXCEPT !.balance = @ + amount]
  <2>1. ~(NullTransfer(a, BurnAddress, amount) \/ ~TransferPossible(c, s, a, BurnAddress, amount))
    BY <1>4 DEF NullTransfer
  <2>2. /\ t.accounts = [s.accounts EXCEPT ![a] = paid, ![BurnAddress] = given]
        /\ t.cached = s.cached \cup {a, BurnAddress}
    BY <2>1, Zenon DEF AddTransfer, State
  <2>3. paid.balance = 0
    BY <1>1 DEF Account
  <2>4. s.accounts \in [Addr -> Account]
    BY DEF State
  <2> HIDE DEF t, amount, paid, given
  <2>5. /\ t.accounts[a] = paid
        /\ \A e \in Addr \ {a, BurnAddress} : t.accounts[e] = s.accounts[e]
    BY <1>1, <2>2, <2>4
  <2> QED BY <1>2, <2>2, <2>3, <2>5 DEF t, amount
<1> QED BY <1>3, <1>4

\* A commit begins with nothing passed: what its state created, the invariant of the
\* commit describes.
LEMMA CommitBeginsVanishing ==
  ASSUME VInv, IInv', AInv', phase' = "accounts", to_commit' = state'.cached,
         Ledger' = Ledger
  PROVE  VInv'
<1>1. /\ state' \in State /\ base' \in Chain /\ CommitInv(chain, base, tx.origin)'
  BY TypesOfVariables DEF IInv, TypeOK, AInv
<1>2. ASSUME NEW a \in state'.cached, state'.accounts[a].created
      PROVE  a \in CreateTargets /\ base'.nonce[a] = 0 /\ ~base'.code[a]
  <2>1. CASE SuccessInv(chain, base, tx.origin)'
    <3>1. LawfulAccount(base', tx'.origin, a, state'.accounts[a])
      BY <2>1 DEF SuccessInv
    <3> QED BY <1>2, <3>1 DEF LawfulAccount, Lawful
  <2>2. CASE FailureInv(chain, base, tx.origin)'
    <3>1. Plain(base, tx.origin, a, state.accounts[a])'
      BY <2>2 DEF FailureInv
    <3> QED BY <1>2, <3>1 DEF Plain
  <2> QED BY <1>1, <2>1, <2>2 DEF CommitInv
<1>3. \A a \in Addr : Ledger'.nonce[a] = 0 => Ledger'.slot[a] = 0
  BY DEF VInv
<1> QED BY <1>2, <1>3 DEF VInv

\* Steps that neither enter a commit nor take part in it.
LEMMA OutsideCommitVanishing ==
  ASSUME VInv, phase' \notin {"accounts", "transfers"}, Ledger' = Ledger
  PROVE  VInv'
BY DEF VInv

\* A step of the commit that keeps the accounts of the state, and what Starknet
\* stores of them.
LEMMA CommitGoesOnVanishing ==
  ASSUME VInv, IInv, phase \in {"accounts", "transfers"}, phase' \in {"accounts", "transfers"},
         base' = base, to_commit' = to_commit, state'.cached = state.cached,
         state'.accounts = state.accounts, \A a \in Addr : Kept(chain', chain, a)
  PROVE  VInv'
<1>1. state.cached \subseteq Addr
  BY TypesOfVariables DEF IInv, State
<1>2. Ledger = base /\ Ledger' = base
  BY DEF Ledger
<1>3. \A a \in Addr : Ledger'.nonce[a] = 0 => Ledger'.slot[a] = 0
  BY <1>2 DEF VInv
<1>4. ASSUME NEW a \in state.cached, Burnt(a) PROVE Burnt(a)'
  <2>1. Kept(chain', chain, a) /\ Kept(chain, base, a)
    BY <1>1, <1>4 DEF Burnt
  <2> QED BY <1>4, <2>1 DEF Burnt, Kept
<1> QED BY <1>3, <1>4 DEF VInv

\* Committing an account that vanishes burns what it has; the others stay burnt,
\* since the burn address is none that a transaction creates.
LEMMA CommitAccountVanishing ==
  ASSUME IsFiniteSet(Addr), SupplyFits, BurnAddress \notin CreateTargets,
         IInv, AInv, LInv, VInv, CommitAccount
  PROVE  VInv'
<1> DEFINE a == CHOOSE y \in to_commit : TRUE
           x == state.accounts[a]
           burnt == AddTransfer(chain, state, a, BurnAddress, x.balance)
<1>1. /\ phase = "accounts" /\ to_commit # {} /\ to_commit' = to_commit \ {a}
      /\ phase' = phase /\ base' = base /\ tx' = tx
      /\ \/ a \in Precompiles /\ chain' = chain /\ state' = state
         \/ /\ a \notin Precompiles /\ chain' = WriteAccount(x, a)
            /\ state' = IF Vanishes(x) THEN burnt ELSE state
  BY DEF CommitAccount
<1>2. a \in to_commit
  BY <1>1
<1> HIDE DEF a
<1>3. /\ chain \in Chain /\ base \in Chain /\ state \in State /\ to_commit \subseteq Addr
      /\ Settled(base) /\ Begun(chain, base, tx.origin)
      /\ to_commit \subseteq state.cached /\ state.cached \subseteq Addr /\ Kept(chain, base, a)
  BY <1>1, <1>2, CommitFacts DEF CommitInv, State
<1>4. \A e \in Addr \ {a} : Kept(chain', chain, e)
  BY <1>1, <1>2, CommitKept
<1>5. /\ Ledger = base /\ Ledger' = base
  BY <1>1 DEF Ledger
<1>6. \A e \in Addr : Ledger'.nonce[e] = 0 => Ledger'.slot[e] = 0
  BY <1>5 DEF VInv
<1>7. \A e \in state.cached :
         /\ state.accounts[e].created => e \in CreateTargets /\ base.nonce[e] = 0 /\ ~base.code[e]
         /\ Vanishes(state.accounts[e]) => e \in to_commit \/ Burnt(e)
  BY <1>1 DEF VInv
<1>8. CASE state' = state /\ ~Vanishes(x)
  <2>1. ASSUME NEW e \in state.cached, Vanishes(state.accounts[e])
        PROVE  e \in to_commit' \/ Burnt(e)'
    <3>1. e # a
      BY <1>8, <2>1
    <3>2. CASE e \in to_commit
      BY <1>1, <3>1, <3>2
    <3>3. CASE Burnt(e)
      <4>1. Kept(chain', chain, e) /\ Kept(chain, base, e)
        BY <1>3, <1>4, <3>1, <3>3 DEF Burnt
      <4> QED BY <1>1, <1>8, <3>3, <4>1 DEF Burnt, Kept
    <3> QED BY <1>7, <2>1, <3>2, <3>3
  <2> QED BY <1>1, <1>6, <1>7, <1>8, <2>1 DEF VInv
<1>9. CASE state' = burnt /\ chain' = WriteAccount(x, a) /\ Vanishes(x)
  <2>1. a \in state.cached /\ a # BurnAddress
    BY <1>2, <1>3, <1>7, <1>9 DEF Vanishes
  <2>2. TransferPossible(chain, state, a, BurnAddress, x.balance)
    <3>1. Supply(chain) = SumFunction(GenesisBalance)
      BY <1>3 DEF Begun, Settled
    <3>2. \A e \in Addr : Held[e] = 0
      BY <1>1, HeldType
    <3>3. Good(chain.balance, Held, state)
      BY DEF LInv, Snapshots, GoodNow
    <3> QED BY <1>3, <2>1, <3>1, <3>2, <3>3, BurnPossible
  <2>3. /\ burnt.accounts[a].balance = 0
        /\ \A e \in burnt.cached \ {BurnAddress} : e \in state.cached
        /\ \A e \in Addr \ {a, BurnAddress} : burnt.accounts[e] = state.accounts[e]
        /\ \A e \in burnt.cached : SameButBalance(burnt.accounts[e], AccountOf(chain, state, e))
    BY <1>3, <2>1, <2>2, BurnEmpties
  <2>4. Kept(chain', chain, a)
    <3>1. a \in Addr /\ x \in Account
      BY <1>2, <1>3 DEF State
    <3>2. /\ chain'.nonce[a] = chain.nonce[a] /\ chain'.slot[a] = chain.slot[a]
          /\ chain'.code[a] = chain.code[a]
      BY <1>3, <1>9, <3>1, WriteAccountFields
    <3> QED BY <3>2 DEF Kept
  <2> HIDE DEF x, burnt
  <2>5. ASSUME NEW e \in state'.cached, state'.accounts[e].created
        PROVE  e \in state.cached /\ state.accounts[e].created /\ e # BurnAddress
    <3>1. AccountOf(chain, state, e).created
      BY <1>9, <2>3, <2>5 DEF SameButBalance
    <3>2. ~FetchAccount(chain, e).created
      BY DEF FetchAccount, EmptyAccount
    <3>3. e \in state.cached /\ state.accounts[e].created
      BY <3>1, <3>2 DEF AccountOf
    <3> QED BY <1>7, <3>3
  <2>6. ASSUME NEW e \in state'.cached, Vanishes(state'.accounts[e])
        PROVE  e \in to_commit' \/ Burnt(e)'
    <3>1. e \in state.cached /\ e \in Addr /\ e # BurnAddress
      BY <1>3, <2>5, <2>6 DEF Vanishes
    <3>2. CASE e = a
      BY <1>1, <1>3, <1>9, <2>3, <2>4, <3>2 DEF Burnt, Kept
    <3>3. CASE e # a
      <4>1. state'.accounts[e] = state.accounts[e]
        BY <1>9, <2>3, <3>1, <3>3
      <4>2. e \in to_commit \/ Burnt(e)
        BY <1>7, <2>6, <3>1, <4>1
      <4>3. CASE e \in to_commit
        BY <1>1, <3>3, <4>3
      <4>4. CASE Burnt(e)
        <5>1. Kept(chain', chain, e) /\ Kept(chain, base, e)
          BY <1>4, <3>1, <3>3, <4>4 DEF Burnt
        <5> QED BY <1>1, <4>1, <4>4, <5>1 DEF Burnt, Kept
      <4> QED BY <4>2, <4>3, <4>4
    <3> QED BY <3>2, <3>3
  <2>7. ASSUME NEW e \in state'.cached, state'.accounts[e].created
        PROVE  e \in CreateTargets /\ base'.nonce[e] = 0 /\ ~base'.code[e]
    BY <1>1, <1>7, <2>5, <2>7
  <2> QED BY <1>6, <2>6, <2>7 DEF VInv
<1>10. a \in Precompiles => ~Vanishes(x)
  BY <1>2, <1>3, <1>7, AddressAssumption DEF Vanishes
<1> QED BY <1>1, <1>8, <1>9, <1>10

\* After the commit an account with storage has a nonce again.
LEMMA CommitVanishing ==
  ASSUME IInv, AInv, VInv, Commit
  PROVE  VInv'
<1>1. /\ phase = "transfers" /\ phase' = "idle" /\ chain' = chain /\ to_commit = {}
      /\ chain \in Chain /\ base \in Chain /\ Ledger = base /\ Ledger' = chain
  BY EndFacts
<1>2. CommitInv(chain, base, tx.origin)
  BY <1>1, CommitFacts
<1>3. ASSUME NEW a \in Addr, chain.nonce[a] = 0 PROVE chain.slot[a] = 0
  <2>1. base.nonce[a] \in Nat /\ (base.nonce[a] = 0 => base.slot[a] = 0)
    BY <1>1 DEF VInv, Chain
  <2>2. CASE SuccessInv(chain, base, tx.origin)
    <3>1. LawfulStored(chain, base, tx.origin, a)
      BY <1>1, <2>2 DEF SuccessInv
    <3>2. chain.nonce[a] >= base.nonce[a] /\ (chain.slot[a] # base.slot[a] => chain.nonce[a] > 0)
      BY <3>1 DEF LawfulStored, Lawful
    <3> QED BY <1>3, <2>1, <3>2
  <2>3. CASE FailureInv(chain, base, tx.origin)
    <3>1. PlainStored(chain, base, tx.origin, a)
      BY <1>1, <2>3 DEF FailureInv
    <3>2. chain.nonce[a] >= base.nonce[a] /\ chain.slot[a] = base.slot[a]
      BY <2>1, <3>1 DEF PlainStored, Counted
    <3> QED BY <1>3, <2>1, <3>2
  <2> QED BY <1>2, <2>2, <2>3 DEF CommitInv
<1> QED BY <1>1, <1>3 DEF VInv

\* At first nothing is stored,
LEMMA InitVanishing == Init => VInv
<1> SUFFICES ASSUME Init PROVE VInv
  OBVIOUS
<1>1. Ledger = Genesis /\ phase = "idle"
  BY DEF Init, Ledger
<1>2. \A a \in Addr : Genesis.slot[a] = 0
  BY DEF Genesis
<1> QED BY <1>1, <1>2 DEF VInv

\* and every step preserves the invariant.
LEMMA StepVanishing ==
  ASSUME IsFiniteSet(Addr), SupplyFits, BurnAddress \notin CreateTargets,
         IInv, AInv, LInv, VInv, [Next]_vars, IInv', AInv'
  PROVE  VInv'
<1>1. /\ chain \in Chain /\ base \in Chain /\ state \in State /\ TypeOK
  BY TypesOfVariables DEF IInv
<1>2. CASE Send
  <2>1. PICK origin \in Eoa, value \in Values, access_list \in AccessLists,
             to \in Callees \cup CreateTargets, deploy \in BOOLEAN :
          SendTransaction(origin, to, value, deploy, access_list)
    BY <1>2 DEF Send
  <2>2. /\ phase = "idle" /\ base' = chain /\ chain' = chain
        /\ \/ phase' = "run"
           \/ phase' = "accounts" /\ to_commit' = state'.cached
    BY <2>1 DEF SendTransaction, RejectTransaction, EnterRoot
  <2>3. Ledger' = Ledger
    BY <2>2 DEF Ledger
  <2> QED BY <2>2, <2>3, CommitBeginsVanishing, OutsideCommitVanishing
<1>3. CASE phase # "idle" /\ Abort
  <2>1. phase' = "idle" /\ chain' = base /\ base' = base
    BY <1>3 DEF Abort
  <2>2. Ledger' = Ledger
    BY <1>3, <2>1 DEF Ledger
  <2> QED BY <2>1, <2>2, OutsideCommitVanishing
<1>4. CASE Opcode \/ (End /\ ~Abort) \/ (Finalize /\ ~Abort)
  <2>1. /\ phase = "run" /\ base' = base
        /\ \/ phase' = "run"
           \/ phase' = "accounts" /\ to_commit' = state'.cached
    <3>1. CASE Opcode
      BY <1>1, <3>1, OpcodeShape DEF ContextStep, Running
    <3>2. CASE End /\ ~Abort
      BY SMTT(60), <3>2 DEF End, ExecReturn, ExecRevert, ExceptionalHalt, Ends, EthPrecompile,
         CairoPrecompileRefuses, CairoPrecompileExecutes, CairoBatchFails, CairoCallPanics,
         InPrecompile, Running
    <3>3. CASE Finalize /\ ~Abort
      BY <3>3 DEF Finalize, FinalizeCall, FinalizeCreate, FinalizeRoot, TopStopped, Resume, Settle
    <3> QED BY <1>4, <3>1, <3>2, <3>3
  <2>2. Ledger' = Ledger
    BY <2>1 DEF Ledger
  <2> QED BY <2>1, <2>2, CommitBeginsVanishing, OutsideCommitVanishing
<1>5. CASE CommitAccount
  BY <1>5, CommitAccountVanishing
<1>6. CASE EmitEvents
  <2>1. /\ phase = "accounts" /\ phase' = "transfers" /\ base' = base /\ state' = state
        /\ to_commit' = to_commit /\ chain' = [chain EXCEPT !.events = @ + state.events]
    BY <1>6 DEF EmitEvents
  <2>2. chain'.nonce = chain.nonce /\ chain'.code = chain.code /\ chain'.slot = chain.slot
    BY <1>1, <2>1 DEF Chain
  <2>3. \A a \in Addr : Kept(chain', chain, a)
    BY <2>2 DEF Kept
  <2> QED BY <2>1, <2>3, CommitGoesOnVanishing
<1>7. CASE TransferEth /\ ~Abort
  <2>1. /\ phase = "transfers" /\ phase' = phase /\ base' = base /\ to_commit' = to_commit
        /\ chain' = [chain EXCEPT !.balance = Transferred(@, Head(state.transfers))]
        /\ state' = [state EXCEPT !.transfers = Tail(@)]
    BY <1>7 DEF TransferEth
  <2>2. /\ chain'.nonce = chain.nonce /\ chain'.code = chain.code /\ chain'.slot = chain.slot
        /\ state'.cached = state.cached /\ state'.accounts = state.accounts
    BY <1>1, <2>1 DEF Chain, State
  <2>3. \A a \in Addr : Kept(chain', chain, a)
    BY <2>2 DEF Kept
  <2> QED BY <2>1, <2>2, <2>3, CommitGoesOnVanishing
<1>8. CASE Commit
  BY <1>8, CommitVanishing
<1>9. CASE UNCHANGED vars
  BY <1>9 DEF vars, VInv, Ledger, Burnt
<1>10. Proceed /\ Abort => phase # "idle"
  BY ProceedGoesOn DEF Commit
<1> QED BY <1>2, <1>3, <1>4, <1>5, <1>6, <1>7, <1>8, <1>9, <1>10
   DEF Next, Proceed, CommitStep, NoMoreTransactions

\* An account that a transaction creates and destroys leaves nothing when the last
\* transfer is made, so that its address can be used again, as long as no address that
\* a creation computes is the burn address.
THEOREM VanishedLeaveNothing ==
  ASSUME IsFiniteSet(Addr), SupplyFits, HasLargestValue, ~CairoMovesNative,
         BurnAddress \notin CreateTargets
  PROVE  Spec => []VanishedAccountsLeaveNothing
<1> DEFINE Inv == IInv /\ AInv /\ LInv /\ VInv
<1>1. Init => Inv
  BY InitInvariant, InitAtomic, InitLedger, InitVanishing
<1>2. Inv /\ [Next]_vars => Inv'
  BY StepPreserves, StepKeepsAtomic, StepKeepsLedger, StepVanishing
<1>3. Inv => VanishedAccountsLeaveNothing
  <2> SUFFICES ASSUME IInv, AInv, LInv, VInv, phase = "transfers", state.transfers = <<>>,
                      NEW a \in state.cached, Vanishes(state.accounts[a])
               PROVE  chain.balance[a] = 0 /\ FetchAccount(chain, a) = EmptyAccount
    BY DEF VanishedAccountsLeaveNothing
  <2>1. /\ chain \in Chain /\ base \in Chain /\ state \in State /\ a \in Addr /\ to_commit = {}
    BY CommitFacts DEF AInv, State
  <2>2. /\ base.nonce[a] = 0 /\ ~base.code[a] /\ base.slot[a] = 0
        /\ state.accounts[a].balance = 0 /\ Kept(chain, base, a)
    <3>1. state.accounts[a].created
      BY DEF Vanishes
    <3>2. Burnt(a) /\ base.nonce[a] = 0 /\ ~base.code[a]
      BY <2>1, <3>1 DEF VInv
    <3>3. Ledger = base
      BY DEF Ledger
    <3> QED BY <2>1, <3>2, <3>3 DEF VInv, Burnt
  <2>3. chain.balance[a] = 0
    <3>1. Good(chain.balance, Held, state)
      BY DEF LInv, Snapshots, GoodNow
    <3>2. After(chain.balance, <<>>) = chain.balance
      BY ReplayDef DEF After
    <3>3. chain.balance[a] = BalanceOf(chain.balance, state, a) + Held[a]
      BY <2>1, <3>1, <3>2 DEF Good
    <3>4. Held[a] = 0 /\ BalanceOf(chain.balance, state, a) = 0
      BY <2>1, <2>2, HeldType DEF BalanceOf
    <3> QED BY <3>3, <3>4
  <2>4. chain.nonce[a] = 0 /\ chain.code[a] = FALSE /\ chain.slot[a] = 0
    BY <2>1, <2>2 DEF Kept, Chain
  <2>5. FetchAccount(chain, a) = EmptyAccount
    BY <2>3, <2>4, WordAssumption DEF FetchAccount, EmptyAccount
  <2> QED BY <2>3, <2>5
<1> QED BY <1>1, <1>2, <1>3, PTL DEF Spec

=============================================================================
